---------------------------- MODULE BlockDevice -----------------------------
(***************************************************************************)
(* What io_read_block() and io_write_block() promise their callers: a disk *)
(* read and written a few blocks at a time, with no cache to be seen       *)
(* except in a block that a failed write left torn.                        *)
(***************************************************************************)
EXTENDS Integers

CONSTANTS N, Contents, torn, NoAnswer

VARIABLES
  disk,
  whole,    \* each block as it was last written as a whole
  answer    \* what the last read returned, or NoAnswer

Block == 0..N-1

Init == disk \in [Block -> Contents] /\ whole = disk /\ answer = NoAnswer

(* A request is being served, has failed, or was a write. *)
Silence == answer' = NoAnswer /\ UNCHANGED <<disk, whole>>

(* A write reaches the disk up to some block, or to the middle of one. *)
Write(b, n) ==
  /\ answer' = NoAnswer
  /\ disk' \in [Block -> Contents] /\ whole' \in [Block -> Contents]
  /\ \A k \in Block :
       /\ k \notin b..b+n-1 => disk'[k] = disk[k]
       /\ whole'[k] = IF disk'[k] \in {disk[k], torn} THEN whole[k] ELSE disk'[k]

Read(b, n) ==
  /\ UNCHANGED <<disk, whole>>
  /\ answer' \in [0..n-1 -> Contents]
  /\ \A k \in 0..n-1 :
       \/ answer'[k] = disk[b + k]
       \/ disk[b + k] = torn /\ answer'[k] = whole[b + k]

Next == Silence \/ \E b \in Block : \E n \in 1..N-b : Read(b, n) \/ Write(b, n)

Spec == Init /\ [][Next]_<<disk, whole, answer>>
=============================================================================
