----------------------------- MODULE PlainFile -----------------------------
(***************************************************************************)
(* What libocfs2 promises of a file: blocks that keep what was written to  *)
(* them last and read as zero before that, whatever extents are below.     *)
(* A call that fails may have done a part of its work.                     *)
(***************************************************************************)
EXTENDS Integers

CONSTANTS Max,          \* the blocks a file may have
          Tag(_)        \* what a program writes at a block

VARIABLES blocks,       \* the contents of the file, 0..(size - 1)
          op,           \* the last call: what, at which block, how many
          err           \* the result of the last call

Size == CHOOSE n \in 0..Max : DOMAIN blocks = 0..(n - 1)
Done == err' = ""

Init == blocks = [v \in 0..(0 - 1) |-> 0] /\ op.what = "" /\ err = ""

\* The blocks past the old end read as zero.
Resized(n) == [v \in 0..(n - 1) |-> IF v < Size THEN blocks[v] ELSE 0]

Write(v, n) ==
    /\ DOMAIN blocks' = DOMAIN blocks
    /\ \A b \in DOMAIN blocks :
        IF b \in v..(v + n - 1)
        THEN blocks'[b] = Tag(b) \/ (~Done /\ blocks'[b] = blocks[b])
        ELSE blocks'[b] = blocks[b]
Resize(n) == blocks' = Resized(n) \/ (~Done /\ UNCHANGED blocks)
\* A system file of n blocks, all written.
Fill(n) ==
    \/ blocks' = [v \in 0..(n - 1) |-> Tag(v)]
    \/ ~Done /\ UNCHANGED blocks

Next ==
    \/ op'.what = "write" /\ Write(op'.at, op'.n)
    \/ op'.what = "truncate" /\ Resize(op'.n)
    \/ op'.what = "allocate" /\ Resize(IF op'.at + op'.n > Size THEN op'.at + op'.n ELSE Size)
    \/ op'.what \in {"journal", "expand"} /\ Fill(op'.at + op'.n)
    \/ op'.what = "others" /\ UNCHANGED blocks
Spec == Init /\ [][Next]_<<blocks, op, err>>
============================================================================
