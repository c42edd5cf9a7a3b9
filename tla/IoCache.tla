------------------------------ MODULE IoCache -------------------------------
(***************************************************************************)
(* The block cache of an io_channel (libocfs2/unix_io.c).                  *)
(*                                                                         *)
(* A fixed number of buffers is looked up by block number and stolen from  *)
(* the front of an LRU list.  Reads and writes go through the cache; one   *)
(* action is one system call, with the control around it, or one iteration *)
(* of a loop that brings the cache and the caller's buffer together.       *)
(***************************************************************************)
EXTENDS Integers, FiniteSets

CONSTANTS
  N,            \* blocks of the device
  Values,       \* what a block may hold
  unread,       \* what a buffer holds before anything is read into it
  torn,         \* a block of which a write has changed only a part
  ic_nr_blocks, \* buffers of the cache
  Hunk          \* one_meg_of_blocks()

ASSUME CacheAssumption ==
  /\ N \in Nat \ {0} /\ ic_nr_blocks \in Nat \ {0} /\ Hunk \in Nat \ {0}
  /\ unread \notin Values /\ torn \notin Values /\ unread # torn

VARIABLES
  disk,
  whole,        \* history: each block as it was last written as a whole
  io_cache,     \* the channel has a cache
  io_nocache,   \* the channel's default for a request
  icb,          \* the buffers
  ic_lru,       \* the list: position 1 is stolen next
  data,         \* the caller's buffer
  req           \* the request being served

vars == <<disk, whole, io_cache, io_nocache, icb, ic_lru, data, req>>

Block == 0..N-1
Contents == Values \cup {unread, torn}
Buffers == 1..ic_nr_blocks
UINT64_MAX == -1

Idle == [pc |-> "idle", blkno |-> 0, count |-> 1, pos |-> 0,
         todo |-> 0, good |-> 0, i |-> 0, nocache |-> FALSE]

(* A caller's buffer that nothing has been read into. *)
Garbage == [k \in Block |-> unread]

(* The request is over: with an answer if a read succeeded. *)
answered(r, d) ==
  /\ req' = [Idle EXCEPT !.pc = "answered", !.count = r.count]
  /\ data' = d
over == req' = Idle /\ data' = Garbage

(* A request of count blocks at blkno: pos of them are served, todo more   *)
(* are in hand, and of those i are done.                                   *)
-----------------------------------------------------------------------------
cached(b) == \E s \in Buffers : icb[s].blkno = b

io_cache_lookup(b) == CHOOSE s \in Buffers : icb[s].blkno = b

place(s) == CHOOSE k \in Buffers : ic_lru[k] = s

(* list_del() and list_add_tail(); list_del() and list_add().              *)
io_cache_seen(s) ==
  [k \in Buffers |-> IF k < place(s) THEN ic_lru[k]
                     ELSE IF k < ic_nr_blocks THEN ic_lru[k + 1] ELSE s]
io_cache_unsee(s) ==
  [k \in Buffers |-> IF k > place(s) THEN ic_lru[k]
                     ELSE IF k > 1 THEN ic_lru[k - 1] ELSE s]

(* The buffer s has been used for the request. *)
used(s) ==
  ic_lru' = IF req.nocache THEN io_cache_unsee(s) ELSE io_cache_seen(s)

(* io_cache_pop_lru(), io_cache_insert() and the copy into the buffer.     *)
(* Storing another block number is io_cache_disconnect().                  *)
stolen == ic_lru[1]
filled(s, b, v) == [icb EXCEPT ![s] = [blkno |-> b, buf |-> v]]
-----------------------------------------------------------------------------
(* unix_io_read_block(): the buffer d after n blocks have been read to its *)
(* offset pos.  Its start belongs to the block blkno.                      *)
fetched(d, blkno, pos, n) ==
  [k \in Block |-> IF k \in pos..pos+n-1 THEN disk[blkno + k] ELSE d[k]]

(* io_read_block() and io_read_block_nocache().  Without a cache the disk  *)
(* is read at once, or an error ends the read early.                       *)
io_read_block(b, n, nocache) ==
  LET r == [Idle EXCEPT !.blkno = b, !.count = n, !.nocache = nocache]
  IN /\ req.pc = "idle" /\ nocache \in {io_nocache, TRUE}
     /\ \/ io_cache /\ req' = [r EXCEPT !.pc = "read"] /\ data' = Garbage
        \/ ~io_cache /\ answered(r, fetched(Garbage, b, 0, n))
        \/ ~io_cache /\ over
     /\ UNCHANGED <<disk, whole, io_cache, io_nocache, icb, ic_lru>>

(* good_blocks: the blocks before the first that is not cached.  (Mutant:  *)
(* all that are cached, wherever.)                                         *)
good_blocks_any(b, n) == Cardinality({k \in 0..n-1 : cached(b + k)})

good_blocks(b, n) ==
  CHOOSE g \in 0..n :
    /\ \A k \in 0..g-1 : cached(b + k)
    /\ g < n => ~cached(b + g)

(* io_cache_read_block(): the next hunk, and the I/O of                    *)
(* io_cache_read_blocks() for it.                                          *)
io_cache_read_block ==
  LET left == req.count - req.pos
      todo == IF Hunk > left THEN left ELSE Hunk
      good == good_blocks(req.blkno + req.pos, todo)
  IN /\ req.pc = "read"
     /\ \/ left = 0 /\ answered(req, data)
        \/ /\ left > 0
           /\ req' = [req EXCEPT !.pc = "copy", !.todo = todo, !.good = good, !.i = 0]
           /\ data' = fetched(data, req.blkno, req.pos + good, todo - good)
        \/ left > 0 /\ good < todo /\ over
     /\ UNCHANGED <<disk, whole, io_cache, io_nocache, icb, ic_lru>>

(* One iteration of the loop of io_cache_read_blocks() that brings cache   *)
(* and buffer together.                                                    *)
io_cache_read_blocks ==
  LET k == req.pos + req.i
      b == req.blkno + k
      s == io_cache_lookup(b)
  IN /\ req.pc = "copy"
     /\ \/ /\ req.i = req.todo
           /\ req' = [req EXCEPT !.pc = "read", !.pos = @ + req.todo,
                                  !.todo = 0, !.good = 0, !.i = 0]
           /\ UNCHANGED <<icb, ic_lru, data>>
        \/ /\ req.i < req.todo /\ req' = [req EXCEPT !.i = @ + 1]
           /\ \/ /\ cached(b) /\ req.i < req.good
                 /\ data' = [data EXCEPT ![k] = icb[s].buf]
                 /\ used(s) /\ UNCHANGED icb
              \/ /\ cached(b) /\ req.i >= req.good
                 /\ used(s) /\ UNCHANGED <<icb, data>>
              \/ /\ ~cached(b) /\ ~req.nocache
                 /\ icb' = filled(stolen, b, data[k])
                 /\ used(stolen) /\ UNCHANGED data
              \/ /\ ~cached(b) /\ req.nocache
                 /\ UNCHANGED <<icb, ic_lru, data>>
     /\ UNCHANGED <<disk, whole, io_cache, io_nocache>>

(* unix_io_write_block_full(): the disk after the first n blocks of the    *)
(* buffer d have been written at b to what was there before.               *)
written(old, b, d, n) ==
  [k \in Block |-> IF k \in b..b+n-1 THEN d[k - b] ELSE old[k]]

(* A write that fails after completed blocks may have changed a part of    *)
(* the next one: completed is the number of bytes divided by the size of a *)
(* block.                                                                  *)
io_write_block(b, n, d, nocache) ==
  /\ req.pc = "idle" /\ nocache \in {io_nocache, TRUE}
  /\ \E completed \in 0..n :
       /\ \/ disk' = written(disk, b, d, completed)
          \/ /\ completed < n /\ d[completed] # disk[b + completed]
             /\ disk' = [written(disk, b, d, completed) EXCEPT ![b + completed] = torn]
       /\ whole' = written(whole, b, d, completed)
       /\ \/ /\ io_cache
             /\ req' = [Idle EXCEPT !.pc = "update", !.blkno = b, !.count = n,
                                    !.todo = completed, !.nocache = nocache]
             /\ data' = [k \in Block |-> IF k < completed THEN d[k] ELSE unread]
          \/ ~io_cache /\ over
  /\ UNCHANGED <<io_cache, io_nocache, icb, ic_lru>>

(* A block that a nocache write passes by: it was not in the cache.        *)
(* (Mutant: whether or not it was.)                                        *)
passed_by_always(b) == req.nocache

passed_by(b) == req.nocache /\ ~cached(b)

(* One iteration of the loop of io_cache_write_blocks(), which updates the *)
(* cache with the blocks that were written.                                *)
io_cache_write_blocks ==
  LET b == req.blkno + req.i
      s == IF cached(b) THEN io_cache_lookup(b) ELSE stolen
  IN /\ req.pc = "update"
     /\ \/ req.i = req.todo /\ over /\ UNCHANGED <<icb, ic_lru>>
        \/ /\ req.i < req.todo /\ req' = [req EXCEPT !.i = @ + 1] /\ UNCHANGED data
           /\ \/ passed_by(b) /\ UNCHANGED <<icb, ic_lru>>
              \/ ~passed_by(b) /\ icb' = filled(s, b, data[req.i]) /\ used(s)
     /\ UNCHANGED <<disk, whole, io_cache, io_nocache>>

(* The caller of io_read_block() has looked at its buffer. *)
look ==
  /\ req.pc = "answered" /\ over
  /\ UNCHANGED <<disk, whole, io_cache, io_nocache, icb, ic_lru>>
-----------------------------------------------------------------------------
(* io_init_cache(): no buffer has a block; the list is in order.  (Mutant: *)
(* the block numbers of an earlier cache are kept.)                        *)
disconnected_not == icb

disconnected == [s \in Buffers |-> [icb[s] EXCEPT !.blkno = UINT64_MAX]]

io_init_cache ==
  /\ req.pc = "idle" /\ ~io_cache
  /\ io_cache' = TRUE
  /\ icb' = disconnected
  /\ ic_lru' = [k \in Buffers |-> k]
  /\ UNCHANGED <<disk, whole, io_nocache, data, req>>

io_destroy_cache ==
  /\ req.pc = "idle" /\ io_cache
  /\ io_cache' = FALSE
  /\ UNCHANGED <<disk, whole, io_nocache, icb, ic_lru, data, req>>

io_set_nocache ==
  /\ req.pc = "idle"
  /\ io_nocache' = ~io_nocache
  /\ UNCHANGED <<disk, whole, io_cache, icb, ic_lru, data, req>>
-----------------------------------------------------------------------------
Init ==
  /\ disk \in [Block -> Values] /\ whole = disk /\ data = Garbage
  /\ io_cache = FALSE /\ io_nocache = FALSE
  /\ icb = [s \in Buffers |-> [blkno |-> UINT64_MAX, buf |-> unread]]
  /\ ic_lru = [k \in Buffers |-> k]
  /\ req = Idle

Next ==
  \/ \E b \in Block, nocache \in BOOLEAN : \E n \in 1..N-b :
       \/ io_read_block(b, n, nocache)
       \/ \E d \in [0..n-1 -> Values] : io_write_block(b, n, d, nocache)
  \/ io_cache_read_block \/ io_cache_read_blocks \/ io_cache_write_blocks \/ look
  \/ io_init_cache \/ io_destroy_cache \/ io_set_nocache

Spec == Init /\ [][Next]_vars
-----------------------------------------------------------------------------
(* The buffer of block b may hold v: what is on disk or, if a write has    *)
(* stopped inside the block, the whole block that was there before.        *)
up_to_date(v, b) == v = disk[b] \/ (disk[b] = torn /\ v = whole[b])

(* "If a block is in the cache, the same thing is on disk": between two    *)
(* requests, whichever way the last one ended.  One exception: a write     *)
(* that stops inside a block leaves the cache with the block as it was,    *)
(* since io_cache_write_blocks() updates completed blocks only.            *)
CacheIsDisk ==
  io_cache /\ req.pc \in {"idle", "answered"} =>
    \A s \in Buffers : icb[s].blkno # UINT64_MAX => up_to_date(icb[s].buf, icb[s].blkno)

(* The assertions of the code: io_cache_insert() finds no buffer with the  *)
(* block number ("We erased it, remember?"), and the blocks counted as     *)
(* good are still there when they are copied.                              *)
AssertsHold ==
  /\ \A s, t \in Buffers :
       icb[s].blkno = icb[t].blkno /\ icb[s].blkno # UINT64_MAX => s = t
  /\ req.pc = "copy" /\ req.i < req.good => cached(req.blkno + req.pos + req.i)

(* What a read that succeeds returns. *)
answer ==
  IF req.pc = "answered" THEN [k \in 0..req.count-1 |-> data[k]] ELSE unread

Device == INSTANCE BlockDevice WITH NoAnswer <- unread

(* A program cannot tell that there is a cache, whatever was cached,       *)
(* stolen or left alone before: every read returns what is on disk, but    *)
(* for a block that a failed write has torn, which is read as it is or as  *)
(* it was before that write.                                               *)
Implements == Device!Spec
=============================================================================
