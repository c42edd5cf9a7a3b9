--------------------------- MODULE IoCacheProofs ----------------------------
(***************************************************************************)
(* Proofs about IoCache: for any device, any number of buffers and any     *)
(* hunk, the cache holds what is on disk, the assertions of unix_io.c      *)
(* hold, and a program sees a plain block device.                          *)
(*                                                                         *)
(* The argument: a buffer may differ from the disk only while a write is   *)
(* being brought into the cache, and only for a block the loop has yet to  *)
(* come to; and what a read has collected so far, from the disk and from   *)
(* the cache, is what the disk holds.  The order of the LRU list does not  *)
(* matter: whichever buffer is stolen, no promise is broken.               *)
(***************************************************************************)
EXTENDS IoCache, WellFoundedInduction, TLAPS

Requests ==
  [pc : {"idle", "answered", "read", "copy", "update"},
   blkno : Block, count : 1..N, pos : 0..N, todo : 0..N, good : 0..N, i : 0..N,
   nocache : BOOLEAN]

TypeOK ==
  /\ disk \in [Block -> Values \cup {torn}] /\ whole \in [Block -> Values]
  /\ io_cache \in BOOLEAN /\ io_nocache \in BOOLEAN
  /\ icb \in [Buffers -> [blkno : Block \cup {UINT64_MAX}, buf : Contents]]
  /\ ic_lru \in [Buffers -> Buffers]
  /\ data \in [Block -> Contents]
  /\ req \in Requests

(* Where a request is: within the device, within its count, and only in    *)
(* the cache's loops when there is a cache.                                *)
InBounds ==
  /\ req.blkno + req.count <= N /\ req.pos <= req.count
  /\ req.pos + req.todo <= req.count /\ req.i <= req.todo /\ req.good <= req.todo
  /\ req.pc \in {"read", "copy", "update"} => io_cache
  /\ req.pc = "update" => req.pos = 0
  /\ req.pc = "read" => req.todo = 0

(* io_cache_lookup() finds one buffer at most. *)
Unique ==
  \A s, t \in Buffers :
    icb[s].blkno = icb[t].blkno /\ icb[s].blkno # UINT64_MAX => s = t

(* The blocks of a write that the loop of io_cache_write_blocks() has yet  *)
(* to bring into the cache.                                                *)
Pending ==
  IF req.pc = "update" THEN req.blkno + req.i .. req.blkno + req.todo - 1 ELSE {}

Coherent ==
  io_cache =>
    \A s \in Buffers :
      icb[s].blkno # UINT64_MAX /\ icb[s].blkno \notin Pending =>
        up_to_date(icb[s].buf, icb[s].blkno)

(* The blocks of the caller's buffer that are as up to date as the cache. *)
Filled ==
  CASE req.pc = "read" -> 0 .. req.pos - 1
    [] req.pc = "copy" -> (0 .. req.pos + req.i - 1)
                          \cup (req.pos + req.good .. req.pos + req.todo - 1)
    [] req.pc = "update" -> 0 .. req.todo - 1
    [] OTHER -> {}

Collected == \A k \in Filled : up_to_date(data[k], req.blkno + k)

(* The history is that of the disk. *)
WholeIsDisk == \A k \in Block : disk[k] # torn => whole[k] = disk[k]

(* The blocks counted as good are not stolen before they are copied. *)
GoodStay ==
  req.pc = "copy" =>
    \A j \in req.i .. req.good - 1 : cached(req.blkno + req.pos + j)

CacheInv ==
  TypeOK /\ InBounds /\ Unique /\ Coherent /\ Collected /\ GoodStay
-----------------------------------------------------------------------------
(* Facts about numbers and about the operators. *)

Less == {ss \in Nat \X Nat : ss[1] < ss[2]}

LEMMA LeastOf ==
  ASSUME NEW T, T \subseteq Nat, T # {}
  PROVE  \E x \in T : \A y \in T : x <= y
<1>1. OpToRel(<, Nat) = Less
  BY Zenon DEF OpToRel, Less
<1>2. PICK x \in T : \A y \in T : <<y, x>> \notin Less
  BY <1>1, NatLessThanWellFounded, WFMin, Zenon
<1>3. ASSUME NEW y \in T, y < x PROVE FALSE
  <2>1. <<y, x>> \in Nat \X Nat /\ <<y, x>>[1] < <<y, x>>[2]
    BY <1>3, Zenon
  <2> QED
    BY <2>1, <1>2, Zenon DEF Less
<1> QED
  BY <1>3

(* io_cache_lookup() finds a block that is cached, in a buffer that has it. *)
LEMMA LookupFinds ==
  ASSUME NEW b, cached(b)
  PROVE  io_cache_lookup(b) \in Buffers /\ icb[io_cache_lookup(b)].blkno = b
BY Zenon DEF cached, io_cache_lookup

(* The count of good blocks stops at the first block that is not cached. *)
LEMMA GoodBlocks ==
  ASSUME NEW b \in Int, NEW n \in Nat
  PROVE  /\ good_blocks(b, n) \in 0..n
         /\ \A k \in 0..good_blocks(b, n)-1 : cached(b + k)
<1> DEFINE T == {g \in 0..n : g < n => ~cached(b + g)}
<1>1. T \subseteq Nat /\ n \in T
  OBVIOUS
<1>2. PICK g \in T : \A y \in T : g <= y
  BY <1>1, LeastOf, Zenon
<1>3. g \in 0..n /\ (g < n => ~cached(b + g))
  BY <1>2, Zenon
<1>4. ASSUME NEW k \in 0..g-1 PROVE cached(b + k)
  BY <1>2, <1>3
<1> HIDE DEF T
<1>5. \E h \in 0..n : (\A k \in 0..h-1 : cached(b + k)) /\ (h < n => ~cached(b + h))
  BY <1>3, <1>4, Zenon
<1> QED
  BY <1>5, Zenon DEF good_blocks

(* However a buffer is moved, the list has buffers in it. *)
LEMMA ListStays ==
  ASSUME TypeOK, NEW s \in Buffers, used(s)
  PROVE  ic_lru' \in [Buffers -> Buffers]
<1>1. \A k \in Buffers : k < ic_nr_blocks => k + 1 \in Buffers
  BY CacheAssumption DEF Buffers
<1>2. \A k \in Buffers : k > 1 => k - 1 \in Buffers
  BY CacheAssumption DEF Buffers
<1>3. io_cache_seen(s) \in [Buffers -> Buffers]
  BY <1>1, Zenon DEF TypeOK, io_cache_seen
<1>4. io_cache_unsee(s) \in [Buffers -> Buffers]
  BY <1>2, Zenon DEF TypeOK, io_cache_unsee
<1> QED
  BY <1>3, <1>4, Zenon DEF used

LEMMA StolenIsBuffer == TypeOK => stolen \in Buffers
BY CacheAssumption DEF TypeOK, stolen, Buffers
-----------------------------------------------------------------------------
(* The requests that are made of Idle. *)
LEMMA NoRequest ==
  /\ Idle \in Requests /\ Garbage \in [Block -> Contents]
  /\ Idle.pc = "idle" /\ Idle.blkno = 0 /\ Idle.count = 1 /\ Idle.pos = 0
  /\ Idle.todo = 0 /\ Idle.good = 0 /\ Idle.i = 0
BY CacheAssumption DEF Idle, Requests, Block, Garbage, Contents

(* Between two requests nothing is pending or being collected. *)
LEMMA BetweenRequests ==
  ASSUME CacheInv, req' \in Requests, req'.pc \in {"idle", "answered"},
         req'.pos = 0, req'.todo = 0, req'.i = 0, req'.good = 0,
         req'.blkno + req'.count <= N, data' \in [Block -> Contents],
         Pending = {}, UNCHANGED <<disk, whole, io_cache, io_nocache, icb, ic_lru>>
  PROVE  CacheInv'
<1>1. TypeOK' /\ InBounds'
  BY CacheAssumption DEF CacheInv, TypeOK, InBounds, Requests, Block
<1>2. Pending' = {} /\ Filled' = {}
  BY Zenon DEF Pending, Filled
<1>3. Unique' /\ Coherent'
  BY <1>2, Zenon DEF CacheInv, Unique, Coherent, up_to_date
<1>4. Collected' /\ GoodStay'
  BY <1>2, Zenon DEF Collected, GoodStay, up_to_date
<1> QED
  BY <1>1, <1>3, <1>4, Zenon DEF CacheInv

LEMMA OverKeeps ==
  ASSUME CacheInv, over, Pending = {},
         UNCHANGED <<disk, whole, io_cache, io_nocache, icb, ic_lru>>
  PROVE  CacheInv'
BY BetweenRequests, NoRequest, CacheAssumption DEF over

LEMMA AnsweredKeeps ==
  ASSUME CacheInv, NEW r, NEW d \in [Block -> Contents], answered(r, d),
         r.count \in 1..N, Pending = {},
         UNCHANGED <<disk, whole, io_cache, io_nocache, icb, ic_lru>>
  PROVE  CacheInv' /\ answer' = [k \in 0..r.count-1 |-> d[k]]
<1>1. req' \in Requests /\ req'.pc = "answered" /\ req'.blkno = 0 /\ req'.count = r.count
      /\ req'.pos = 0 /\ req'.todo = 0 /\ req'.i = 0 /\ req'.good = 0
  BY NoRequest, Zenon DEF answered, Idle, Requests
<1>2. data' = d
  BY Zenon DEF answered
<1>3. req'.blkno + req'.count <= N
  BY <1>1, CacheAssumption
<1> QED
  BY <1>1, <1>2, <1>3, BetweenRequests, Zenon DEF answer
-----------------------------------------------------------------------------
LEMMA InitHolds == Init => CacheInv
<1> SUFFICES ASSUME Init PROVE CacheInv
  BY Zenon
<1>1. TypeOK
  BY NoRequest, CacheAssumption, Zenon DEF Init, TypeOK, Block, Buffers, Contents, UINT64_MAX
<1>2. InBounds
  BY NoRequest, CacheAssumption DEF Init, InBounds
<1>3. Unique /\ Coherent
  BY Zenon DEF Init, Unique, Coherent, up_to_date
<1>4. Collected /\ GoodStay
  BY NoRequest, Zenon DEF Init, Collected, Filled, GoodStay, up_to_date
<1> QED
  BY <1>1, <1>2, <1>3, <1>4, Zenon DEF CacheInv
-----------------------------------------------------------------------------
LEMMA FetchedIsDisk ==
  ASSUME TypeOK, NEW d \in [Block -> Contents], NEW b \in Block, NEW pos \in Nat,
         NEW n \in Nat, b + pos + n <= N
  PROVE  /\ fetched(d, b, pos, n) \in [Block -> Contents]
         /\ \A k \in pos..pos+n-1 : k \in Block /\ fetched(d, b, pos, n)[k] = disk[b + k]
         /\ \A k \in Block : k \notin pos..pos+n-1 => fetched(d, b, pos, n)[k] = d[k]
<1>1. \A k \in pos..pos+n-1 : k \in Block /\ b + k \in Block
  BY CacheAssumption DEF Block
<1>2. \A k \in Block : disk[k] \in Contents
  BY Zenon DEF TypeOK, Contents
<1> QED
  BY <1>1, <1>2, Zenon DEF fetched

LEMMA ReadBegins ==
  ASSUME CacheInv, NEW b \in Block, NEW n \in 1..N-b, NEW nocache \in BOOLEAN,
         io_read_block(b, n, nocache)
  PROVE  CacheInv'
<1> DEFINE r == [Idle EXCEPT !.blkno = b, !.count = n, !.nocache = nocache]
<1>2. Pending = {} /\ b + n <= N /\ n \in 1..N
  BY CacheAssumption DEF io_read_block, Pending, Block
<1>1. r \in Requests /\ r.blkno = b /\ r.count = n /\ r.pos = 0 /\ r.todo = 0
      /\ r.i = 0 /\ r.good = 0
  BY <1>2, NoRequest, CacheAssumption, Zenon DEF Idle, Requests
<1>3. CASE io_cache /\ req' = [r EXCEPT !.pc = "read"] /\ data' = Garbage
  <2>1. req' \in Requests /\ req'.pc = "read" /\ req'.blkno = b /\ req'.count = n
        /\ req'.pos = 0 /\ req'.todo = 0 /\ req'.i = 0 /\ req'.good = 0
    BY <1>1, <1>3, Zenon DEF Requests
  <2> HIDE DEF r
  <2>2. UNCHANGED <<disk, whole, io_cache, io_nocache, icb, ic_lru>>
    BY Zenon DEF io_read_block
  <2>3. TypeOK' /\ InBounds'
    BY <1>2, <1>3, <2>1, <2>2, NoRequest DEF CacheInv, TypeOK, InBounds
  <2>4. Unique' /\ Coherent'
    BY <1>2, <2>1, <2>2, Zenon DEF CacheInv, Unique, Coherent, Pending, up_to_date
  <2>5. Collected' /\ GoodStay'
    BY <2>1 DEF Collected, Filled, GoodStay, up_to_date
  <2> QED
    BY <2>3, <2>4, <2>5, Zenon DEF CacheInv
<1>4. CASE ~io_cache /\ answered(r, fetched(Garbage, b, 0, n))
  <2>1. fetched(Garbage, b, 0, n) \in [Block -> Contents]
    <3>1. b + 0 + n <= N /\ n \in Nat
      BY <1>2, CacheAssumption DEF Block
    <3> QED
      BY <3>1, FetchedIsDisk, NoRequest, Zenon DEF CacheInv
  <2> HIDE DEF r
  <2> QED
    BY <1>1, <1>2, <1>4, <2>1, AnsweredKeeps, Zenon DEF io_read_block
<1>5. CASE ~io_cache /\ over
  BY <1>2, <1>5, OverKeeps, Zenon DEF io_read_block
<1> QED
  BY <1>3, <1>4, <1>5, Zenon DEF io_read_block

LEMMA HunkRequest ==
  ASSUME req \in Requests, NEW t \in 0..N, NEW g \in 0..N,
         req' = [req EXCEPT !.pc = "copy", !.todo = t, !.good = g, !.i = 0]
  PROVE  /\ req' \in Requests /\ req'.pc = "copy" /\ req'.todo = t /\ req'.good = g
         /\ req'.i = 0 /\ req'.blkno = req.blkno /\ req'.pos = req.pos
         /\ req'.count = req.count
<1> DEFINE q == [req EXCEPT !.pc = "copy", !.i = 0]
<1>1. 0 \in 0..N
  BY CacheAssumption
<1>2. /\ q \in Requests /\ q.pc = "copy" /\ q.i = 0 /\ q.blkno = req.blkno
      /\ q.pos = req.pos /\ q.count = req.count
  BY <1>1, Zenon DEF Requests
<1>3. req' = [q EXCEPT !.todo = t, !.good = g]
  BY Zenon DEF Requests
<1> HIDE DEF q
<1> QED
  BY <1>2, <1>3, ZenonT(40) DEF Requests

LEMMA HunkBegins == ASSUME CacheInv, io_cache_read_block PROVE CacheInv'
<1> DEFINE left == req.count - req.pos
           todo == IF Hunk > left THEN left ELSE Hunk
           good == good_blocks(req.blkno + req.pos, todo)
<1>1. /\ req \in Requests /\ req.pc = "read" /\ Pending = {} /\ Filled = 0..req.pos-1
      /\ req.blkno + req.count <= N /\ req.pos <= req.count /\ io_cache
      /\ UNCHANGED <<disk, whole, io_cache, io_nocache, icb, ic_lru>>
  BY Zenon DEF io_cache_read_block, Pending, Filled, CacheInv, TypeOK, InBounds
<1>2. left \in Nat /\ todo \in Nat /\ todo <= left /\ req.blkno + req.pos \in Int
  BY <1>1, CacheAssumption DEF Requests, Block
<1>3. good \in 0..todo /\ \A k \in 0..good-1 : cached(req.blkno + req.pos + k)
  BY <1>2, GoodBlocks, Zenon
<1>4. CASE left = 0 /\ answered(req, data)
  BY <1>1, <1>4, AnsweredKeeps, Zenon DEF Requests, CacheInv, TypeOK
<1>5. CASE /\ left > 0
           /\ req' = [req EXCEPT !.pc = "copy", !.todo = todo, !.good = good, !.i = 0]
           /\ data' = fetched(data, req.blkno, req.pos + good, todo - good)
  <2> HIDE DEF left, todo, good
  <2>1. todo \in 0..N /\ good \in 0..N /\ req.pos + todo <= req.count
    BY <1>1, <1>2, <1>3, CacheAssumption DEF Requests, left
  <2>2. /\ req' \in Requests /\ req'.pc = "copy" /\ req'.todo = todo /\ req'.good = good
        /\ req'.i = 0 /\ req'.blkno = req.blkno /\ req'.pos = req.pos
        /\ req'.count = req.count
    <3>1. /\ req \in Requests /\ todo \in 0..N /\ good \in 0..N
          /\ req' = [req EXCEPT !.pc = "copy", !.todo = todo, !.good = good, !.i = 0]
      BY <1>1, <1>5, <2>1, Zenon
    <3> QED
      BY <1>1, <3>1, HunkRequest, Zenon
  <2>3. data' \in [Block -> Contents]
        /\ (\A k \in req.pos+good..req.pos+todo-1 :
              k \in Block /\ data'[k] = disk[req.blkno + k])
        /\ \A k \in Block : k \notin req.pos+good..req.pos+todo-1 => data'[k] = data[k]
    <3>1. req.blkno \in Block /\ req.pos + good \in Nat /\ todo - good \in Nat
          /\ req.blkno + (req.pos + good) + (todo - good) <= N
          /\ (req.pos + good) + (todo - good) - 1 = req.pos + todo - 1
      <4>1. req.blkno \in Block /\ req.blkno \in Int /\ req.pos \in Nat /\ req.count \in Nat
            /\ good \in Nat /\ todo \in Nat /\ good <= todo /\ N \in Nat
            /\ req.blkno + req.count <= N /\ req.pos + todo <= req.count
        BY <1>1, <1>3, <2>1, CacheAssumption DEF Requests, Block
      <4> QED
        BY <4>1
    <3>2. TypeOK /\ data \in [Block -> Contents]
      BY Zenon DEF CacheInv, TypeOK
    <3> QED
      BY <1>5, <3>1, <3>2, FetchedIsDisk
  <2>4. TypeOK' /\ InBounds'
    BY <1>1, <1>3, <2>1, <2>2, <2>3 DEF CacheInv, TypeOK, InBounds
  <2>5. Unique' /\ Coherent'
    BY <1>1, <2>2, Zenon DEF CacheInv, Unique, Coherent, Pending, up_to_date
  <2>6. Collected'
    <3>1. Filled' = (0..req.pos-1) \cup (req.pos+good..req.pos+todo-1)
      BY <2>2, <1>1 DEF Filled, Requests
    <3>2. \A k \in 0..req.pos-1 : k \in Block /\ up_to_date(data[k], req.blkno + k)
      BY <1>1, CacheAssumption DEF CacheInv, Collected, Requests, Block, up_to_date
    <3>4. \A k \in 0..req.pos-1 : k \notin req.pos+good..req.pos+todo-1
      BY <1>1, <1>3 DEF Requests
    <3>3. \A k \in 0..req.pos-1 : up_to_date(data'[k], req.blkno + k)
      BY <3>2, <3>4, <2>3, Zenon
    <3> QED
      BY <1>1, <2>2, <2>3, <3>1, <3>3, Zenon DEF Collected, up_to_date
  <2>7. GoodStay'
    BY <1>1, <1>3, <2>2, Zenon DEF GoodStay, cached
  <2> QED
    BY <2>4, <2>5, <2>6, <2>7, Zenon DEF CacheInv
<1>6. CASE over
  BY <1>1, <1>6, OverKeeps, Zenon
<1> QED
  BY <1>4, <1>5, <1>6, Zenon DEF io_cache_read_block
-----------------------------------------------------------------------------
(* Filling a buffer with a block that no other buffer has. *)
LEMMA FilledKeeps ==
  ASSUME TypeOK, Unique, NEW s \in Buffers, NEW b \in Block, NEW v \in Contents,
         \A t \in Buffers : icb[t].blkno = b => t = s, icb' = filled(s, b, v)
  PROVE  /\ icb' \in [Buffers -> [blkno : Block \cup {UINT64_MAX}, buf : Contents]]
         /\ Unique'
         /\ icb'[s].blkno = b /\ icb'[s].buf = v
         /\ \A t \in Buffers \ {s} : icb'[t] = icb[t]
<1>1. \A t \in Buffers : icb'[t] = IF t = s THEN [blkno |-> b, buf |-> v] ELSE icb[t]
  BY Zenon DEF filled, TypeOK
<1>2. icb' \in [Buffers -> [blkno : Block \cup {UINT64_MAX}, buf : Contents]]
  BY Zenon DEF filled, TypeOK
<1>3. Unique'
  BY <1>1 DEF Unique
<1> QED
  BY <1>1, <1>2, <1>3

LEMMA NextOfHunk ==
  ASSUME req \in Requests, req.i < req.todo, req' = [req EXCEPT !.i = @ + 1]
  PROVE  /\ req' \in Requests /\ req'.pc = req.pc /\ req'.blkno = req.blkno
         /\ req'.count = req.count /\ req'.pos = req.pos /\ req'.todo = req.todo
         /\ req'.good = req.good /\ req'.i = req.i + 1
<1>1. req.i + 1 \in 0..N
  BY CacheAssumption DEF Requests
<1> QED
  BY <1>1, Zenon DEF Requests

LEMMA HunkEnds ==
  ASSUME req \in Requests, req.pos + req.todo <= N,
         req' = [req EXCEPT !.pc = "read", !.pos = @ + req.todo,
                            !.todo = 0, !.good = 0, !.i = 0]
  PROVE  /\ req' \in Requests /\ req'.pc = "read" /\ req'.blkno = req.blkno
         /\ req'.count = req.count /\ req'.pos = req.pos + req.todo /\ req'.todo = 0
         /\ req'.good = 0 /\ req'.i = 0
<1> DEFINE q == [req EXCEPT !.pc = "read", !.pos = @ + req.todo]
<1>1. 0 \in 0..N /\ req.pos + req.todo \in 0..N
  BY CacheAssumption DEF Requests
<1>2. /\ q \in Requests /\ q.pc = "read" /\ q.pos = req.pos + req.todo
      /\ q.blkno = req.blkno /\ q.count = req.count
  BY <1>1, Zenon DEF Requests
<1>3. req' = [q EXCEPT !.todo = 0, !.good = 0, !.i = 0]
  BY Zenon DEF Requests
<1> HIDE DEF q
<1> QED
  BY <1>1, <1>2, <1>3, ZenonT(40) DEF Requests

LEMMA CopyStep == ASSUME CacheInv, io_cache_read_blocks PROVE CacheInv'
<1> DEFINE k == req.pos + req.i
           b == req.blkno + k
           s == io_cache_lookup(b)
<1>1. /\ req \in Requests /\ req.pc = "copy" /\ Pending = {} /\ io_cache
      /\ Filled = (0 .. req.pos + req.i - 1) \cup (req.pos + req.good .. req.pos + req.todo - 1)
      /\ UNCHANGED <<disk, whole, io_cache, io_nocache>>
  BY Zenon DEF io_cache_read_blocks, Pending, Filled, CacheInv, TypeOK, InBounds
<1>2. /\ req.blkno \in Nat /\ req.pos \in Nat /\ req.i \in Nat /\ req.todo \in Nat
      /\ req.good \in Nat /\ req.count \in Nat /\ N \in Nat /\ req.i <= req.todo
      /\ req.blkno + req.count <= N /\ req.pos + req.todo <= req.count
      /\ req.good <= req.todo
  BY <1>1, CacheAssumption DEF CacheInv, InBounds, Requests, Block
<1>3. CASE /\ req.i = req.todo
           /\ req' = [req EXCEPT !.pc = "read", !.pos = @ + req.todo,
                                  !.todo = 0, !.good = 0, !.i = 0]
           /\ UNCHANGED <<icb, ic_lru, data>>
  <2>1. req.pos + req.todo <= N
    BY <1>2
  <2>2. /\ req' \in Requests /\ req'.pc = "read" /\ req'.blkno = req.blkno
        /\ req'.count = req.count /\ req'.pos = req.pos + req.todo /\ req'.todo = 0
        /\ req'.good = 0 /\ req'.i = 0
    BY <1>1, <1>3, <2>1, HunkEnds, Zenon
  <2>3. TypeOK' /\ InBounds'
    BY <1>1, <1>2, <1>3, <2>2 DEF CacheInv, TypeOK, InBounds
  <2>4. Unique' /\ Coherent' /\ GoodStay'
    BY <1>1, <1>3, <2>2, Zenon DEF CacheInv, Unique, Coherent, Pending, GoodStay, up_to_date
  <2>5. Collected'
    <3>1. Filled' \subseteq Filled
      BY <1>1, <1>2, <1>3, <2>2 DEF Filled
    <3> QED
      BY <1>1, <1>3, <2>2, <3>1 DEF CacheInv, Collected, up_to_date
  <2> QED
    BY <2>3, <2>4, <2>5, Zenon DEF CacheInv
<1>4. CASE req.i < req.todo /\ req' = [req EXCEPT !.i = @ + 1]
  <2>1. /\ req' \in Requests /\ req'.pc = req.pc /\ req'.blkno = req.blkno
        /\ req'.count = req.count /\ req'.pos = req.pos /\ req'.todo = req.todo
        /\ req'.good = req.good /\ req'.i = req.i + 1
    BY <1>1, <1>4, NextOfHunk, Zenon
  <2>2. k \in Block /\ b \in Block /\ k \in Nat
    BY <1>2, <1>4 DEF Block
  <2>3. InBounds'
    BY <1>1, <1>2, <1>4, <2>1 DEF CacheInv, InBounds
  <2>4. Filled' \subseteq Filled \cup {k} /\ Pending' = {}
    BY <1>1, <1>2, <1>4, <2>1 DEF Filled, Pending
  <2>5. \A j \in Filled' : j \in Block
    BY <1>1, <1>2, <1>4, <2>1 DEF Filled, Block
  <2>6. req.i >= req.good => up_to_date(data[k], b)
    <3>1. req.i >= req.good => k \in Filled
      BY <1>1, <1>2, <1>4
    <3> QED
      BY <3>1, Zenon DEF CacheInv, Collected
  <2>7. cached(b) => s \in Buffers /\ icb[s].blkno = b
    BY LookupFinds, Zenon
  <2>8. b # UINT64_MAX
    BY <1>2 DEF UINT64_MAX
  <2>9. data[k] \in Contents
    BY <2>2, Zenon DEF CacheInv, TypeOK
  <2>14. \/ /\ cached(b) /\ req.i < req.good
            /\ data' = [data EXCEPT ![k] = icb[s].buf]
            /\ used(s) /\ UNCHANGED icb
         \/ cached(b) /\ req.i >= req.good /\ used(s) /\ UNCHANGED <<icb, data>>
         \/ /\ ~cached(b) /\ ~req.nocache
            /\ icb' = filled(stolen, b, data[k])
            /\ used(stolen) /\ UNCHANGED data
         \/ ~cached(b) /\ req.nocache /\ UNCHANGED <<icb, ic_lru, data>>
    BY <1>2, <1>4 DEF io_cache_read_blocks
  <2> HIDE DEF k, b, s
  <2>10. CASE /\ cached(b) /\ req.i < req.good
              /\ data' = [data EXCEPT ![k] = icb[s].buf]
              /\ used(s) /\ UNCHANGED icb
    <3>1. up_to_date(icb[s].buf, b) /\ icb[s].buf \in Contents
      BY <1>1, <2>7, <2>8, <2>10, Zenon DEF CacheInv, Coherent, TypeOK
    <3>2. TypeOK'
      BY <1>1, <2>1, <2>7, <2>10, <3>1, ListStays, Zenon DEF CacheInv, TypeOK
    <3>3. Unique' /\ Coherent'
      BY <1>1, <2>4, <2>10, Zenon DEF CacheInv, Unique, Coherent, up_to_date
    <3>4. Collected'
      <4>1. \A j \in Filled' : up_to_date(data'[j], req.blkno + j)
        BY <2>2, <2>4, <2>5, <2>10, <3>1, Zenon DEF CacheInv, TypeOK, Collected, b
      <4> QED
        BY <1>1, <2>1, <4>1, Zenon DEF Collected, up_to_date
    <3>5. GoodStay'
      BY <1>1, <1>2, <2>1, <2>10 DEF CacheInv, GoodStay, cached
    <3> QED
      BY <2>3, <3>2, <3>3, <3>4, <3>5, Zenon DEF CacheInv
  <2>11. CASE cached(b) /\ req.i >= req.good /\ used(s) /\ UNCHANGED <<icb, data>>
    <3>1. TypeOK'
      BY <1>1, <2>1, <2>7, <2>11, ListStays, Zenon DEF CacheInv, TypeOK
    <3>2. Unique' /\ Coherent'
      BY <1>1, <2>4, <2>11, Zenon DEF CacheInv, Unique, Coherent, up_to_date
    <3>3. Collected'
      BY <1>1, <2>1, <2>4, <2>6, <2>11, Zenon DEF CacheInv, Collected, b, up_to_date
    <3>4. GoodStay'
      BY <1>2, <2>1, <2>11 DEF GoodStay
    <3> QED
      BY <2>3, <3>1, <3>2, <3>3, <3>4, Zenon DEF CacheInv
  <2>12. CASE /\ ~cached(b) /\ ~req.nocache
              /\ icb' = filled(stolen, b, data[k])
              /\ used(stolen) /\ UNCHANGED data
    <3>1. req.i >= req.good
      BY <1>1, <1>2, <2>12 DEF CacheInv, GoodStay, b, k
    <3>2. stolen \in Buffers /\ \A t \in Buffers : icb[t].blkno = b => t = stolen
      BY <2>12, StolenIsBuffer, Zenon DEF CacheInv, cached
    <3>3. /\ icb' \in [Buffers -> [blkno : Block \cup {UINT64_MAX}, buf : Contents]]
          /\ Unique' /\ icb'[stolen].blkno = b /\ icb'[stolen].buf = data[k]
          /\ \A t \in Buffers \ {stolen} : icb'[t] = icb[t]
      BY <2>2, <2>9, <2>12, <3>2, FilledKeeps DEF CacheInv
    <3>4. TypeOK'
      BY <1>1, <2>1, <2>12, <3>2, <3>3, ListStays, Zenon DEF CacheInv, TypeOK
    <3>5. Coherent'
      BY <1>1, <2>4, <2>6, <3>1, <3>3, Zenon DEF CacheInv, Coherent, up_to_date
    <3>6. Collected'
      BY <1>1, <2>1, <2>4, <2>6, <2>12, <3>1, Zenon DEF CacheInv, Collected, b, up_to_date
    <3>7. GoodStay'
      BY <1>2, <2>1, <3>1 DEF GoodStay
    <3> QED
      BY <2>3, <3>3, <3>4, <3>5, <3>6, <3>7, Zenon DEF CacheInv
  <2>13. CASE ~cached(b) /\ req.nocache /\ UNCHANGED <<icb, ic_lru, data>>
    <3>1. req.i >= req.good
      BY <1>1, <1>2, <2>13 DEF CacheInv, GoodStay, b, k
    <3>2. TypeOK' /\ Unique' /\ Coherent'
      BY <1>1, <2>1, <2>4, <2>13, Zenon DEF CacheInv, TypeOK, Unique, Coherent, up_to_date
    <3>3. Collected'
      BY <1>1, <2>1, <2>4, <2>6, <2>13, <3>1, Zenon DEF CacheInv, Collected, b, up_to_date
    <3>4. GoodStay'
      BY <1>2, <2>1, <3>1 DEF GoodStay
    <3> QED
      BY <2>3, <3>2, <3>3, <3>4, Zenon DEF CacheInv
  <2> QED
    BY <2>10, <2>11, <2>12, <2>13, <2>14, Zenon
<1> QED
  BY <1>3, <1>4, Zenon DEF io_cache_read_blocks
-----------------------------------------------------------------------------
(* The blocks that a write completes lie within the device and its buffer. *)
LEMMA WriteRange ==
  ASSUME NEW b \in Block, NEW n \in 1..N-b, NEW c \in 0..n
  PROVE  /\ \A k \in b..b+c-1 : k - b \in 0..n-1 /\ k \in Block
         /\ \A k \in 0..c-1 : b + k \in Block /\ b + k \in b..b+c-1 /\ (b + k) - b = k
BY CacheAssumption DEF Block

LEMMA WrittenTyped ==
  ASSUME NEW old, NEW b, NEW d, NEW c, NEW V,
         \A k \in Block : written(old, b, d, c)[k] \in V
  PROVE  written(old, b, d, c) \in [Block -> V]
BY DEF written

(* What a write of io_write_block() does to the disk and to its history.   *)
DiskWritten(b, n, d, c) ==
  /\ \/ disk' = written(disk, b, d, c)
     \/ /\ c < n /\ d[c] # disk[b + c]
        /\ disk' = [written(disk, b, d, c) EXCEPT ![b + c] = torn]
  /\ whole' = written(whole, b, d, c)

(* The completed blocks are those of the buffer; the next may be torn. *)
LEMMA DiskOfWrite ==
  ASSUME TypeOK, NEW b \in Block, NEW n \in 1..N-b, NEW c \in 0..n,
         NEW d \in [0..n-1 -> Values], DiskWritten(b, n, d, c)
  PROVE  /\ disk' \in [Block -> Values \cup {torn}] /\ whole' \in [Block -> Values]
         /\ \A k \in 0..c-1 : b + k \in Block /\ disk'[b + k] = d[k] /\ whole'[b + k] = d[k]
         /\ \A k \in Block : k \notin b..b+c-1 =>
              whole'[k] = whole[k] /\ disk'[k] \in {disk[k], torn}
         /\ \A k \in Block : k \notin b..b+n-1 => disk'[k] = disk[k]
         /\ \A k \in b..b+c-1 : disk'[k] = whole'[k] /\ disk'[k] # torn
<1> DEFINE V == Values \cup {torn}
           w == written(disk, b, d, c)
<1>1. /\ b \in Nat /\ N \in Nat /\ n \in Nat /\ c \in Nat /\ c <= n /\ b + n <= N
      /\ \A k \in 0..c-1 : b + k # b + c
      /\ \A k \in b..b+c-1 : k # b + c /\ k \in b..b+n-1 /\ k \in Block
      /\ c < n => b + c \in b..b+n-1
  BY CacheAssumption DEF Block
<1>2. /\ \A k \in Block : k \notin b..b+c-1 => w[k] = disk[k]
      /\ \A k \in 0..c-1 : b + k \in Block /\ w[b + k] = d[k]
      /\ \A k \in b..b+c-1 : k - b \in 0..n-1 /\ w[k] = d[k - b]
  <2>1. /\ \A k \in b..b+c-1 : k - b \in 0..n-1 /\ k \in Block
        /\ \A k \in 0..c-1 : b + k \in Block /\ b + k \in b..b+c-1 /\ (b + k) - b = k
    BY WriteRange
  <2>2. \A k \in b..b+c-1 : w[k] = d[k - b]
    BY <2>1, Zenon DEF written
  <2>3. \A k \in Block : k \notin b..b+c-1 => w[k] = disk[k]
    BY Zenon DEF written
  <2> HIDE DEF w
  <2>4. \A k \in 0..c-1 : w[b + k] = d[k]
    BY <2>1, <2>2
  <2> QED
    BY <2>1, <2>2, <2>3, <2>4, Zenon
<1>3. /\ \A k \in Block : k \notin b..b+c-1 => whole'[k] = whole[k]
      /\ \A k \in 0..c-1 : b + k \in Block /\ whole'[b + k] = d[k]
      /\ \A k \in b..b+c-1 : k - b \in 0..n-1 /\ whole'[k] = d[k - b]
  <2> DEFINE u == written(whole, b, d, c)
  <2>1. /\ \A k \in b..b+c-1 : k - b \in 0..n-1 /\ k \in Block
        /\ \A k \in 0..c-1 : b + k \in Block /\ b + k \in b..b+c-1 /\ (b + k) - b = k
    BY WriteRange
  <2>3. \A k \in b..b+c-1 : u[k] = d[k - b]
    BY <2>1, Zenon DEF written
  <2>4. \A k \in Block : k \notin b..b+c-1 => u[k] = whole[k]
    BY Zenon DEF written
  <2>2. whole' = u
    BY Zenon DEF DiskWritten
  <2> HIDE DEF u
  <2>5. \A k \in 0..c-1 : u[b + k] = d[k]
    BY <2>1, <2>3
  <2> QED
    BY <2>1, <2>2, <2>3, <2>4, <2>5, Zenon
<1>4. /\ \A k \in b..b+c-1 : w[k] = whole'[k] /\ w[k] # torn
      /\ w \in [Block -> V] /\ whole' \in [Block -> Values]
  <2>1. \A k \in 0..n-1 : d[k] \in Values
    BY Zenon
  <2>2. \A k \in b..b+c-1 : w[k] = whole'[k] /\ w[k] # torn /\ w[k] \in Values
    BY <1>2, <1>3, <2>1, CacheAssumption
  <2>3. \A k \in Block : w[k] \in V /\ whole'[k] \in Values
    BY <1>2, <1>3, <2>2 DEF TypeOK
  <2>4. w \in [Block -> V]
    BY <2>3, WrittenTyped
  <2>5. whole' \in [Block -> Values]
    BY <2>3, WrittenTyped DEF DiskWritten
  <2> QED
    BY <2>2, <2>4, <2>5, Zenon
<1> HIDE DEF w
<1>5. CASE disk' = w
  BY <1>1, <1>2, <1>3, <1>4, <1>5, Zenon
<1>6. CASE c < n /\ disk' = [w EXCEPT ![b + c] = torn]
  <2>1. disk' \in [Block -> V] /\ \A k \in Block : disk'[k] = IF k = b + c THEN torn ELSE w[k]
    BY <1>4, <1>6, Zenon
  <2>2. \A k \in 0..c-1 : b + k \in Block /\ disk'[b + k] = d[k] /\ whole'[b + k] = d[k]
    BY <1>1, <1>2, <1>3, <2>1, Zenon
  <2>3. \A k \in Block : k \notin b..b+c-1 =>
          whole'[k] = whole[k] /\ disk'[k] \in {disk[k], torn}
    BY <1>2, <1>3, <2>1, Zenon
  <2>4. \A k \in Block : k \notin b..b+n-1 => disk'[k] = disk[k]
    BY <1>1, <1>2, <1>6, <2>1, Zenon
  <2>5. \A k \in b..b+c-1 : disk'[k] = whole'[k] /\ disk'[k] # torn
    BY <1>1, <1>4, <2>1, Zenon
  <2> QED
    BY <1>4, <2>1, <2>2, <2>3, <2>4, <2>5, Zenon
<1> QED
  BY <1>5, <1>6 DEF w, DiskWritten

LEMMA UpdateRequest ==
  ASSUME NEW b \in Block, NEW n \in 1..N, NEW c \in 0..N, NEW nocache \in BOOLEAN,
         req' = [Idle EXCEPT !.pc = "update", !.blkno = b, !.count = n,
                             !.todo = c, !.nocache = nocache]
  PROVE  /\ req' \in Requests /\ req'.pc = "update" /\ req'.blkno = b /\ req'.count = n
         /\ req'.todo = c /\ req'.pos = 0 /\ req'.i = 0 /\ req'.good = 0
<1> DEFINE q == [Idle EXCEPT !.pc = "update", !.blkno = b, !.count = n]
<1>1. /\ q \in Requests /\ q.pc = "update" /\ q.blkno = b /\ q.count = n
      /\ q.pos = 0 /\ q.i = 0 /\ q.good = 0
  BY NoRequest, Zenon DEF Requests
<1>2. req' = [q EXCEPT !.todo = c, !.nocache = nocache]
  BY NoRequest, Zenon DEF Requests
<1> HIDE DEF q
<1> QED
  BY <1>1, <1>2, ZenonT(40) DEF Requests

(* The parts of a write: so many blocks completed, and then the cache. *)
CacheToUpdate(b, n, d, c, nocache) ==
  /\ io_cache
  /\ req' = [Idle EXCEPT !.pc = "update", !.blkno = b, !.count = n,
                         !.todo = c, !.nocache = nocache]
  /\ data' = [k \in Block |-> IF k < c THEN d[k] ELSE unread]

LEMMA WriteParts ==
  ASSUME NEW b, NEW n, NEW nocache, NEW d, io_write_block(b, n, d, nocache)
  PROVE  \E c \in 0..n :
           /\ DiskWritten(b, n, d, c)
           /\ CacheToUpdate(b, n, d, c, nocache) \/ (~io_cache /\ over)
BY DEF io_write_block, DiskWritten, CacheToUpdate

LEMMA WriteBegins ==
  ASSUME CacheInv, WholeIsDisk, NEW b \in Block, NEW n \in 1..N-b, NEW nocache \in BOOLEAN,
         NEW d \in [0..n-1 -> Values], io_write_block(b, n, d, nocache)
  PROVE  CacheInv'
<1>1. PICK c \in 0..n :
        /\ DiskWritten(b, n, d, c)
        /\ CacheToUpdate(b, n, d, c, nocache) \/ (~io_cache /\ over)
  BY WriteParts, Zenon
<1>2. req.pc = "idle" /\ UNCHANGED <<io_cache, io_nocache, icb, ic_lru>>
  BY Zenon DEF io_write_block
<1>3. /\ b \in Nat /\ N \in Nat /\ n \in Nat /\ c \in Nat /\ c <= n /\ b + n <= N
      /\ n \in 1..N /\ c \in 0..N
  BY CacheAssumption DEF Block
<1>4. /\ disk' \in [Block -> Values \cup {torn}] /\ whole' \in [Block -> Values]
      /\ \A k \in 0..c-1 : b + k \in Block /\ disk'[b + k] = d[k] /\ whole'[b + k] = d[k]
      /\ \A k \in Block : k \notin b..b+c-1 =>
           whole'[k] = whole[k] /\ disk'[k] \in {disk[k], torn}
  BY <1>1, DiskOfWrite, Zenon DEF CacheInv
<1>5. CASE CacheToUpdate(b, n, d, c, nocache)
  <2>1. /\ req' \in Requests /\ req'.pc = "update" /\ req'.blkno = b /\ req'.count = n
        /\ req'.todo = c /\ req'.pos = 0 /\ req'.i = 0 /\ req'.good = 0
    BY <1>3, <1>5, UpdateRequest, Zenon DEF CacheToUpdate
  <2>2. data' \in [Block -> Contents] /\ \A k \in 0..c-1 : k \in Block /\ data'[k] = d[k]
    <3>1. \A k \in Block : k < c => k \in 0..n-1
      BY <1>3 DEF Block
    <3>2. data' \in [Block -> Contents]
      BY <1>5, <3>1, Zenon DEF CacheToUpdate, Contents
    <3>3. \A k \in 0..c-1 : k \in Block /\ k < c
      BY <1>3 DEF Block
    <3> QED
      BY <1>5, <3>2, <3>3, Zenon DEF CacheToUpdate
  <2>3. TypeOK' /\ InBounds'
    BY <1>2, <1>3, <1>4, <1>5, <2>1, <2>2 DEF CacheToUpdate, CacheInv, TypeOK, InBounds
  <2>4. Unique' /\ GoodStay'
    BY <1>2, <2>1, Zenon DEF CacheInv, Unique, GoodStay
  <2>5. Coherent'
    <3>1. Pending = {} /\ Pending' = b..b+c-1
      BY <1>2, <1>3, <2>1 DEF Pending
    <3>2. \A s \in Buffers : icb[s].blkno # UINT64_MAX => icb[s].blkno \in Block
      BY Zenon DEF CacheInv, TypeOK
    <3>3. ASSUME NEW s \in Buffers, icb[s].blkno # UINT64_MAX, icb[s].blkno \notin b..b+c-1
          PROVE  up_to_date(icb[s].buf, icb[s].blkno)'
      <4>1. up_to_date(icb[s].buf, icb[s].blkno) /\ icb[s].blkno \in Block
        BY <1>5, <3>1, <3>2, <3>3, Zenon DEF CacheToUpdate, CacheInv, Coherent
      <4> QED
        BY <1>2, <1>4, <3>3, <4>1, Zenon DEF up_to_date, WholeIsDisk
    <3> QED
      BY <1>2, <3>1, <3>3, Zenon DEF Coherent
  <2>6. Collected'
    BY <1>4, <2>1, <2>2, Zenon DEF Collected, Filled, up_to_date
  <2> QED
    BY <2>3, <2>4, <2>5, <2>6, Zenon DEF CacheInv
<1>6. CASE ~io_cache /\ over
  <2>1. req' = Idle /\ data' = Garbage
    BY <1>6, Zenon DEF over
  <2>2. TypeOK' /\ InBounds'
    BY <1>2, <1>4, <2>1, NoRequest, CacheAssumption DEF CacheInv, TypeOK, InBounds
  <2>3. Unique' /\ Coherent' /\ GoodStay'
    BY <1>2, <1>6, <2>1, NoRequest, Zenon DEF CacheInv, Unique, Coherent, GoodStay, up_to_date
  <2>4. Collected'
    BY <2>1, NoRequest, Zenon DEF Collected, Filled, up_to_date
  <2> QED
    BY <2>2, <2>3, <2>4, Zenon DEF CacheInv
<1> QED
  BY <1>1, <1>5, <1>6, Zenon

LEMMA UpdateStep == ASSUME CacheInv, io_cache_write_blocks PROVE CacheInv'
<1> DEFINE b == req.blkno + req.i
           s == IF cached(b) THEN io_cache_lookup(b) ELSE stolen
<1>1. /\ req \in Requests /\ req.pc = "update" /\ io_cache
      /\ Pending = b .. req.blkno + req.todo - 1 /\ Filled = 0 .. req.todo - 1
      /\ UNCHANGED <<disk, whole, io_cache, io_nocache>>
  BY Zenon DEF io_cache_write_blocks, Pending, Filled, CacheInv, TypeOK, InBounds
<1>2. /\ req.blkno \in Nat /\ req.pos = 0 /\ req.i \in Nat /\ req.todo \in Nat
      /\ req.good \in Nat /\ req.count \in Nat /\ N \in Nat /\ req.i <= req.todo
      /\ req.blkno + req.count <= N /\ req.pos + req.todo <= req.count
      /\ req.good <= req.todo
  BY <1>1, CacheAssumption DEF CacheInv, InBounds, Requests, Block
<1>3. CASE req.i = req.todo /\ over /\ UNCHANGED <<icb, ic_lru>>
  <2>1. Pending = {}
    BY <1>1, <1>2, <1>3
  <2> QED
    BY <1>1, <1>3, <2>1, OverKeeps, Zenon
<1>4. CASE req.i < req.todo /\ req' = [req EXCEPT !.i = @ + 1] /\ UNCHANGED data
  <2>1. /\ req' \in Requests /\ req'.pc = req.pc /\ req'.blkno = req.blkno
        /\ req'.count = req.count /\ req'.pos = req.pos /\ req'.todo = req.todo
        /\ req'.good = req.good /\ req'.i = req.i + 1
    BY <1>1, <1>4, NextOfHunk, Zenon
  <2>2. b \in Block /\ b # UINT64_MAX /\ req.i \in Block /\ req.i \in Filled
    <3>1. b \in Block /\ b # UINT64_MAX /\ req.i \in Block /\ req.i \in 0 .. req.todo - 1
      BY <1>2, <1>4 DEF Block, UINT64_MAX
    <3> QED
      BY <1>1, <3>1, Zenon
  <2>3. InBounds' /\ GoodStay'
    BY <1>1, <1>2, <1>4, <2>1 DEF CacheInv, InBounds, GoodStay
  <2>4. Filled' = Filled /\ Pending \subseteq Pending' \cup {b}
    BY <1>1, <1>2, <1>4, <2>1 DEF Filled, Pending
  <2>5. Collected'
    BY <1>1, <1>4, <2>1, <2>4, Zenon DEF CacheInv, Collected, up_to_date
  <2>6. up_to_date(data[req.i], b) /\ data[req.i] \in Contents
    BY <2>2, Zenon DEF CacheInv, Collected, TypeOK
  <2>7. s \in Buffers /\ \A t \in Buffers : icb[t].blkno = b => t = s
    <3>1. CASE cached(b)
      BY <2>2, <3>1, LookupFinds DEF CacheInv, Unique
    <3>2. CASE ~cached(b)
      BY <3>2, StolenIsBuffer, Zenon DEF CacheInv, cached
    <3> QED
      BY <3>1, <3>2, Zenon
  <2>8. \/ passed_by(b) /\ UNCHANGED <<icb, ic_lru>>
        \/ icb' = filled(s, b, data[req.i]) /\ used(s)
    BY <1>2, <1>4 DEF io_cache_write_blocks
  <2> HIDE DEF b, s
  <2>9. CASE passed_by(b) /\ UNCHANGED <<icb, ic_lru>>
    <3>1. TypeOK' /\ Unique'
      BY <1>1, <1>4, <2>1, <2>9, Zenon DEF CacheInv, TypeOK, Unique
    <3>2. Coherent'
      BY <1>1, <2>4, <2>9, Zenon DEF CacheInv, Coherent, passed_by, cached, up_to_date
    <3> QED
      BY <2>3, <2>5, <3>1, <3>2, Zenon DEF CacheInv
  <2>10. CASE icb' = filled(s, b, data[req.i]) /\ used(s)
    <3>1. /\ icb' \in [Buffers -> [blkno : Block \cup {UINT64_MAX}, buf : Contents]]
          /\ Unique' /\ icb'[s].blkno = b /\ icb'[s].buf = data[req.i]
          /\ \A t \in Buffers \ {s} : icb'[t] = icb[t]
      BY <2>2, <2>6, <2>7, <2>10, FilledKeeps DEF CacheInv
    <3>2. TypeOK'
      BY <1>1, <1>4, <2>1, <2>7, <2>10, <3>1, ListStays, Zenon DEF CacheInv, TypeOK
    <3>3. Coherent'
      BY <1>1, <2>4, <2>6, <2>7, <3>1 DEF CacheInv, Coherent, up_to_date
    <3> QED
      BY <2>3, <2>5, <3>1, <3>2, <3>3, Zenon DEF CacheInv
  <2> QED
    BY <2>8, <2>9, <2>10, Zenon
<1> QED
  BY <1>3, <1>4, Zenon DEF io_cache_write_blocks
-----------------------------------------------------------------------------
(* A cache that is made, destroyed or by-passed between two requests. *)
LEMMA CacheSwitches ==
  ASSUME CacheInv, io_init_cache \/ io_destroy_cache \/ io_set_nocache
  PROVE  CacheInv'
<1>1. req.pc = "idle" /\ UNCHANGED <<disk, data, req>>
  BY Zenon DEF io_init_cache, io_destroy_cache, io_set_nocache
<1>2. InBounds' /\ Collected' /\ GoodStay'
  BY <1>1, Zenon DEF CacheInv, InBounds, Collected, Filled, GoodStay, up_to_date
<1>3. CASE io_init_cache
  <2>1. /\ icb' \in [Buffers -> [blkno : Block \cup {UINT64_MAX}, buf : Contents]]
        /\ \A s \in Buffers : icb'[s].blkno = UINT64_MAX
    BY <1>3, Zenon DEF io_init_cache, disconnected, CacheInv, TypeOK
  <2>2. TypeOK'
    BY <1>1, <1>3, <2>1, Zenon DEF io_init_cache, CacheInv, TypeOK
  <2>3. Unique' /\ Coherent'
    BY <2>1, Zenon DEF Unique, Coherent, up_to_date
  <2> QED
    BY <1>2, <2>2, <2>3, Zenon DEF CacheInv
<1>4. CASE io_destroy_cache
  BY <1>1, <1>2, <1>4, Zenon DEF io_destroy_cache, CacheInv, TypeOK, Unique, Coherent, up_to_date
<1>5. CASE io_set_nocache
  BY <1>1, <1>2, <1>5, Zenon DEF io_set_nocache, CacheInv, TypeOK, Unique, Coherent, Pending, up_to_date
<1> QED
  BY <1>3, <1>4, <1>5, Zenon

LEMMA LookKeeps == ASSUME CacheInv, look PROVE CacheInv'
BY OverKeeps, Zenon DEF look, Pending

LEMMA StepHolds == CacheInv /\ WholeIsDisk /\ [Next]_vars => CacheInv'
<1> SUFFICES ASSUME CacheInv, WholeIsDisk, [Next]_vars PROVE CacheInv'
  BY Zenon
<1>1. CASE UNCHANGED vars
  BY <1>1, Zenon DEF vars, CacheInv, TypeOK, InBounds, Unique, Coherent, Pending, Collected,
              Filled, GoodStay, cached, up_to_date
<1>2. ASSUME NEW b \in Block, NEW nocache \in BOOLEAN, NEW n \in 1..N-b,
             \/ io_read_block(b, n, nocache)
             \/ \E d \in [0..n-1 -> Values] : io_write_block(b, n, d, nocache)
      PROVE  CacheInv'
  BY <1>2, ReadBegins, WriteBegins, Zenon
<1>3. CASE io_cache_read_block
  BY <1>3, HunkBegins, Zenon
<1>4. CASE io_cache_read_blocks
  BY <1>4, CopyStep, Zenon
<1>5. CASE io_cache_write_blocks
  BY <1>5, UpdateStep, Zenon
<1>6. CASE io_init_cache \/ io_destroy_cache \/ io_set_nocache
  BY <1>6, CacheSwitches, Zenon
<1>7. CASE look
  BY <1>7, LookKeeps, Zenon
<1> QED
  BY <1>1, <1>2, <1>3, <1>4, <1>5, <1>6, <1>7, Zenon DEF Next

(* Only a write changes the disk or its history. *)
LEMMA DiskStays ==
  ASSUME [Next]_vars, ~UNCHANGED <<disk, whole>>
  PROVE  \E b \in Block, nocache \in BOOLEAN : \E n \in 1..N-b :
           \E d \in [0..n-1 -> Values] : io_write_block(b, n, d, nocache)
BY Zenon DEF Next, vars, io_read_block, io_cache_read_block, io_cache_read_blocks,
             io_cache_write_blocks, look, io_init_cache, io_destroy_cache, io_set_nocache

LEMMA WholeStays == CacheInv /\ WholeIsDisk /\ [Next]_vars => WholeIsDisk'
<1> SUFFICES ASSUME CacheInv, WholeIsDisk, [Next]_vars PROVE WholeIsDisk'
  BY Zenon
<1>1. CASE UNCHANGED <<disk, whole>>
  BY <1>1, Zenon DEF WholeIsDisk
<1>2. CASE ~UNCHANGED <<disk, whole>>
  <2>1. PICK b \in Block, nocache \in BOOLEAN : \E n \in 1..N-b :
               \E d \in [0..n-1 -> Values] : io_write_block(b, n, d, nocache)
    BY <1>2, DiskStays, Zenon
  <2>2. PICK n \in 1..N-b : \E d \in [0..n-1 -> Values] : io_write_block(b, n, d, nocache)
    BY <2>1, Zenon
  <2>3. PICK d \in [0..n-1 -> Values] : io_write_block(b, n, d, nocache)
    BY <2>2, Zenon
  <2>4. PICK c \in 0..n : DiskWritten(b, n, d, c)
    BY <2>3, WriteParts, Zenon
  <2>5. /\ \A k \in Block : k \notin b..b+c-1 =>
             whole'[k] = whole[k] /\ disk'[k] \in {disk[k], torn}
        /\ \A k \in b..b+c-1 : disk'[k] = whole'[k] /\ disk'[k] # torn
    BY <2>4, DiskOfWrite, Zenon DEF CacheInv
  <2> QED
    BY <2>5, Zenon DEF WholeIsDisk
<1> QED
  BY <1>1, <1>2, Zenon

LEMMA CacheInvHolds == Spec => [](CacheInv /\ WholeIsDisk)
<1>1. Init => WholeIsDisk
  BY Zenon DEF Init, WholeIsDisk
<1> QED
  BY <1>1, InitHolds, StepHolds, WholeStays, PTL DEF Spec

(* "If a block is in the cache, the same thing is on disk": for every      *)
(* device, cache and hunk, between two requests of io_read_block() and     *)
(* io_write_block().  After a write that failed inside a block, the buffer *)
(* of that block has what was there before, until it is written as a whole *)
(* or stolen.                                                              *)
THEOREM CacheIsDiskHolds == Spec => []CacheIsDisk
<1>1. CacheInv => CacheIsDisk
  BY Zenon DEF CacheInv, Coherent, Pending, CacheIsDisk, up_to_date
<1> QED
  BY <1>1, CacheInvHolds, PTL

(* io_cache_insert() never finds the block it inserts, and no good block   *)
(* is stolen before io_cache_read_blocks() has copied it.                  *)
THEOREM AssertsHoldAlways == Spec => []AssertsHold
<1>1. CacheInv => AssertsHold
  <2> SUFFICES ASSUME CacheInv PROVE AssertsHold
    BY Zenon
  <2>1. req.i \in Int /\ req.good \in Int
    BY DEF CacheInv, TypeOK, Requests
  <2>2. req.pc = "copy" /\ req.i < req.good => cached(req.blkno + req.pos + req.i)
    BY <2>1 DEF CacheInv, GoodStay
  <2> QED
    BY <2>2, Zenon DEF CacheInv, Unique, AssertsHold
<1> QED
  BY <1>1, CacheInvHolds, PTL
-----------------------------------------------------------------------------
LEMMA InitRefines == Init => Device!Init
<1> SUFFICES ASSUME Init PROVE Device!Init
  BY Zenon
<1>1. disk \in [Block -> Contents]
  BY Zenon DEF Init, Contents
<1> QED
  BY <1>1, NoRequest, Zenon DEF Init, Device!Init, Device!Block, Block, answer

(* A step that answers nothing and leaves the disk alone. *)
LEMMA SilentStep ==
  ASSUME req'.pc # "answered", UNCHANGED <<disk, whole>> PROVE Device!Next
BY Zenon DEF answer, Device!Next, Device!Silence

LEMMA OverIsSilent == over => req'.pc # "answered"
BY NoRequest, Zenon DEF over

(* What an answered read has collected is what the device allows. *)
LEMMA AnswerRefines ==
  ASSUME NEW b \in Block, NEW n \in 1..N-b, NEW d \in [Block -> Contents],
         answer' = [k \in 0..n-1 |-> d[k]], UNCHANGED <<disk, whole>>,
         \A k \in 0..n-1 : up_to_date(d[k], b + k)
  PROVE  Device!Next
<1>1. \A k \in 0..n-1 : k \in Block
  BY CacheAssumption DEF Block
<1>2. answer' \in [0..n-1 -> Contents]
  BY <1>1, Zenon
<1>3. \A k \in 0..n-1 : up_to_date(answer'[k], b + k)
  BY Zenon
<1>4. Device!Read(b, n)
  BY <1>2, <1>3, Zenon DEF Device!Read, up_to_date
<1> QED
  BY <1>4, Zenon DEF Device!Next, Device!Block, Block

LEMMA ReadRefines ==
  ASSUME CacheInv, NEW b \in Block, NEW n \in 1..N-b, NEW nocache \in BOOLEAN,
         io_read_block(b, n, nocache)
  PROVE  Device!Next
<1> DEFINE r == [Idle EXCEPT !.blkno = b, !.count = n, !.nocache = nocache]
           f == fetched(Garbage, b, 0, n)
<1>1. r \in Requests /\ r.count = n /\ UNCHANGED <<disk, whole>>
      /\ Pending = {} /\ n \in 1..N /\ n \in Nat /\ b + 0 + n <= N
  <2>1. n \in 1..N /\ n \in Nat /\ b + 0 + n <= N
    BY CacheAssumption DEF Block
  <2> QED
    BY <2>1, NoRequest, CacheAssumption, Zenon DEF Idle, Requests, io_read_block, Pending
<1>2. CASE req' = [r EXCEPT !.pc = "read"]
  <2>1. req'.pc = "read"
    BY <1>1, <1>2, Zenon DEF Requests
  <2> QED
    BY <1>1, <2>1, SilentStep, Zenon
<1>3. CASE answered(r, f)
  <2>1. f \in [Block -> Contents] /\ \A k \in 0..0+n-1 : f[k] = disk[b + k]
    BY <1>1, FetchedIsDisk, NoRequest DEF CacheInv
  <2>2. \A k \in 0..n-1 : up_to_date(f[k], b + k)
    BY <1>1, <2>1 DEF up_to_date
  <2> HIDE DEF r, f
  <2>3. answer' = [k \in 0..n-1 |-> f[k]]
    BY <1>1, <1>3, <2>1, AnsweredKeeps, Zenon DEF io_read_block
  <2> QED
    BY <1>1, <2>1, <2>2, <2>3, AnswerRefines, Zenon
<1>4. CASE over
  BY <1>1, <1>4, OverIsSilent, SilentStep, Zenon
<1> QED
  BY <1>2, <1>3, <1>4, Zenon DEF io_read_block

LEMMA HunkRefines == ASSUME CacheInv, io_cache_read_block PROVE Device!Next
<1>1. /\ req \in Requests /\ req.pc = "read" /\ Pending = {} /\ Filled = 0..req.pos-1
      /\ req.blkno + req.count <= N /\ req.pos <= req.count
      /\ UNCHANGED <<disk, whole, io_cache, io_nocache, icb, ic_lru>>
  BY Zenon DEF io_cache_read_block, Pending, Filled, CacheInv, TypeOK, InBounds
<1>2. CASE req.count - req.pos = 0 /\ answered(req, data)
  <2>1. answer' = [k \in 0..req.count-1 |-> data[k]] /\ data \in [Block -> Contents]
    BY <1>1, <1>2, AnsweredKeeps DEF CacheInv, TypeOK, Requests
  <2>2. req.pos = req.count /\ req.blkno \in Block /\ req.count \in 1..N-req.blkno
    BY <1>1, <1>2, CacheAssumption DEF Requests, Block
  <2>3. \A k \in 0..req.count-1 : up_to_date(data[k], req.blkno + k)
    BY <1>1, <2>2, Zenon DEF CacheInv, Collected
  <2> QED
    BY <1>1, <2>1, <2>2, <2>3, AnswerRefines, Zenon
<1>3. CASE over
  BY <1>1, <1>3, OverIsSilent, SilentStep, Zenon
<1>4. ASSUME NEW t, NEW g,
             req' = [req EXCEPT !.pc = "copy", !.todo = t, !.good = g, !.i = 0]
      PROVE  Device!Next
  <2>1. req'.pc = "copy"
    BY <1>1, <1>4, Zenon DEF Requests
  <2> QED
    BY <1>1, <2>1, SilentStep, Zenon
<1> QED
  BY <1>2, <1>3, <1>4, Zenon DEF io_cache_read_block

LEMMA WriteRefines ==
  ASSUME CacheInv, WholeIsDisk, NEW b \in Block, NEW n \in 1..N-b, NEW nocache \in BOOLEAN,
         NEW d \in [0..n-1 -> Values], io_write_block(b, n, d, nocache)
  PROVE  Device!Next
<1>1. PICK c \in 0..n :
        DiskWritten(b, n, d, c) /\ (CacheToUpdate(b, n, d, c, nocache) \/ over)
  BY WriteParts, Zenon
<1>2. req'.pc # "answered"
  <2>1. CASE CacheToUpdate(b, n, d, c, nocache)
    BY <2>1, NoRequest, Zenon DEF CacheToUpdate, Requests
  <2> QED
    BY <1>1, <2>1, OverIsSilent, Zenon
<1>3. /\ disk' \in [Block -> Values \cup {torn}] /\ whole' \in [Block -> Values]
      /\ \A k \in Block : k \notin b..b+c-1 =>
           whole'[k] = whole[k] /\ disk'[k] \in {disk[k], torn}
      /\ \A k \in Block : k \notin b..b+n-1 => disk'[k] = disk[k]
      /\ \A k \in b..b+c-1 : disk'[k] = whole'[k] /\ disk'[k] # torn
  BY <1>1, DiskOfWrite, Zenon DEF CacheInv
<1>4. disk' \in [Block -> Contents] /\ whole' \in [Block -> Contents]
  BY <1>3, SMT DEF Contents
<1>5. ASSUME NEW k \in Block
      PROVE  whole'[k] = IF disk'[k] \in {disk[k], torn} THEN whole[k] ELSE disk'[k]
  BY <1>3, Zenon DEF WholeIsDisk
<1>6. Device!Write(b, n)
  BY <1>2, <1>3, <1>4, <1>5, Zenon DEF Device!Write, Device!Block, Block, answer
<1> QED
  BY <1>6, Zenon DEF Device!Next, Device!Block, Block

LEMMA StepRefines ==
  CacheInv /\ WholeIsDisk /\ [Next]_vars => [Device!Next]_<<disk, whole, answer>>
<1> SUFFICES ASSUME CacheInv, WholeIsDisk, [Next]_vars
             PROVE  Device!Next \/ UNCHANGED <<disk, whole, answer>>
  BY Zenon
<1>1. CASE UNCHANGED vars
  BY <1>1, Zenon DEF vars, answer
<1>2. ASSUME NEW b \in Block, NEW nocache \in BOOLEAN, NEW n \in 1..N-b,
             \/ io_read_block(b, n, nocache)
             \/ \E d \in [0..n-1 -> Values] : io_write_block(b, n, d, nocache)
      PROVE  Device!Next
  BY <1>2, ReadRefines, WriteRefines, Zenon
<1>3. CASE io_cache_read_block
  BY <1>3, HunkRefines, Zenon
<1>4. CASE io_cache_read_blocks \/ io_cache_write_blocks \/ look
  <2>1. req \in Requests /\ UNCHANGED <<disk, whole>>
    BY <1>4, Zenon DEF io_cache_read_blocks, io_cache_write_blocks, look, CacheInv, TypeOK
  <2>2. req'.pc # "answered"
    BY <1>4, <2>1, OverIsSilent, Zenon
    DEF io_cache_read_blocks, io_cache_write_blocks, look, Requests
  <2> QED
    BY <2>1, <2>2, SilentStep, Zenon
<1>5. CASE io_init_cache \/ io_destroy_cache \/ io_set_nocache
  BY <1>5, Zenon DEF io_init_cache, io_destroy_cache, io_set_nocache, answer
<1> QED
  BY <1>1, <1>2, <1>3, <1>4, <1>5, Zenon DEF Next

(* With its cache, its stealing and its by-passing, the channel of         *)
(* unix_io.c implements a block device whose torn blocks, and no others,   *)
(* may be read as they were before.                                        *)
THEOREM CacheImplements == Spec => Implements
BY CacheInvHolds, InitRefines, StepRefines, PTL DEF Spec, Implements, Device!Spec
=============================================================================
