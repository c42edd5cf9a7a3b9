---------------------------- MODULE RegionProofs ----------------------------
(***************************************************************************)
(* Proofs about RegionRefs: for any number of processes, regions and keys, *)
(* whether or not keys collide, the mutex of a semaphore set excludes, and *)
(* whoever relies on a heartbeat region has it.                            *)
(*                                                                         *)
(* The argument: a set has one key and a key one set, so that who has the  *)
(* mutex of a region's set is alone with all regions of that key; and the  *)
(* references of a set are never fewer than its holders, the programs that *)
(* have joined and not dropped theirs and the filesystems that are         *)
(* mounted.  They may be more: a process that is killed leaves its own.    *)
(***************************************************************************)
EXTENDS RegionRefs, TLAPS

Waiting == {"lookup", "down", "wait"}
Pcs == Begin \cup Leave \cup Waiting
       \cup {"off", "up", "syscall", "using", "info", "exit"}

Processes ==
  [pc : Pcs, kind : {"mount", "tool", "umount", "info"}, r : Regions,
   call : {"begin", "leave", "info"}, sem : Ids \cup {NoSem}, hb_refs : Int,
   failed : BOOLEAN]

TypeOK ==
  /\ set \in [Ids -> [keys : SUBSET Keys, mutex : {0, 1}, refs : Nat]]
  /\ undo \in [Procs -> [Ids -> [mutex : {0, 1}, refs : {0, 1}]]]
  /\ proc \in [Procs -> Processes]
  /\ region \in [Regions -> {"none", "made", "live", "left"}]
  /\ kmounts \in [Regions -> Nat]
  /\ starts \in Nat /\ deaths \in Nat

keyOf(p) == key[proc[p].r]

(* A set has one key, and a key one set. *)
SetsOK ==
  /\ \A i \in Ids : set[i].keys = {} \/ \E k \in Keys : set[i].keys = {k}
  /\ \A i, j \in Ids : set[i].keys = set[j].keys /\ set[i].keys # {} => i = j

(* What a program is there for, by where it is in the calls. *)
CallOK(p) ==
  /\ proc[p].pc \in Begin \cup {"syscall", "using"} => proc[p].call = "begin"
  /\ proc[p].pc \in Leave => proc[p].call = "leave"
  /\ proc[p].pc \in {"down", "wait", "up"} => proc[p].call # "info"
  /\ proc[p].call = "begin" => proc[p].kind \in {"mount", "tool"}
  /\ proc[p].pc = "syscall" => proc[p].kind = "mount"
  /\ proc[p].pc \notin {"up", "exit"} => ~proc[p].failed

(* Whoever is inside has the mutex of its region's set, which the kernel   *)
(* would give back for it; who waits for one, waits for that of its region *)
(* or for one that has gone.                                               *)
MutexOK(p) ==
  /\ proc[p].pc \in {"down", "wait"} =>
       proc[p].sem \in Ids /\ set[proc[p].sem].keys \in {{}, {keyOf(p)}}
  /\ Inside(p) => /\ proc[p].sem \in Ids /\ set[proc[p].sem].keys = {keyOf(p)}
                  /\ set[proc[p].sem].mutex = 1
                  /\ undo[p][proc[p].sem].mutex = 1
  /\ \A i \in Ids : undo[p][i].mutex = 1 => Inside(p) /\ proc[p].sem = i

Alone ==
  \A p, q \in Procs : Inside(p) /\ Inside(q) /\ proc[p].sem = proc[q].sem => p = q

(* p has a reference of its region's set, and has not begun to drop it. *)
Holds(p) ==
  \/ proc[p].pc \in {"syscall", "using"}
  \/ proc[p].pc = "up" /\ proc[p].call = "begin" /\ ~proc[p].failed
  \/ proc[p].pc \in Waiting \cup {"getval", "drop"} /\ proc[p].call = "leave"

Holders(k) == {p \in Procs : Holds(p) /\ keyOf(p) = k}
Mounts(k) == {r \in Regions : kmounts[r] > 0 /\ key[r] = k}

(* The processes H and the filesystems M are no more than n: each has a    *)
(* number of its own.                                                      *)
Counted(H, M, n) ==
  \E f \in [H -> 1..n], g \in [M -> 1..n] :
    /\ \A p, q \in H : f[p] = f[q] => p = q
    /\ \A r, s \in M : g[r] = g[s] => r = s
    /\ \A p \in H, r \in M : f[p] # g[r]

(* The set of a key counts at least its holders; no holder is without one. *)
RefsOK ==
  \A k \in Keys :
    /\ \A i \in Ids : set[i].keys = {k} => Counted(Holders(k), Mounts(k), set[i].refs)
    /\ (\A i \in Ids : set[i].keys # {k}) => Holders(k) = {} /\ Mounts(k) = {}

(* What the kernel would drop for p is a reference p holds, and p's set    *)
(* does not go before p has dropped it.                                    *)
UndoOK(p) ==
  /\ \A i \in Ids : undo[p][i].refs = 1 =>
       Holds(p) /\ proc[p].kind = "tool" /\ set[i].keys = {keyOf(p)}
  /\ Holds(p) /\ proc[p].pc \in {"down", "wait"} =>
       proc[p].sem \in Ids /\ set[proc[p].sem].keys = {keyOf(p)}

(* The number that was read is no smaller than the one there is, and a     *)
(* region is removed only when there are none.                             *)
LastOK(p) ==
  /\ proc[p].pc = "drop" => set[proc[p].sem].refs <= proc[p].hb_refs
  /\ proc[p].pc \in {"rmdir", "rmid"} => set[proc[p].sem].refs = 0

(* A region is there for its holders; one that is being made has a maker. *)
There(r) == region[r] \in {"live", "left"}

RegionOK(r) ==
  /\ kmounts[r] > 0 => There(r)
  /\ region[r] = "made" => \E p \in Procs : at(p, "attrs") /\ proc[p].r = r

HolderOK(p) ==
  /\ Holds(p) \/ at(p, "get_ref") => There(proc[p].r)
  /\ at(p, "attrs") =>
       /\ region[proc[p].r] = "made" /\ kmounts[proc[p].r] = 0
       /\ \A q \in Procs : Holds(q) => proc[q].r # proc[p].r

RegionInv ==
  /\ TypeOK /\ SetsOK /\ Alone /\ RefsOK
  /\ \A p \in Procs : CallOK(p) /\ MutexOK(p) /\ UndoOK(p) /\ LastOK(p) /\ HolderOK(p)
  /\ \A r \in Regions : RegionOK(r)

-----------------------------------------------------------------------------
(* The constants, and counting. *)

LEMMA ConstFacts ==
  /\ NoSem \notin Ids /\ Off \in Processes /\ Off.pc = "off"
  /\ Off.call = "begin" /\ Off.kind = "tool" /\ ~Off.failed
  /\ NoSet \in [keys : SUBSET Keys, mutex : {0, 1}, refs : Nat]
  /\ NoUndo \in [mutex : {0, 1}, refs : {0, 1}]
<1>1. \A n \in Ids : n \in Int /\ n >= 1
  BY DEF Ids
<1>2. (CHOOSE r \in Regions : TRUE) \in Regions
  BY RegionAssumption, Zenon
<1> QED
  BY <1>1, <1>2 DEF NoSem, Off, Processes, Pcs, NoSet, NoUndo

LEMMA CountedNone == Counted({}, {}, 0)
<1> DEFINE f == [x \in {} |-> 1]
<1>1. f \in [{} -> 1..0]
  BY Zenon
<1> QED
  BY <1>1, Zenon DEF Counted

LEMMA CountedFewer ==
  ASSUME NEW H, NEW M, NEW n \in Nat, Counted(H, M, n),
         NEW H1, NEW M1, H1 \subseteq H, M1 \subseteq M
  PROVE  Counted(H1, M1, n)
<1>1. PICK f \in [H -> 1..n], g \in [M -> 1..n] :
        /\ \A p, q \in H : f[p] = f[q] => p = q
        /\ \A r, s \in M : g[r] = g[s] => r = s
        /\ \A p \in H, r \in M : f[p] # g[r]
  BY Zenon DEF Counted
<1> DEFINE f1 == [p \in H1 |-> f[p]]
           g1 == [r \in M1 |-> g[r]]
<1>2. f1 \in [H1 -> 1..n] /\ g1 \in [M1 -> 1..n]
  BY Zenon
<1>3. /\ \A p, q \in H1 : f1[p] = f1[q] => p = q
      /\ \A r, s \in M1 : g1[r] = g1[s] => r = s
      /\ \A p \in H1, r \in M1 : f1[p] # g1[r]
  BY <1>1, Zenon
<1> HIDE DEF f1, g1
<1> QED
  BY <1>2, <1>3 DEF Counted

LEMMA CountedTurned ==
  ASSUME NEW H, NEW M, NEW n \in Nat, Counted(H, M, n)
  PROVE  Counted(M, H, n)
BY DEF Counted

LEMMA CountedSome ==
  ASSUME NEW H, NEW M, NEW n \in Nat, Counted(H, M, n), NEW p, p \in H \/ p \in M
  PROVE  n >= 1
BY DEF Counted

LEMMA CountedMore ==
  ASSUME NEW H, NEW M, NEW n \in Nat, Counted(H, M, n), NEW x, NEW H1, H1 \subseteq H \cup {x}
  PROVE  Counted(H1, M, n + 1)
<1>1. PICK f \in [H -> 1..n], g \in [M -> 1..n] :
        /\ \A p, q \in H : f[p] = f[q] => p = q
        /\ \A r, s \in M : g[r] = g[s] => r = s
        /\ \A p \in H, r \in M : f[p] # g[r]
  BY Zenon DEF Counted
<1> DEFINE f1 == [p \in H1 |-> IF p \in H THEN f[p] ELSE n + 1]
<1>2. f1 \in [H1 -> 1..(n + 1)] /\ g \in [M -> 1..(n + 1)]
  OBVIOUS
<1>3. \A p \in H1 : IF p \in H THEN f1[p] = f[p] /\ f1[p] \in 1..n ELSE p = x /\ f1[p] = n + 1
  BY Zenon
<1> HIDE DEF f1
<1>4. /\ \A p, q \in H1 : f1[p] = f1[q] => p = q
      /\ \A p \in H1, r \in M : f1[p] # g[r]
  BY <1>1, <1>3
<1> QED
  BY <1>1, <1>2, <1>4 DEF Counted

LEMMA CountedLess ==
  ASSUME NEW H, NEW M, NEW n \in Nat, Counted(H, M, n), NEW x \in H, NEW H1, H1 \subseteq H, x \notin H1
  PROVE  n - 1 \in Nat /\ Counted(H1, M, n - 1)
<1>1. PICK f \in [H -> 1..n], g \in [M -> 1..n] :
        /\ \A p, q \in H : f[p] = f[q] => p = q
        /\ \A r, s \in M : g[r] = g[s] => r = s
        /\ \A p \in H, r \in M : f[p] # g[r]
  BY Zenon DEF Counted
<1>2. PICK v \in 1..n : v = f[x]
  BY Zenon
<1> DEFINE f1 == [p \in H1 |-> IF f[p] = n THEN v ELSE f[p]]
           g1 == [r \in M |-> IF g[r] = n THEN v ELSE g[r]]
<1>3. \A p \in H1 : f[p] \in 1..n /\ f[p] # v
  BY <1>1, <1>2, Zenon
<1>4. \A r \in M : g[r] \in 1..n /\ g[r] # v
  BY <1>1, <1>2, Zenon
<1>5. f1 \in [H1 -> 1..(n - 1)]
  BY <1>3
<1>6. g1 \in [M -> 1..(n - 1)]
  BY <1>4
<1>7. \A p, q \in H1 : f1[p] = f1[q] => p = q
  BY <1>1, <1>3, Zenon
<1>8. \A r, s \in M : g1[r] = g1[s] => r = s
  BY <1>1, <1>4, Zenon
<1>9. \A p \in H1, r \in M : f1[p] # g1[r]
  BY <1>1, <1>3, <1>4, Zenon
<1> HIDE DEF f1, g1
<1>10. n - 1 \in Nat
  BY <1>2
<1> QED
  BY <1>5, <1>6, <1>7, <1>8, <1>9, <1>10 DEF Counted
(* Who holds a reference is counted. *)
LEMMA HolderCounts ==
  ASSUME RegionInv, NEW p \in Procs, Holds(p)
  PROVE  /\ p \in Holders(keyOf(p)) /\ keyOf(p) \in Keys
         /\ \E i \in Ids : set[i].keys = {keyOf(p)}
         /\ \A i \in Ids : set[i].keys = {keyOf(p)} => set[i].refs >= 1
<1> DEFINE k == keyOf(p)
<1>1. p \in Holders(k) /\ k \in Keys
  BY RegionAssumption, Zenon DEF Holders, RegionInv, TypeOK, Processes, keyOf
<1> HIDE DEF k
<1>2. ASSUME NEW i \in Ids, set[i].keys = {k} PROVE set[i].refs >= 1
  <2>1. Counted(Holders(k), Mounts(k), set[i].refs) /\ set[i].refs \in Nat
    BY <1>1, <1>2, Zenon DEF RegionInv, RefsOK, TypeOK
  <2> QED
    BY <1>1, <2>1, CountedSome, Zenon
<1>4. \E i \in Ids : set[i].keys = {k}
  BY <1>1, Zenon DEF RegionInv, RefsOK
<1> QED
  BY <1>1, <1>2, <1>4, Zenon DEF k

LEMMA MountCounts ==
  ASSUME RegionInv, NEW r \in Regions, kmounts[r] > 0
  PROVE  \A i \in Ids : set[i].keys = {key[r]} => set[i].refs >= 1
<1> DEFINE k == key[r]
<1>1. r \in Mounts(k) /\ k \in Keys
  BY RegionAssumption, Zenon DEF Mounts
<1> HIDE DEF k
<1>2. ASSUME NEW i \in Ids, set[i].keys = {k} PROVE set[i].refs >= 1
  <2>1. Counted(Holders(k), Mounts(k), set[i].refs) /\ set[i].refs \in Nat
    BY <1>1, <1>2, Zenon DEF RegionInv, RefsOK, TypeOK
  <2> QED
    BY <1>1, <2>1, CountedSome, Zenon
<1> QED
  BY <1>2, Zenon DEF k

-----------------------------------------------------------------------------
(* What a step of one process leaves alone. *)

Only(p) ==
  /\ proc' \in [Procs -> Processes]
  /\ \A q \in Procs : q # p => proc'[q] = proc[q]

LEMMA HoldersKept ==
  ASSUME NEW p \in Procs, Only(p),
         Holds(p)' => Holds(p) /\ proc'[p].r = proc[p].r
  PROVE  \A k : Holders(k)' \subseteq Holders(k)
BY DEF Only, Holders, Holds, keyOf

LEMMA MountsKept ==
  ASSUME kmounts' = kmounts
  PROVE  \A k : Mounts(k)' = Mounts(k)
BY Zenon DEF Mounts

LEMMA CountKept ==
  ASSUME RegionInv, NEW k \in Keys, NEW i \in Ids, set[i].keys = {k},
         Holders(k)' \subseteq Holders(k), Mounts(k)' \subseteq Mounts(k)
  PROVE  Counted(Holders(k)', Mounts(k)', set[i].refs)
<1>1. Counted(Holders(k), Mounts(k), set[i].refs) /\ set[i].refs \in Nat
  BY Zenon DEF RegionInv, RefsOK, TypeOK
<1> QED
  BY <1>1, CountedFewer, Zenon

(* No new holder, no fewer references. *)
LEMMA RefsKept ==
  ASSUME RegionInv,
         \A k \in Keys : Holders(k)' \subseteq Holders(k) /\ Mounts(k)' \subseteq Mounts(k),
         \A i \in Ids : set'[i].keys = set[i].keys /\ set'[i].refs = set[i].refs
  PROVE  RefsOK'
<1> SUFFICES ASSUME NEW k \in Keys
             PROVE  /\ \A i \in Ids : set'[i].keys = {k} => Counted(Holders(k)', Mounts(k)', set'[i].refs)
                    /\ (\A i \in Ids : set'[i].keys # {k}) => Holders(k)' = {} /\ Mounts(k)' = {}
  BY Zenon DEF RefsOK
<1>2. ASSUME NEW i \in Ids, set'[i].keys = {k} PROVE Counted(Holders(k)', Mounts(k)', set'[i].refs)
  BY <1>2, CountKept, Zenon
<1>3. ASSUME \A i \in Ids : set'[i].keys # {k} PROVE Holders(k)' = {} /\ Mounts(k)' = {}
  <2>1. Holders(k) = {} /\ Mounts(k) = {}
    BY <1>3, Zenon DEF RegionInv, RefsOK
  <2> QED
    BY <2>1, Zenon
<1> QED
  BY <1>2, <1>3, Zenon

LEMMA AloneKept ==
  ASSUME RegionInv, NEW p \in Procs, Only(p),
         Inside(p)' => \A q \in Procs : q # p /\ Inside(q) => proc[q].sem # proc'[p].sem
  PROVE  Alone'
BY DEF Only, Alone, Inside, RegionInv

(* What another process relies on, and a step of p has to leave. *)
Relied(q) ==
  /\ Inside(q) =>
       /\ set'[proc[q].sem].keys = set[proc[q].sem].keys
       /\ set'[proc[q].sem].mutex = set[proc[q].sem].mutex
       /\ set'[proc[q].sem].refs <= set[proc[q].sem].refs
       /\ undo'[q][proc[q].sem].mutex = undo[q][proc[q].sem].mutex
  /\ proc[q].pc \in {"down", "wait"} =>
       set'[proc[q].sem].keys \in {{}, set[proc[q].sem].keys}
  /\ \A i \in Ids : /\ undo'[q][i].mutex = 1 => undo[q][i].mutex = 1
                    /\ undo'[q][i].refs = 1 => undo[q][i].refs = 1
  /\ Holds(q) =>
       \A i \in Ids : set[i].keys = {keyOf(q)} => set'[i].keys = {keyOf(q)}
  /\ Holds(q) \/ at(q, "get_ref") => There(proc[q].r)'

LEMMA OthersKeep ==
  ASSUME RegionInv, TypeOK', NEW p \in Procs, Only(p), NEW q \in Procs, q # p, Relied(q),
         at(q, "attrs") => /\ region'[proc[q].r] = region[proc[q].r]
                           /\ kmounts'[proc[q].r] = kmounts[proc[q].r]
                           /\ Holds(p)' => proc'[p].r # proc[q].r
  PROVE  CallOK(q)' /\ MutexOK(q)' /\ UndoOK(q)' /\ LastOK(q)' /\ HolderOK(q)'
<1>1. /\ proc'[q] = proc[q] /\ (Inside(q)' <=> Inside(q)) /\ (Holds(q)' <=> Holds(q))
      /\ keyOf(q)' = keyOf(q)
  BY Zenon DEF Only, Inside, Holds, keyOf
<1>2. CallOK(q) /\ MutexOK(q) /\ UndoOK(q) /\ LastOK(q) /\ HolderOK(q)
  BY Zenon DEF RegionInv
<1>3. CallOK(q)'
  BY <1>1, <1>2, Zenon DEF CallOK
<1>4. MutexOK(q)'
  BY <1>1, <1>2 DEF MutexOK, Relied
<1>5. UndoOK(q)'
  BY <1>1, <1>2, Zenon DEF UndoOK, Relied
<1>6. LastOK(q)'
  <2>1. proc[q].pc \in {"drop", "rmdir", "rmid"} => Inside(q) /\ proc[q].sem \in Ids
    BY <1>2, Zenon DEF Inside, Leave, MutexOK
  <2>2. /\ proc[q].hb_refs \in Int
        /\ \A i \in Ids : set[i].refs \in Nat /\ set'[i].refs \in Nat
    BY Zenon DEF RegionInv, TypeOK, Processes
  <2> QED
    BY <1>1, <1>2, <2>1, <2>2 DEF LastOK, Relied
<1>7. HolderOK(q)'
  <2>1. Holds(q)' \/ at(q, "get_ref")' => There(proc[q].r)'
    BY <1>1, Zenon DEF Relied, at
  <2>2. ASSUME at(q, "attrs")', NEW x \in Procs, Holds(x)' PROVE proc'[x].r # proc'[q].r
    <3>1. at(q, "attrs")
      BY <1>1, <2>2, Zenon DEF at
    <3>2. CASE x = p
      BY <1>1, <3>1, <3>2, <2>2, Zenon
    <3>3. CASE x # p
      <4>1. proc'[x] = proc[x] /\ Holds(x)
        BY <2>2, <3>3, Zenon DEF Only, Holds
      <4> QED
        BY <1>1, <1>2, <3>1, <4>1, Zenon DEF HolderOK
    <3> QED
      BY <3>2, <3>3, Zenon
  <2>3. at(q, "attrs")' => region'[proc'[q].r] = "made" /\ kmounts'[proc'[q].r] = 0
    BY <1>1, <1>2, Zenon DEF HolderOK, at
  <2> QED
    BY <1>1, <2>1, <2>2, <2>3, Zenon DEF HolderOK
<1> QED
  BY <1>3, <1>4, <1>5, <1>6, <1>7, Zenon

Leaves(p, q) ==
  at(q, "attrs") => /\ region'[proc[q].r] = region[proc[q].r]
                    /\ kmounts'[proc[q].r] = kmounts[proc[q].r]
                    /\ Holds(p)' => proc'[p].r # proc[q].r

OwnOK(p) == CallOK(p) /\ MutexOK(p) /\ UndoOK(p) /\ LastOK(p) /\ HolderOK(p)

(* A step of p, from what it does to p, to the others and to the regions. *)
LEMMA Together ==
  ASSUME RegionInv, TypeOK', SetsOK', RefsOK', NEW p \in Procs, Only(p),
         Inside(p)' => \A q \in Procs : q # p /\ Inside(q) => proc[q].sem # proc'[p].sem,
         \A q \in Procs : q # p => Relied(q) /\ Leaves(p, q),
         OwnOK(p)', \A r \in Regions : RegionOK(r)'
  PROVE  RegionInv'
<1>1. Alone'
  BY AloneKept, Zenon
<1>2. ASSUME NEW q \in Procs
      PROVE  CallOK(q)' /\ MutexOK(q)' /\ UndoOK(q)' /\ LastOK(q)' /\ HolderOK(q)'
  <2>1. CASE q = p
    BY <2>1, Zenon DEF OwnOK
  <2>2. CASE q # p
    BY <2>2, OthersKeep, Zenon DEF Leaves
  <2> QED
    BY <2>1, <2>2, Zenon
<1> QED
  BY <1>1, <1>2, Zenon DEF RegionInv

(* A process that only goes on: nobody is let in, no reference changes.    *)
LEMMA Moves ==
  ASSUME RegionInv, NEW p \in Procs, Only(p), starts' \in Nat, deaths' \in Nat,
         UNCHANGED <<set, undo, region, kmounts>>,
         CallOK(p)', LastOK(p)',
         Inside(p)' <=> Inside(p),
         Inside(p) => proc'[p].sem = proc[p].sem /\ proc'[p].r = proc[p].r,
         Holds(p)' <=> Holds(p),
         Holds(p) => proc'[p].kind = proc[p].kind /\ proc'[p].r = proc[p].r,
         proc'[p].pc \in {"down", "wait"} =>
           /\ proc'[p].sem \in Ids
           /\ set[proc'[p].sem].keys \in {{}, {key[proc'[p].r]}}
           /\ Holds(p)' => set[proc'[p].sem].keys = {key[proc'[p].r]},
         ~at(p, "attrs"), ~at(p, "attrs")',
         at(p, "get_ref")' => There(proc'[p].r)
  PROVE  RegionInv'
<1>1. TypeOK' /\ SetsOK' /\ CallOK(p) /\ MutexOK(p) /\ UndoOK(p) /\ HolderOK(p)
  BY Zenon DEF RegionInv, TypeOK, SetsOK, Only
<1>2. RefsOK'
  <2>1. \A k \in Keys : Holders(k)' \subseteq Holders(k) /\ Mounts(k)' \subseteq Mounts(k)
    BY HoldersKept, MountsKept, Zenon
  <2> QED
    BY <2>1, RefsKept, Zenon
<1>3. Inside(p)' => \A q \in Procs : q # p /\ Inside(q) => proc[q].sem # proc'[p].sem
  BY Zenon DEF RegionInv, Alone
<1>4. ASSUME NEW q \in Procs, q # p PROVE Relied(q) /\ Leaves(p, q)
  <2>1. HolderOK(q) /\ \A i \in Ids : set[i].refs \in Nat
    BY Zenon DEF RegionInv, TypeOK
  <2>2. Inside(q) => proc[q].sem \in Ids
    BY Zenon DEF RegionInv, MutexOK
  <2>5. Holds(q) \/ at(q, "get_ref") => There(proc[q].r)'
    BY <1>4, <2>1, Zenon DEF HolderOK, There, Only
  <2>6. set' = set /\ undo' = undo
    BY Zenon
  <2>3. Relied(q)
    BY <2>1, <2>2, <2>5, <2>6 DEF Relied
  <2>4. Leaves(p, q)
    BY <2>1, Zenon DEF Leaves, HolderOK
  <2> QED
    BY <2>3, <2>4, Zenon
<1>5. OwnOK(p)'
  <2>1. MutexOK(p)'
    BY <1>1, Zenon DEF MutexOK, keyOf
  <2>2. UndoOK(p)'
    BY <1>1, Zenon DEF UndoOK, keyOf
  <2>3. HolderOK(p)'
    BY <1>1, Zenon DEF HolderOK, There, at
  <2> QED
    BY <2>1, <2>2, <2>3, Zenon DEF OwnOK
<1>6. ASSUME NEW r \in Regions PROVE RegionOK(r)'
  <2>1. RegionOK(r)
    BY Zenon DEF RegionInv
  <2>2. \A x \in Procs : at(x, "attrs") => x # p /\ at(x, "attrs")' /\ proc'[x].r = proc[x].r
    BY Zenon DEF Only, at
  <2> QED
    BY <2>1, <2>2, Zenon DEF RegionOK, There
<1> QED
  BY <1>1, <1>2, <1>3, <1>4, <1>5, <1>6, Together, Zenon

-----------------------------------------------------------------------------
(* The steps that change nothing but where a process is. *)

Kept(p) ==
  /\ proc'[p].kind = proc[p].kind /\ proc'[p].r = proc[p].r
  /\ proc'[p].hb_refs = proc[p].hb_refs

LEMMA GotoFields ==
  ASSUME TypeOK, NEW p \in Procs, NEW x \in Pcs, goto(p, x)
  PROVE  /\ Only(p) /\ Kept(p) /\ proc'[p].pc = x /\ proc'[p].call = proc[p].call
         /\ proc'[p].sem = proc[p].sem /\ proc'[p].failed = proc[p].failed
<1>1. proc[p] \in Processes /\ proc' = [proc EXCEPT ![p] = [proc[p] EXCEPT !.pc = x]]
  BY Zenon DEF TypeOK, goto
<1>2. [proc[p] EXCEPT !.pc = x] \in Processes
  BY <1>1, Zenon DEF Processes
<1>3. Only(p) /\ proc'[p] = [proc[p] EXCEPT !.pc = x]
  BY <1>1, <1>2, Zenon DEF Only, TypeOK
<1> QED
  BY <1>1, <1>3 DEF Kept, Processes

LEMMA FailFields ==
  ASSUME TypeOK, NEW p \in Procs, NEW x \in Pcs, fail(p, x)
  PROVE  /\ Only(p) /\ Kept(p) /\ proc'[p].pc = x /\ proc'[p].call = proc[p].call
         /\ proc'[p].sem = proc[p].sem /\ proc'[p].failed = TRUE
<1> DEFINE y == [proc[p] EXCEPT !.pc = x, !.failed = TRUE]
<1>1. proc[p] \in Processes /\ proc' = [proc EXCEPT ![p] = y]
  BY Zenon DEF TypeOK, fail
<1>2. y \in Processes
  BY <1>1, Zenon DEF Processes
<1>3. Only(p) /\ proc'[p] = y
  BY <1>1, <1>2, Zenon DEF Only, TypeOK
<1>4. /\ y.pc = x /\ y.kind = proc[p].kind /\ y.r = proc[p].r /\ y.call = proc[p].call
      /\ y.sem = proc[p].sem /\ y.hb_refs = proc[p].hb_refs /\ y.failed = TRUE
  BY <1>1, Zenon DEF Processes
<1> QED
  BY <1>3, <1>4, Zenon DEF Kept

LEMMA CallFields ==
  ASSUME TypeOK, NEW p \in Procs, NEW c \in {"begin", "leave", "info"}, call(p, c)
  PROVE  /\ Only(p) /\ Kept(p) /\ proc'[p].pc = "lookup" /\ proc'[p].call = c
         /\ proc'[p].sem = proc[p].sem /\ proc'[p].failed = proc[p].failed
<1> DEFINE y == [proc[p] EXCEPT !.pc = "lookup", !.call = c]
<1>1. proc[p] \in Processes /\ proc' = [proc EXCEPT ![p] = y] /\ "lookup" \in Pcs
  BY Zenon DEF TypeOK, call, Pcs, Waiting
<1>2. y \in Processes
  BY <1>1, Zenon DEF Processes
<1>3. Only(p) /\ proc'[p] = y
  BY <1>1, <1>2, Zenon DEF Only, TypeOK
<1>4. /\ y.pc = "lookup" /\ y.kind = proc[p].kind /\ y.r = proc[p].r /\ y.call = c
      /\ y.sem = proc[p].sem /\ y.hb_refs = proc[p].hb_refs /\ y.failed = proc[p].failed
  BY <1>1, Zenon DEF Processes
<1> QED
  BY <1>3, <1>4, Zenon DEF Kept

LEMMA StartedFields ==
  ASSUME NEW kind \in {"mount", "tool", "umount", "info"}, NEW r \in Regions
  PROVE  LET x == started(kind, r) IN
         /\ x \in Processes /\ x.pc = "lookup" /\ x.kind = kind /\ x.r = r
         /\ x.sem = NoSem /\ ~x.failed
         /\ x.call = CASE kind \in {"mount", "tool"} -> "begin"
                       [] kind = "umount" -> "leave" [] kind = "info" -> "info"
<1> DEFINE c == CASE kind \in {"mount", "tool"} -> "begin"
                  [] kind = "umount" -> "leave" [] kind = "info" -> "info"
<1>1. c \in {"begin", "leave", "info"}
  BY Zenon
<1> HIDE DEF c
<1>2. started(kind, r) = [Off EXCEPT !.pc = "lookup", !.kind = kind, !.r = r, !.call = c]
  BY Zenon DEF started, c
<1>4. started(kind, r) = [pc |-> "lookup", kind |-> kind, r |-> r, call |-> c, sem |-> NoSem,
                          hb_refs |-> 0, failed |-> FALSE]
  BY <1>2, Zenon DEF Off
<1>5. started(kind, r) \in Processes
  <2>1. 0 \in Nat /\ NoSem \in Ids \cup {NoSem} /\ "lookup" \in Pcs
    BY DEF Pcs, Waiting
  <2> QED
    BY <1>1, <1>4, <2>1 DEF Processes
<1>3. LET x == started(kind, r) IN
      /\ x \in Processes /\ x.pc = "lookup" /\ x.kind = kind /\ x.r = r
      /\ x.sem = NoSem /\ ~x.failed /\ x.call = c
  BY <1>4, <1>5
<1> QED
  BY <1>3, Zenon DEF c

LEMMA StartHolds ==
  ASSUME RegionInv, NEW p \in Procs, Start(p)
  PROVE  RegionInv'
<1>1. PICK kind \in {"mount", "tool", "info"}, r \in Regions :
        proc' = [proc EXCEPT ![p] = started(kind, r)]
  BY Zenon DEF Start
<1>2. /\ UNCHANGED <<set, undo, region, kmounts>> /\ starts' \in Nat /\ deaths' \in Nat
      /\ at(p, "off") /\ proc \in [Procs -> Processes]
  BY DEF Start, RegionInv, TypeOK
<1>3. /\ Only(p) /\ proc'[p].pc = "lookup" /\ proc'[p].kind = kind /\ ~proc'[p].failed
      /\ proc'[p].call = CASE kind \in {"mount", "tool"} -> "begin"
                           [] kind = "umount" -> "leave" [] kind = "info" -> "info"
  BY <1>1, <1>2, StartedFields DEF Only
<1>4. ~Inside(p) /\ ~Inside(p)' /\ ~Holds(p) /\ ~Holds(p)'
  BY <1>2, <1>3, Zenon DEF Inside, Holds, at, Begin, Leave, Waiting
<1>5. CallOK(p)' /\ LastOK(p)'
  BY <1>3, Zenon DEF CallOK, LastOK, Begin, Leave
<1> QED
  BY <1>2, <1>3, <1>4, <1>5, Moves, Zenon DEF at

LEMMA UsedHolds ==
  ASSUME RegionInv, NEW p \in Procs,
         at(p, "syscall") \/ at(p, "using"), call(p, "leave"),
         UNCHANGED <<set, undo, region, kmounts, starts, deaths>>
  PROVE  RegionInv'
<1>1. TypeOK /\ CallOK(p)
  BY Zenon DEF RegionInv
<1>2. /\ Only(p) /\ Kept(p) /\ proc'[p].pc = "lookup" /\ proc'[p].call = "leave"
      /\ proc'[p].failed = proc[p].failed
  BY <1>1, CallFields, Zenon
<1>3. ~Inside(p) /\ ~Inside(p)' /\ Holds(p) /\ Holds(p)' /\ Kept(p)
  BY <1>2, Zenon DEF Inside, Holds, at, Begin, Leave, Waiting
<1>4. CallOK(p)' /\ LastOK(p)'
  BY <1>1, <1>2, Zenon DEF CallOK, LastOK, Begin, Leave, at
<1>5. starts' \in Nat /\ deaths' \in Nat
  BY <1>1, Zenon DEF TypeOK
<1> QED
  BY <1>2, <1>3, <1>4, <1>5, Moves, Zenon DEF at, Kept

LEMMA InfoHolds ==
  ASSUME RegionInv, NEW p \in Procs, Info(p)
  PROVE  RegionInv'
<1>1. TypeOK /\ CallOK(p)
  BY Zenon DEF RegionInv
<1>2. /\ Only(p) /\ Kept(p) /\ proc'[p].pc = "exit" /\ proc'[p].call = proc[p].call
      /\ proc'[p].failed = proc[p].failed
  <2> DEFINE y == [proc[p] EXCEPT !.pc = "exit", !.sem = NoSem]
  <2>1. proc[p] \in Processes /\ proc' = [proc EXCEPT ![p] = y] /\ "exit" \in Pcs
    BY <1>1, Zenon DEF TypeOK, Info, Pcs
  <2>2. y \in Processes
    BY <2>1, Zenon DEF Processes
  <2>3. Only(p) /\ proc'[p] = y
    BY <1>1, <2>1, <2>2, Zenon DEF Only, TypeOK
  <2>4. /\ y.pc = "exit" /\ y.kind = proc[p].kind /\ y.r = proc[p].r
        /\ y.call = proc[p].call /\ y.hb_refs = proc[p].hb_refs
        /\ y.failed = proc[p].failed
    BY <2>1, Zenon DEF Processes
  <2> QED
    BY <2>3, <2>4, Zenon DEF Kept
<1>3. ~Inside(p) /\ ~Inside(p)' /\ ~Holds(p) /\ ~Holds(p)'
  BY <1>2, Zenon DEF Info, Inside, Holds, at, Begin, Leave, Waiting
<1>4. CallOK(p)' /\ LastOK(p)'
  BY <1>1, <1>2, Zenon DEF CallOK, LastOK, Begin, Leave, at, Kept
<1>5. /\ starts' \in Nat /\ deaths' \in Nat /\ at(p, "info")
      /\ UNCHANGED <<set, undo, region, kmounts>>
  BY <1>1, Zenon DEF TypeOK, Info
<1> QED
  BY <1>2, <1>3, <1>4, <1>5, Moves, Zenon DEF at

(* The mutex is taken by another, or its set has gone. *)
LEMMA WaitHolds ==
  ASSUME RegionInv, NEW p \in Procs, at(p, "down") \/ at(p, "wait"),
         UNCHANGED <<set, undo, region, kmounts, starts, deaths>>,
         \/ goto(p, "wait") \/ goto(p, "lookup")
         \/ ~exists(proc[p].sem) /\ fail(p, "exit")
  PROVE  RegionInv'
<1>1. TypeOK /\ CallOK(p) /\ UndoOK(p) /\ MutexOK(p)
  BY Zenon DEF RegionInv
<1>2. /\ Only(p) /\ Kept(p) /\ proc'[p].pc \in {"wait", "lookup", "exit"}
      /\ proc'[p].call = proc[p].call /\ proc'[p].sem = proc[p].sem
      /\ proc'[p].pc = "exit" => ~exists(proc[p].sem)
      /\ proc'[p].pc # "exit" => proc'[p].failed = proc[p].failed
  <2>1. {"wait", "lookup", "exit"} \subseteq Pcs
    BY Zenon DEF Pcs, Waiting
  <2> QED
    BY <1>1, <2>1, GotoFields, FailFields, Zenon
<1>3. proc'[p].pc = "exit" => ~Holds(p)
  BY <1>1, <1>2, Zenon DEF UndoOK, exists, at
<1>4. ~Inside(p) /\ ~Inside(p)' /\ (Holds(p)' <=> Holds(p))
  BY <1>2, <1>3, Zenon DEF Inside, Holds, at, Begin, Leave, Waiting
<1>5. CallOK(p)' /\ LastOK(p)'
  BY <1>1, <1>2, Zenon DEF CallOK, LastOK, Begin, Leave, at, Kept
<1>6. /\ proc'[p].sem \in Ids /\ set[proc'[p].sem].keys \in {{}, {key[proc'[p].r]}}
      /\ Holds(p)' => set[proc'[p].sem].keys = {key[proc'[p].r]}
  BY <1>1, <1>2, <1>4, Zenon DEF UndoOK, MutexOK, keyOf, at, Kept
<1>7. /\ starts' \in Nat /\ deaths' \in Nat /\ ~at(p, "attrs") /\ ~at(p, "attrs")'
      /\ ~at(p, "get_ref")'
  BY <1>1, <1>2, Zenon DEF TypeOK, at
<1> QED
  BY <1>2, <1>4, <1>5, <1>6, <1>7, Moves, Zenon DEF Kept

(* Who leaves has a reference, so there is at least one to drop. *)
LEMMA NumRefsHolds ==
  ASSUME RegionInv, NEW p \in Procs, o2cb_get_num_refs(p)
  PROVE  RegionInv'
<1> DEFINE n == set[proc[p].sem].refs
           y == [proc[p] EXCEPT !.hb_refs = n, !.pc = "drop"]
<1>1. TypeOK /\ CallOK(p) /\ MutexOK(p) /\ proc[p] \in Processes
  BY Zenon DEF RegionInv, TypeOK
<1>2. at(p, "getval") /\ Inside(p) /\ proc[p].call = "leave" /\ Holds(p)
  BY <1>1, Zenon DEF o2cb_get_num_refs, Inside, Leave, Holds, at, CallOK
<1>3. proc[p].sem \in Ids /\ set[proc[p].sem].keys = {keyOf(p)} /\ n \in Nat
  BY <1>1, <1>2, Zenon DEF MutexOK, TypeOK
<1>4. n >= 1
  BY <1>2, <1>3, HolderCounts, Zenon
<1>5. n # 0 /\ n \in Int /\ "drop" \in Pcs
  BY <1>3, <1>4 DEF Pcs, Leave
<1>6. proc' = [proc EXCEPT ![p] = y]
  BY <1>5, Zenon DEF o2cb_get_num_refs
<1>7. y \in Processes
  BY <1>1, <1>5, Zenon DEF Processes
<1>8. /\ y.pc = "drop" /\ y.kind = proc[p].kind /\ y.r = proc[p].r
      /\ y.call = proc[p].call /\ y.hb_refs = n /\ y.sem = proc[p].sem
      /\ y.failed = proc[p].failed
  BY <1>1, <1>5, Zenon DEF Processes
<1>9. Only(p) /\ proc'[p] = y
  BY <1>1, <1>6, <1>7, Zenon DEF Only, TypeOK
<1> HIDE DEF y
<1>10. /\ UNCHANGED <<set, undo, region, kmounts>> /\ starts' \in Nat /\ deaths' \in Nat
  BY <1>1, Zenon DEF o2cb_get_num_refs, TypeOK
<1>11. Inside(p)' /\ Holds(p)'
  BY <1>2, <1>8, <1>9, Zenon DEF Inside, Leave, Holds
<1>12. CallOK(p)'
  BY <1>1, <1>2, <1>8, <1>9, Zenon DEF CallOK, Begin, Leave, at
<1>13. LastOK(p)'
  BY <1>3, <1>8, <1>9, <1>10 DEF LastOK
<1> QED
  BY <1>2, <1>8, <1>9, <1>10, <1>11, <1>12, <1>13, Moves, Zenon DEF at

(* Only one process is inside for a key, by name of its region. *)
LEMMA InsideAlone ==
  ASSUME RegionInv, NEW p \in Procs, NEW q \in Procs, Inside(p), Inside(q),
         keyOf(p) = keyOf(q)
  PROVE  p = q
<1>1. MutexOK(p) /\ MutexOK(q)
  BY Zenon DEF RegionInv
<1>2. proc[p].sem \in Ids /\ proc[q].sem \in Ids
      /\ set[proc[p].sem].keys = {keyOf(p)} /\ set[proc[q].sem].keys = {keyOf(q)}
  BY <1>1, Zenon DEF MutexOK
<1>3. proc[p].sem = proc[q].sem
  BY <1>2, Zenon DEF RegionInv, SetsOK
<1> QED
  BY <1>3, Zenon DEF RegionInv, Alone

LEMMA RegionTaken ==
  ASSUME RegionInv, NEW p \in Procs, Inside(p), ~at(p, "attrs"),
         region[proc[p].r] # "none"
  PROVE  There(proc[p].r)
<1>1. /\ proc[p].r \in Regions /\ region[proc[p].r] \in {"none", "made", "live", "left"}
      /\ RegionOK(proc[p].r)
  BY Zenon DEF RegionInv, TypeOK, Processes
<1>2. ASSUME NEW q \in Procs, at(q, "attrs"), proc[q].r = proc[p].r PROVE FALSE
  <2>1. Inside(q) /\ keyOf(q) = keyOf(p)
    BY <1>2, Zenon DEF Inside, at, Begin, keyOf
  <2> QED
    BY <1>2, <2>1, InsideAlone, Zenon
<1> QED
  BY <1>1, <1>2, Zenon DEF RegionOK, There

(* A step of p that stays inside and concerns its region alone: the others *)
(* of its key are outside.                                                 *)
LEMMA RegionStep ==
  ASSUME RegionInv, NEW p \in Procs, Only(p), Inside(p), Inside(p)', Kept(p),
         proc'[p].sem = proc[p].sem,
         UNCHANGED <<set, undo, kmounts, starts, deaths>>,
         NEW s \in {"none", "made", "live", "left"}, region' = [region EXCEPT ![proc[p].r] = s],
         ~Holds(p), ~Holds(p)', CallOK(p)', LastOK(p)',
         kmounts[proc[p].r] = 0, \A q \in Procs : Holds(q) => proc[q].r # proc[p].r,
         at(p, "attrs")' <=> s = "made", at(p, "get_ref")' => s = "live"
  PROVE  RegionInv'
<1> DEFINE r == proc[p].r
<1>1. TypeOK' /\ SetsOK' /\ r \in Regions /\ MutexOK(p) /\ UndoOK(p)
  BY DEF RegionInv, TypeOK, SetsOK, Only, Processes
<1>2. region'[r] = s /\ \A x \in Regions : x # r => region'[x] = region[x]
  BY <1>1, Zenon DEF RegionInv, TypeOK
<1>3. RefsOK'
  <2>1. \A k \in Keys : Holders(k)' \subseteq Holders(k) /\ Mounts(k)' \subseteq Mounts(k)
    BY HoldersKept, MountsKept, Zenon
  <2> QED
    BY <2>1, RefsKept, Zenon
<1>4. Inside(p)' => \A q \in Procs : q # p /\ Inside(q) => proc[q].sem # proc'[p].sem
  BY Zenon DEF RegionInv, Alone
<1>5. ASSUME NEW q \in Procs, q # p PROVE Relied(q) /\ Leaves(p, q)
  <2>1. /\ HolderOK(q) /\ (\A i \in Ids : set[i].refs \in Nat) /\ proc'[q] = proc[q]
        /\ proc[q].r \in Regions
    BY <1>5, Zenon DEF RegionInv, TypeOK, Only, Processes
  <2>2. Inside(q) => proc[q].sem \in Ids
    BY Zenon DEF RegionInv, MutexOK
  <2>3. Inside(q) \/ Holds(q) => proc[q].r # r
    BY <1>5, InsideAlone, Zenon DEF keyOf
  <2>4. at(q, "get_ref") \/ at(q, "attrs") => Inside(q)
    BY Zenon DEF at, Inside, Begin
  <2>5. Holds(q) \/ at(q, "get_ref") => There(proc[q].r)'
    BY <1>2, <2>1, <2>3, <2>4, Zenon DEF HolderOK, There
  <2>6. set' = set /\ undo' = undo /\ kmounts' = kmounts
    BY Zenon
  <2>7. Relied(q)
    BY <2>1, <2>2, <2>5, <2>6 DEF Relied
  <2>8. Leaves(p, q)
    BY <1>2, <2>1, <2>3, <2>4, <2>6, Zenon DEF Leaves
  <2> QED
    BY <2>7, <2>8, Zenon
<1>6. OwnOK(p)'
  <2>1. MutexOK(p)'
    BY <1>1, Zenon DEF MutexOK, keyOf, Kept
  <2>2. UndoOK(p)'
    BY <1>1, Zenon DEF UndoOK, keyOf
  <2>3. proc'[p].r = r /\ \A q \in Procs : Holds(q)' => Holds(q) /\ proc'[q].r = proc[q].r
    BY Zenon DEF Kept, Only, Holds
  <2>4. HolderOK(p)'
    BY <1>2, <2>3, Zenon DEF HolderOK, There
  <2> QED
    BY <2>1, <2>2, <2>4, Zenon DEF OwnOK
<1>7. ASSUME NEW x \in Regions PROVE RegionOK(x)'
  <2>1. RegionOK(x)
    BY Zenon DEF RegionInv
  <2>2. CASE x = r
    BY <1>2, <2>2 DEF RegionOK, Kept
  <2>3. CASE x # r
    <3>1. \A q \in Procs : at(q, "attrs") /\ proc[q].r = x => at(q, "attrs")' /\ proc'[q].r = x
      BY <2>3, Zenon DEF Only, at
    <3> QED
      BY <1>2, <2>1, <2>3, <3>1, Zenon DEF RegionOK, There
  <2> QED
    BY <2>2, <2>3, Zenon
<1> QED
  BY <1>1, <1>3, <1>4, <1>5, <1>6, <1>7, Together, Zenon

(* A region nobody has, nobody holds. *)
LEMMA NoneIsFree ==
  ASSUME RegionInv, NEW r \in Regions, region[r] = "none"
  PROVE  kmounts[r] = 0 /\ \A q \in Procs : Holds(q) => proc[q].r # r
<1>1. RegionOK(r) /\ kmounts[r] \in Nat /\ \A q \in Procs : HolderOK(q)
  BY Zenon DEF RegionInv, TypeOK
<1> QED
  BY <1>1 DEF RegionOK, HolderOK, There

LEMMA MkdirHolds ==
  ASSUME RegionInv, NEW p \in Procs, o2cb_create_heartbeat_region(p)
  PROVE  RegionInv'
<1>1. /\ TypeOK /\ CallOK(p) /\ at(p, "mkdir") /\ Inside(p) /\ proc[p].call = "begin"
      /\ ~Holds(p) /\ ~proc[p].failed
      /\ UNCHANGED <<set, undo, kmounts, starts, deaths>>
      /\ starts' \in Nat /\ deaths' \in Nat /\ proc[p].r \in Regions
  BY Zenon DEF RegionInv, o2cb_create_heartbeat_region, CallOK, Inside, Begin, Holds, at,
         Waiting, TypeOK, Processes
<1>2. {"attrs", "get_ref", "up"} \subseteq Pcs
  BY Zenon DEF Pcs, Begin
<1>3. CASE region[proc[p].r] = "none" /\ goto(p, "attrs")
           /\ region' = [region EXCEPT ![proc[p].r] = "made"]
  <2>1. /\ Only(p) /\ Kept(p) /\ proc'[p].pc = "attrs" /\ proc'[p].call = "begin"
        /\ proc'[p].sem = proc[p].sem /\ ~proc'[p].failed
    BY <1>1, <1>2, <1>3, GotoFields, Zenon
  <2>2. Inside(p)' /\ ~Holds(p)' /\ CallOK(p)' /\ LastOK(p)'
    BY <1>1, <2>1, Zenon DEF Inside, Begin, Leave, Holds, Waiting, CallOK, LastOK, Kept
  <2> QED
    BY <1>1, <1>3, <2>1, <2>2, NoneIsFree, RegionStep, Zenon DEF at
<1>4. CASE region[proc[p].r] # "none" /\ goto(p, "get_ref") /\ UNCHANGED region
  <2>1. /\ Only(p) /\ Kept(p) /\ proc'[p].pc = "get_ref" /\ proc'[p].call = "begin"
        /\ proc'[p].sem = proc[p].sem /\ ~proc'[p].failed
    BY <1>1, <1>2, <1>4, GotoFields, Zenon
  <2>2. Inside(p)' /\ ~Holds(p)' /\ CallOK(p)' /\ LastOK(p)'
    BY <1>1, <2>1, Zenon DEF Inside, Begin, Leave, Holds, Waiting, CallOK, LastOK, Kept
  <2>3. There(proc'[p].r)
    BY <1>1, <1>4, <2>1, RegionTaken, Zenon DEF at, Kept
  <2> QED
    BY <1>1, <1>4, <2>1, <2>2, <2>3, Moves, Zenon DEF at, Kept
<1>5. CASE fail(p, "up") /\ UNCHANGED region
  <2>1. /\ Only(p) /\ Kept(p) /\ proc'[p].pc = "up" /\ proc'[p].call = "begin"
        /\ proc'[p].sem = proc[p].sem /\ proc'[p].failed = TRUE
    BY <1>1, <1>2, <1>5, FailFields, Zenon
  <2>2. Inside(p)' /\ ~Holds(p)' /\ CallOK(p)' /\ LastOK(p)'
    BY <1>1, <2>1, Zenon DEF Inside, Begin, Leave, Holds, Waiting, CallOK, LastOK, Kept
  <2> QED
    BY <1>1, <1>5, <2>1, <2>2, Moves, Zenon DEF at, Kept
<1> QED
  BY <1>3, <1>4, <1>5, Zenon DEF o2cb_create_heartbeat_region

LEMMA AttributeHolds ==
  ASSUME RegionInv, NEW p \in Procs, o2cb_set_region_attribute(p)
  PROVE  RegionInv'
<1>1. /\ TypeOK /\ CallOK(p) /\ at(p, "attrs") /\ Inside(p) /\ proc[p].call = "begin"
      /\ ~Holds(p) /\ ~proc[p].failed /\ HolderOK(p)
      /\ UNCHANGED <<set, undo, kmounts, starts, deaths>>
  BY Zenon DEF RegionInv, o2cb_set_region_attribute, CallOK, Inside, Begin, Holds, at, Waiting
<1>2. {"get_ref", "up"} \subseteq Pcs
  BY Zenon DEF Pcs, Begin
<1>3. kmounts[proc[p].r] = 0 /\ \A q \in Procs : Holds(q) => proc[q].r # proc[p].r
  BY <1>1, Zenon DEF HolderOK
<1>4. CASE region' = [region EXCEPT ![proc[p].r] = "live"] /\ goto(p, "get_ref")
  <2>1. /\ Only(p) /\ Kept(p) /\ proc'[p].pc = "get_ref" /\ proc'[p].call = "begin"
        /\ proc'[p].sem = proc[p].sem /\ ~proc'[p].failed
    BY <1>1, <1>2, <1>4, GotoFields, Zenon
  <2>2. Inside(p)' /\ ~Holds(p)' /\ CallOK(p)' /\ LastOK(p)'
    BY <1>1, <2>1, Zenon DEF Inside, Begin, Leave, Holds, Waiting, CallOK, LastOK, Kept
  <2> QED
    BY <1>1, <1>3, <1>4, <2>1, <2>2, RegionStep, Zenon DEF at
<1>5. CASE region' = [region EXCEPT ![proc[p].r] = "none"] /\ fail(p, "up")
  <2>1. /\ Only(p) /\ Kept(p) /\ proc'[p].pc = "up" /\ proc'[p].call = "begin"
        /\ proc'[p].sem = proc[p].sem /\ proc'[p].failed = TRUE
    BY <1>1, <1>2, <1>5, FailFields, Zenon
  <2>2. Inside(p)' /\ ~Holds(p)' /\ CallOK(p)' /\ LastOK(p)'
    BY <1>1, <2>1, Zenon DEF Inside, Begin, Leave, Holds, Waiting, CallOK, LastOK, Kept
  <2> QED
    BY <1>1, <1>3, <1>5, <2>1, <2>2, RegionStep, Zenon DEF at
<1> QED
  BY <1>4, <1>5, Zenon DEF o2cb_set_region_attribute

(* Where the region is removed nobody counts on it: the count is zero. *)
LEMMA RmdirHolds ==
  ASSUME RegionInv, NEW p \in Procs, o2cb_remove_heartbeat_region(p)
  PROVE  RegionInv'
<1>1. /\ TypeOK /\ CallOK(p) /\ at(p, "rmdir") /\ Inside(p) /\ proc[p].call = "leave"
      /\ ~Holds(p) /\ LastOK(p) /\ MutexOK(p) /\ ~proc[p].failed
      /\ UNCHANGED <<set, undo, kmounts, starts, deaths>>
      /\ starts' \in Nat /\ deaths' \in Nat /\ proc[p].r \in Regions
  BY Zenon DEF RegionInv, o2cb_remove_heartbeat_region, CallOK, Inside, Leave, Holds, at,
         Waiting, TypeOK, Processes
<1>2. {"rmid", "up"} \subseteq Pcs
  BY Zenon DEF Pcs, Leave
<1>3. /\ proc[p].sem \in Ids /\ set[proc[p].sem].keys = {keyOf(p)}
      /\ set[proc[p].sem].refs = 0
  BY <1>1, Zenon DEF MutexOK, LastOK, at
<1>4. CASE goto(p, "rmid") /\ region' = [region EXCEPT ![proc[p].r] = "none"]
  <2>1. /\ Only(p) /\ Kept(p) /\ proc'[p].pc = "rmid" /\ proc'[p].call = "leave"
        /\ proc'[p].sem = proc[p].sem /\ ~proc'[p].failed
    BY <1>1, <1>2, <1>4, GotoFields, Zenon
  <2>2. Inside(p)' /\ ~Holds(p)' /\ CallOK(p)' /\ LastOK(p)'
    BY <1>1, <1>3, <2>1, Zenon DEF Inside, Begin, Leave, Holds, Waiting, CallOK, LastOK, Kept
  <2>3. kmounts[proc[p].r] = 0
    <3>1. kmounts[proc[p].r] \in Nat
      BY <1>1, Zenon DEF TypeOK
    <3>2. ~(kmounts[proc[p].r] > 0)
      BY <1>1, <1>3, MountCounts DEF keyOf
    <3> QED
      BY <3>1, <3>2
  <2>4. ASSUME NEW q \in Procs, Holds(q) PROVE proc[q].r # proc[p].r
    BY <1>3, <2>4, HolderCounts DEF keyOf
  <2> QED
    BY <1>1, <1>4, <2>1, <2>2, <2>3, <2>4, RegionStep, Zenon DEF at
<1>5. CASE fail(p, "up") /\ UNCHANGED region
  <2>1. /\ Only(p) /\ Kept(p) /\ proc'[p].pc = "up" /\ proc'[p].call = "leave"
        /\ proc'[p].sem = proc[p].sem /\ proc'[p].failed = TRUE
    BY <1>1, <1>2, <1>5, FailFields, Zenon
  <2>2. Inside(p)' /\ ~Holds(p)' /\ CallOK(p)' /\ LastOK(p)'
    BY <1>1, <2>1, Zenon DEF Inside, Begin, Leave, Holds, Waiting, CallOK, LastOK, Kept
  <2> QED
    BY <1>1, <1>5, <2>1, <2>2, Moves, Zenon DEF at, Kept
<1> QED
  BY <1>4, <1>5, Zenon DEF o2cb_remove_heartbeat_region

-----------------------------------------------------------------------------
(* The mutex. *)

MutexSet(i, m) == set' = [set EXCEPT ![i].mutex = m]
MutexUndo(p, i, m) == undo' = [undo EXCEPT ![p][i].mutex = m]

LEMMA SetMutex ==
  ASSUME TypeOK, NEW i \in Ids, NEW m \in {0, 1}, MutexSet(i, m)
  PROVE  /\ set' \in [Ids -> [keys : SUBSET Keys, mutex : {0, 1}, refs : Nat]]
         /\ \A j \in Ids : set'[j].keys = set[j].keys /\ set'[j].refs = set[j].refs
         /\ set'[i].mutex = m /\ \A j \in Ids : j # i => set'[j].mutex = set[j].mutex
<1> DEFINE y == [set[i] EXCEPT !.mutex = m]
<1>1. /\ y \in [keys : SUBSET Keys, mutex : {0, 1}, refs : Nat]
      /\ y.keys = set[i].keys /\ y.refs = set[i].refs /\ y.mutex = m
  BY Zenon DEF TypeOK
<1>2. set' = [set EXCEPT ![i] = y]
  BY Zenon DEF MutexSet
<1> HIDE DEF y
<1>3. /\ set' \in [Ids -> [keys : SUBSET Keys, mutex : {0, 1}, refs : Nat]]
      /\ set'[i] = y /\ \A j \in Ids : j # i => set'[j] = set[j]
  BY <1>1, <1>2, Zenon DEF TypeOK
<1> QED
  BY <1>1, <1>3, Zenon

LEMMA UndoMutex ==
  ASSUME TypeOK, NEW p \in Procs, NEW i \in Ids, NEW m \in {0, 1}, MutexUndo(p, i, m)
  PROVE  /\ undo' \in [Procs -> [Ids -> [mutex : {0, 1}, refs : {0, 1}]]]
         /\ \A q \in Procs : q # p => undo'[q] = undo[q]
         /\ \A j \in Ids : undo'[p][j].refs = undo[p][j].refs
         /\ undo'[p][i].mutex = m
         /\ \A j \in Ids : j # i => undo'[p][j].mutex = undo[p][j].mutex
<1>1. /\ undo[p] \in [Ids -> [mutex : {0, 1}, refs : {0, 1}]]
      /\ undo' = [undo EXCEPT ![p] = [undo[p] EXCEPT ![i].mutex = m]]
  BY Zenon DEF TypeOK, MutexUndo
<1> DEFINE u == [undo[p] EXCEPT ![i].mutex = m]
<1>2. /\ u \in [Ids -> [mutex : {0, 1}, refs : {0, 1}]]
      /\ \A j \in Ids : u[j].refs = undo[p][j].refs
      /\ u[i].mutex = m /\ \A j \in Ids : j # i => u[j].mutex = undo[p][j].mutex
  BY <1>1, Zenon
<1> HIDE DEF u
<1>3. undo' = [undo EXCEPT ![p] = u]
  BY <1>1, Zenon DEF u
<1>4. undo'[p] = u /\ \A q \in Procs : q # p => undo'[q] = undo[q]
  BY <1>3, Zenon DEF TypeOK
<1>5. undo' \in [Procs -> [Ids -> [mutex : {0, 1}, refs : {0, 1}]]]
  BY <1>2, <1>3 DEF TypeOK
<1> QED
  BY <1>2, <1>4, <1>5, Zenon

LEMMA MutexStep ==
  ASSUME RegionInv, TypeOK', NEW p \in Procs, Only(p), Kept(p), NEW i \in Ids,
         UNCHANGED <<region, kmounts>>,
         \A j \in Ids : set'[j].keys = set[j].keys /\ set'[j].refs = set[j].refs,
         \A j \in Ids : j # i => set'[j].mutex = set[j].mutex,
         \A q \in Procs : q # p => undo'[q] = undo[q],
         \A j \in Ids : undo'[p][j].refs = undo[p][j].refs,
         \A q \in Procs : q # p /\ Inside(q) => proc[q].sem # i,
         Inside(p)' => proc'[p].sem = i,
         Holds(p)' <=> Holds(p), CallOK(p)', MutexOK(p)', LastOK(p)',
         proc'[p].pc \notin {"down", "wait", "attrs", "get_ref"}, ~at(p, "attrs")
  PROVE  RegionInv'
<1>1. SetsOK' /\ UndoOK(p) /\ HolderOK(p)
  BY DEF RegionInv, SetsOK
<1>2. RefsOK'
  <2>1. \A k \in Keys : Holders(k)' \subseteq Holders(k) /\ Mounts(k)' \subseteq Mounts(k)
    BY HoldersKept, MountsKept, Zenon DEF Kept
  <2> QED
    BY <2>1, RefsKept, Zenon
<1>3. Inside(p)' => \A q \in Procs : q # p /\ Inside(q) => proc[q].sem # proc'[p].sem
  BY Zenon
<1>4. ASSUME NEW q \in Procs, q # p PROVE Relied(q) /\ Leaves(p, q)
  <2>1. /\ HolderOK(q) /\ (\A j \in Ids : set[j].refs \in Nat) /\ proc'[q] = proc[q]
        /\ MutexOK(q)
    BY <1>4, Zenon DEF RegionInv, TypeOK, Only
  <2>2. Inside(q) \/ proc[q].pc \in {"down", "wait"} => proc[q].sem \in Ids
    BY <2>1, Zenon DEF MutexOK
  <2>3. Holds(q) \/ at(q, "get_ref") => There(proc[q].r)'
    BY <2>1, Zenon DEF HolderOK, There
  <2>4. undo'[q] = undo[q] /\ (Inside(q) => proc[q].sem # i)
    BY <1>4, Zenon
  <2>5. Relied(q)
    BY <2>1, <2>2, <2>3, <2>4 DEF Relied
  <2>6. Leaves(p, q)
    BY <2>1, Zenon DEF Leaves, HolderOK, Kept
  <2> QED
    BY <2>5, <2>6, Zenon
<1>5. OwnOK(p)'
  <2>1. UndoOK(p)'
    BY <1>1 DEF UndoOK, keyOf, Kept
  <2>2. HolderOK(p)'
    BY <1>1, Zenon DEF HolderOK, There, at, Kept
  <2> QED
    BY <2>1, <2>2, Zenon DEF OwnOK
<1>6. ASSUME NEW r \in Regions PROVE RegionOK(r)'
  <2>1. RegionOK(r)
    BY Zenon DEF RegionInv
  <2>2. \A x \in Procs : at(x, "attrs") => x # p /\ at(x, "attrs")' /\ proc'[x].r = proc[x].r
    BY Zenon DEF Only, at
  <2> QED
    BY <2>1, <2>2, Zenon DEF RegionOK, There
<1> QED
  BY <1>1, <1>2, <1>3, <1>4, <1>5, <1>6, Together, Zenon

LEMMA TakeHolds ==
  ASSUME RegionInv, NEW p \in Procs, at(p, "down") \/ at(p, "wait"),
         mutex_free(proc[p].sem), take(p, proc[p].sem),
         UNCHANGED <<region, kmounts, starts, deaths>>
  PROVE  RegionInv'
<1> DEFINE i == proc[p].sem
<1>1. TypeOK /\ CallOK(p) /\ MutexOK(p)
  BY Zenon DEF RegionInv
<1>2. /\ i \in Ids /\ set[i].keys = {keyOf(p)} /\ set[i].mutex = 0 /\ ~Inside(p)
      /\ proc[p].call \in {"begin", "leave"} /\ ~proc[p].failed
  <2>1. proc[p].call \in {"begin", "leave", "info"}
    BY <1>1, Zenon DEF TypeOK, Processes
  <2>2. ~Inside(p)
    BY Zenon DEF Inside, at, Begin, Leave
  <2> QED
    BY <1>1, <2>1, <2>2, Zenon DEF MutexOK, mutex_free, exists, at, CallOK
<1>3. first_step(p) \in Pcs /\ first_step(p) \in {"mkdir", "getval"}
      /\ (first_step(p) = "mkdir" <=> proc[p].call = "begin")
  BY Zenon DEF first_step, Pcs, Begin, Leave
<1>4. /\ Only(p) /\ Kept(p) /\ proc'[p].pc = first_step(p) /\ proc'[p].call = proc[p].call
      /\ proc'[p].sem = i /\ ~proc'[p].failed
  BY <1>1, <1>2, <1>3, GotoFields, Zenon DEF take
<1>5. MutexSet(i, 1) /\ MutexUndo(p, i, 1)
  BY Zenon DEF take, MutexSet, MutexUndo
<1> HIDE DEF i
<1>13. 1 \in {0, 1}
  OBVIOUS
<1>6. /\ set' \in [Ids -> [keys : SUBSET Keys, mutex : {0, 1}, refs : Nat]]
      /\ \A j \in Ids : set'[j].keys = set[j].keys /\ set'[j].refs = set[j].refs
      /\ set'[i].mutex = 1 /\ \A j \in Ids : j # i => set'[j].mutex = set[j].mutex
  BY <1>1, <1>2, <1>5, <1>13, SetMutex, Zenon
<1>7. /\ undo' \in [Procs -> [Ids -> [mutex : {0, 1}, refs : {0, 1}]]]
      /\ \A q \in Procs : q # p => undo'[q] = undo[q]
      /\ \A j \in Ids : undo'[p][j].refs = undo[p][j].refs
      /\ undo'[p][i].mutex = 1
      /\ \A j \in Ids : j # i => undo'[p][j].mutex = undo[p][j].mutex
  BY <1>1, <1>2, <1>5, <1>13, UndoMutex, Zenon
<1>8. TypeOK'
  BY <1>1, <1>4, <1>6, <1>7, Zenon DEF TypeOK, Only
<1>9. Holds(p)' <=> Holds(p)
  BY <1>3, <1>4, Zenon DEF Holds, Waiting, at
<1>10. CallOK(p)' /\ LastOK(p)' /\ Inside(p)'
  BY <1>1, <1>2, <1>3, <1>4, Zenon DEF CallOK, LastOK, Inside, Begin, Leave, Kept
<1>11. MutexOK(p)'
  <2>1. keyOf(p)' = keyOf(p)
    BY <1>4, Zenon DEF keyOf, Kept
  <2>2. \A j \in Ids : undo[p][j].mutex # 1
    BY <1>1, <1>2, Zenon DEF MutexOK
  <2> QED
    BY <1>2, <1>3, <1>4, <1>6, <1>7, <1>10, <2>1, <2>2 DEF MutexOK
<1>12. \A q \in Procs : q # p /\ Inside(q) => proc[q].sem # i
  BY <1>2 DEF RegionInv, MutexOK
<1> QED
  BY <1>2, <1>3, <1>4, <1>6, <1>7, <1>8, <1>9, <1>10, <1>11, <1>12, MutexStep, Zenon DEF at

LEMMA UpHolds ==
  ASSUME RegionInv, NEW p \in Procs, o2cb_mutex_up(p)
  PROVE  RegionInv'
<1> DEFINE i == proc[p].sem
           y == [proc[p] EXCEPT !.pc = after_up(p), !.sem = NoSem]
<1>1. TypeOK /\ CallOK(p) /\ MutexOK(p) /\ proc[p] \in Processes /\ at(p, "up") /\ Inside(p)
  BY Zenon DEF RegionInv, TypeOK, o2cb_mutex_up, at, Inside
<1>2. /\ i \in Ids /\ proc[p].call \in {"begin", "leave"}
      /\ proc[p].call = "begin" => proc[p].kind \in {"mount", "tool"}
      /\ proc[p].failed \in BOOLEAN
  BY <1>1, Zenon DEF MutexOK, CallOK, Processes, at
<1>3. /\ after_up(p) \in {"exit", "syscall", "using"}
      /\ after_up(p) = "exit" <=> proc[p].failed \/ proc[p].call = "leave"
      /\ after_up(p) = "syscall" => proc[p].kind = "mount"
  BY <1>2, Zenon DEF after_up
<1>4. y \in Processes
  <2>1. after_up(p) \in Pcs
    BY <1>3, Zenon DEF Pcs
  <2> QED
    BY <1>1, <2>1, Zenon DEF Processes
<1>5. /\ y.pc = after_up(p) /\ y.kind = proc[p].kind /\ y.r = proc[p].r
      /\ y.call = proc[p].call /\ y.hb_refs = proc[p].hb_refs /\ y.failed = proc[p].failed
  BY <1>1, Zenon DEF Processes
<1>6. Only(p) /\ proc'[p] = y
  BY <1>1, <1>4, Zenon DEF o2cb_mutex_up, Only, TypeOK
<1>7. MutexSet(i, 0) /\ MutexUndo(p, i, 0)
      /\ UNCHANGED <<region, kmounts, starts, deaths>>
  BY Zenon DEF o2cb_mutex_up, MutexSet, MutexUndo
<1> HIDE DEF y
<1>8. /\ set' \in [Ids -> [keys : SUBSET Keys, mutex : {0, 1}, refs : Nat]]
      /\ \A j \in Ids : set'[j].keys = set[j].keys /\ set'[j].refs = set[j].refs
      /\ set'[i].mutex = 0 /\ \A j \in Ids : j # i => set'[j].mutex = set[j].mutex
  BY <1>1, <1>2, <1>7, SetMutex, Zenon
<1>9. /\ undo' \in [Procs -> [Ids -> [mutex : {0, 1}, refs : {0, 1}]]]
      /\ \A q \in Procs : q # p => undo'[q] = undo[q]
      /\ \A j \in Ids : undo'[p][j].refs = undo[p][j].refs
      /\ undo'[p][i].mutex = 0
      /\ \A j \in Ids : j # i => undo'[p][j].mutex = undo[p][j].mutex
  BY <1>1, <1>2, <1>7, UndoMutex, Zenon
<1>10. TypeOK'
  BY <1>1, <1>6, <1>7, <1>8, <1>9, Zenon DEF TypeOK, Only
<1>11. Holds(p)' <=> Holds(p)
  BY <1>1, <1>2, <1>3, <1>5, <1>6, Zenon DEF Holds, Waiting, at
<1>12. ~Inside(p)' /\ LastOK(p)'
  BY <1>3, <1>5, <1>6, Zenon DEF LastOK, Inside, Begin, Leave
<1>13. CallOK(p)'
  BY <1>1, <1>2, <1>3, <1>5, <1>6, Zenon DEF CallOK, Begin, Leave
<1>14. MutexOK(p)'
  <2>1. \A j \in Ids : undo'[p][j].mutex # 1
    BY <1>1, <1>9 DEF MutexOK
  <2> QED
    BY <1>3, <1>5, <1>6, <1>12, <2>1, Zenon DEF MutexOK
<1>15. \A q \in Procs : q # p /\ Inside(q) => proc[q].sem # i
  BY <1>1, Zenon DEF RegionInv, Alone
<1>16. Kept(p) /\ proc'[p].pc \notin {"down", "wait", "attrs", "get_ref"} /\ ~at(p, "attrs")
  BY <1>1, <1>3, <1>5, <1>6, Zenon DEF Kept, at
<1> HIDE DEF i
<1> QED
  BY <1>2, <1>6, <1>7, <1>8, <1>9, <1>10, <1>11, <1>12, <1>13, <1>14, <1>15, <1>16, MutexStep, Zenon

-----------------------------------------------------------------------------
(* The references. *)

(* The count of one set, and the holders of its key, go up or down by one. *)
LEMMA RefsMoved ==
  ASSUME RegionInv, NEW i \in Ids, NEW k \in Keys, set[i].keys = {k},
         \A j \in Ids : set'[j].keys = set[j].keys /\ (j # i => set'[j].refs = set[j].refs),
         Counted(Holders(k)', Mounts(k)', set'[i].refs),
         \A x \in Keys : x # k => Holders(x)' \subseteq Holders(x) /\ Mounts(x)' \subseteq Mounts(x)
  PROVE  RefsOK'
<1> SUFFICES ASSUME NEW x \in Keys
             PROVE  /\ \A j \in Ids : set'[j].keys = {x} => Counted(Holders(x)', Mounts(x)', set'[j].refs)
                    /\ (\A j \in Ids : set'[j].keys # {x}) => Holders(x)' = {} /\ Mounts(x)' = {}
  BY Zenon DEF RefsOK
<1>1. CASE x = k
  <2>1. \A j \in Ids : set[j].keys = {k} => j = i
    BY Zenon DEF RegionInv, SetsOK
  <2> QED
    BY <1>1, <2>1, Zenon
<1>2. CASE x # k
  <2>1. ASSUME NEW j \in Ids, set'[j].keys = {x} PROVE Counted(Holders(x)', Mounts(x)', set'[j].refs)
    <3>1. j # i /\ set[j].keys = {x} /\ set'[j].refs = set[j].refs
      BY <1>2, <2>1, Zenon
    <3> QED
      BY <1>2, <3>1, CountKept, Zenon
  <2>2. (\A j \in Ids : set[j].keys # {x}) => Holders(x) = {} /\ Mounts(x) = {}
    BY Zenon DEF RegionInv, RefsOK
  <2> QED
    BY <1>2, <2>1, <2>2, Zenon
<1> QED
  BY <1>1, <1>2, Zenon

LEMMA CountOf ==
  ASSUME RegionInv, NEW k \in Keys, NEW i \in Ids, set[i].keys = {k}
  PROVE  Counted(Holders(k), Mounts(k), set[i].refs) /\ set[i].refs \in Nat
BY Zenon DEF RegionInv, RefsOK, TypeOK

LEMMA SetRefs ==
  ASSUME TypeOK, NEW i \in Ids, NEW n \in Nat, set' = [set EXCEPT ![i].refs = n]
  PROVE  /\ set' \in [Ids -> [keys : SUBSET Keys, mutex : {0, 1}, refs : Nat]]
         /\ \A j \in Ids : set'[j].keys = set[j].keys /\ set'[j].mutex = set[j].mutex
         /\ set'[i].refs = n /\ \A j \in Ids : j # i => set'[j].refs = set[j].refs
BY DEF TypeOK

LEMMA UndoRefs ==
  ASSUME TypeOK, NEW p \in Procs, NEW i \in Ids, NEW n \in {0, 1},
         undo' = IF undone(p) THEN [undo EXCEPT ![p][i].refs = n] ELSE undo
  PROVE  /\ undo' \in [Procs -> [Ids -> [mutex : {0, 1}, refs : {0, 1}]]]
         /\ \A q \in Procs : q # p => undo'[q] = undo[q]
         /\ \A j \in Ids : undo'[p][j].mutex = undo[p][j].mutex
         /\ undo'[p][i].refs = IF undone(p) THEN n ELSE undo[p][i].refs
         /\ \A j \in Ids : j # i => undo'[p][j].refs = undo[p][j].refs
<1>1. CASE ~undone(p)
  BY <1>1, Zenon DEF TypeOK
<1>2. CASE undone(p)
  <2>1. /\ undo[p] \in [Ids -> [mutex : {0, 1}, refs : {0, 1}]]
        /\ undo' = [undo EXCEPT ![p] = [undo[p] EXCEPT ![i].refs = n]]
    BY <1>2, Zenon DEF TypeOK
  <2> DEFINE u == [undo[p] EXCEPT ![i].refs = n]
  <2>2. /\ u \in [Ids -> [mutex : {0, 1}, refs : {0, 1}]]
        /\ \A j \in Ids : u[j].mutex = undo[p][j].mutex
        /\ u[i].refs = n /\ \A j \in Ids : j # i => u[j].refs = undo[p][j].refs
    BY <2>1, Zenon
  <2> HIDE DEF u
  <2>3. undo' = [undo EXCEPT ![p] = u]
    BY <2>1, Zenon DEF u
  <2>4. undo'[p] = u /\ \A q \in Procs : q # p => undo'[q] = undo[q]
    BY <2>3, Zenon DEF TypeOK
  <2>5. undo' \in [Procs -> [Ids -> [mutex : {0, 1}, refs : {0, 1}]]]
    BY <2>2, <2>3, Zenon DEF TypeOK
  <2> QED
    BY <1>2, <2>2, <2>4, <2>5, Zenon
<1> QED
  BY <1>1, <1>2, Zenon

(* A step of p inside that changes the references of its own set. *)
LEMMA RefsStep ==
  ASSUME RegionInv, TypeOK', RefsOK', NEW p \in Procs, Only(p),
         Inside(p), proc'[p].sem = proc[p].sem, proc'[p].r = proc[p].r,
         UNCHANGED <<region, kmounts>>, Inside(p)',
         \A j \in Ids : set'[j].keys = set[j].keys /\ set'[j].mutex = set[j].mutex,
         \A j \in Ids : j # proc[p].sem => set'[j].refs = set[j].refs,
         \A q \in Procs : q # p => undo'[q] = undo[q],
         \A j \in Ids : undo'[p][j].mutex = undo[p][j].mutex,
         CallOK(p)', LastOK(p)', UndoOK(p)', Holds(p)' => There(proc[p].r),
         proc'[p].pc \notin {"down", "wait", "attrs", "get_ref"}, ~at(p, "attrs")
  PROVE  RegionInv'
<1>1. SetsOK' /\ MutexOK(p)
  BY DEF RegionInv, SetsOK
<1>2. Inside(p)' => \A q \in Procs : q # p /\ Inside(q) => proc[q].sem # proc'[p].sem
  BY Zenon DEF RegionInv, Alone
<1>3. ASSUME NEW q \in Procs, q # p PROVE Relied(q) /\ Leaves(p, q)
  <2>1. /\ HolderOK(q) /\ (\A j \in Ids : set[j].refs \in Nat) /\ proc'[q] = proc[q]
        /\ MutexOK(q)
    BY <1>3, Zenon DEF RegionInv, TypeOK, Only
  <2>2. Inside(q) \/ proc[q].pc \in {"down", "wait"} => proc[q].sem \in Ids
    BY <2>1, Zenon DEF MutexOK
  <2>3. Holds(q) \/ at(q, "get_ref") => There(proc[q].r)'
    BY <2>1, Zenon DEF HolderOK, There
  <2>4. undo'[q] = undo[q] /\ (Inside(q) => proc[q].sem # proc[p].sem)
    BY <1>2, <1>3, Zenon
  <2>5. Relied(q)
    BY <2>1, <2>2, <2>3, <2>4 DEF Relied
  <2>6. at(q, "attrs") => proc[q].r # proc[p].r
    BY <1>3, InsideAlone, Zenon DEF at, Inside, Begin, keyOf
  <2>7. Leaves(p, q)
    BY <2>6, Zenon DEF Leaves
  <2> QED
    BY <2>5, <2>7, Zenon
<1>4. OwnOK(p)'
  <2>1. MutexOK(p)'
    BY <1>1 DEF MutexOK, keyOf
  <2>2. HolderOK(p)'
    BY Zenon DEF HolderOK, There, at
  <2> QED
    BY <2>1, <2>2, Zenon DEF OwnOK
<1>5. ASSUME NEW r \in Regions PROVE RegionOK(r)'
  <2>1. RegionOK(r)
    BY Zenon DEF RegionInv
  <2>2. \A x \in Procs : at(x, "attrs") => x # p /\ at(x, "attrs")' /\ proc'[x].r = proc[x].r
    BY Zenon DEF Only, at
  <2> QED
    BY <2>1, <2>2, Zenon DEF RegionOK, There
<1> QED
  BY <1>1, <1>2, <1>3, <1>4, <1>5, Together, Zenon

LEMMA GetRefHolds ==
  ASSUME RegionInv, NEW p \in Procs, o2cb_get_ref(p)
  PROVE  RegionInv'
<1>1. /\ TypeOK /\ CallOK(p) /\ MutexOK(p) /\ UndoOK(p) /\ HolderOK(p)
      /\ at(p, "get_ref") /\ Inside(p) /\ proc[p].call = "begin" /\ ~Holds(p)
      /\ proc[p].r \in Regions /\ ~proc[p].failed
  BY Zenon DEF RegionInv, o2cb_get_ref, CallOK, Inside, Begin, Holds, at, Waiting, TypeOK, Processes
<1>2. PICK i \in Ids, k \in Keys :
        i = proc[p].sem /\ k = keyOf(p) /\ set[i].keys = {k} /\ set[i].refs \in Nat
  BY <1>1, RegionAssumption DEF MutexOK, keyOf, TypeOK
<1>3. "up" \in Pcs
  BY Zenon DEF Pcs
<1>4. /\ Only(p) /\ Kept(p) /\ proc'[p].pc = "up" /\ proc'[p].call = "begin"
      /\ proc'[p].sem = i /\ ~proc'[p].failed
  BY <1>1, <1>2, <1>3, GotoFields, Zenon DEF o2cb_get_ref
<1>5. /\ set' = [set EXCEPT ![i].refs = set[i].refs + 1]
      /\ undo' = IF undone(p) THEN [undo EXCEPT ![p][i].refs = 1] ELSE undo
      /\ UNCHANGED <<region, kmounts, starts, deaths>>
  BY <1>1, <1>2, Zenon DEF o2cb_get_ref, TypeOK
<1>6. /\ set' \in [Ids -> [keys : SUBSET Keys, mutex : {0, 1}, refs : Nat]]
      /\ \A j \in Ids : set'[j].keys = set[j].keys /\ set'[j].mutex = set[j].mutex
      /\ set'[i].refs = set[i].refs + 1 /\ \A j \in Ids : j # i => set'[j].refs = set[j].refs
  <2>1. PICK n \in Nat : n = set[i].refs + 1
    BY <1>2
  <2>2. set' = [set EXCEPT ![i].refs = n]
    BY <1>5, <2>1, Zenon
  <2> QED
    BY <1>1, <2>1, <2>2, SetRefs, Zenon
<1>7. /\ undo' \in [Procs -> [Ids -> [mutex : {0, 1}, refs : {0, 1}]]]
      /\ \A q \in Procs : q # p => undo'[q] = undo[q]
      /\ \A j \in Ids : undo'[p][j].mutex = undo[p][j].mutex
      /\ undo'[p][i].refs = IF undone(p) THEN 1 ELSE undo[p][i].refs
      /\ \A j \in Ids : j # i => undo'[p][j].refs = undo[p][j].refs
  <2>1. 1 \in {0, 1}
    BY Zenon
  <2> QED
    BY <1>1, <1>5, <2>1, UndoRefs, Zenon
<1>8. TypeOK'
  BY <1>1, <1>4, <1>5, <1>6, <1>7, Zenon DEF TypeOK, Only
<1>9. Inside(p)' /\ Holds(p)' /\ CallOK(p)' /\ LastOK(p)' /\ keyOf(p)' = k
  BY <1>1, <1>2, <1>4, Zenon DEF Inside, Holds, CallOK, LastOK, Begin, Leave, Kept, keyOf
<1>10. RefsOK'
  <2>1. /\ \A x \in Keys : x # k => Holders(x)' \subseteq Holders(x)
        /\ Holders(k)' \subseteq Holders(k) \cup {p}
    BY <1>4, <1>9 DEF Holders, Holds, keyOf, Only, Kept
  <2>2. \A x \in Keys : Mounts(x)' = Mounts(x)
    BY <1>5, MountsKept, Zenon
  <2>3. Counted(Holders(k)', Mounts(k), set[i].refs + 1)
    BY <1>2, <2>1, CountOf, CountedMore, Zenon
  <2> QED
    BY <1>2, <1>6, <2>1, <2>2, <2>3, RefsMoved
<1>11. UndoOK(p)'
  <2>1. \A j \in Ids : undo[p][j].refs # 1
    BY <1>1, Zenon DEF UndoOK
  <2>2. \A j \in Ids : undo'[p][j].refs = 1 => j = i /\ undone(p)
    BY <1>7, <2>1, Zenon
  <2> QED
    BY <1>2, <1>4, <1>6, <1>9, <2>2, Zenon DEF UndoOK, undone, Kept
<1>12. There(proc[p].r)
  BY <1>1, Zenon DEF HolderOK
<1> QED
  BY <1>1, <1>2, <1>4, <1>5, <1>6, <1>7, <1>8, <1>9, <1>10, <1>11, <1>12, RefsStep, Zenon
     DEF at, Kept

LEMMA KeySet ==
  ASSUME RegionInv, NEW k, NEW i \in Ids, NEW j \in Ids, set[i].keys = {k}, set[j].keys = {k}
  PROVE  i = j
BY Zenon DEF RegionInv, SetsOK

LEMMA DropHolds ==
  ASSUME RegionInv, NEW p \in Procs, o2cb_drop_ref(p)
  PROVE  RegionInv'
<1>1. /\ TypeOK /\ CallOK(p) /\ MutexOK(p) /\ UndoOK(p) /\ LastOK(p) /\ SetsOK
      /\ at(p, "drop") /\ Inside(p) /\ proc[p].call = "leave" /\ Holds(p)
      /\ proc[p].r \in Regions /\ ~proc[p].failed /\ proc[p] \in Processes
  BY Zenon DEF RegionInv, o2cb_drop_ref, CallOK, Inside, Leave, Holds, at, Waiting, TypeOK, Processes
<1>2. PICK i \in Ids, k \in Keys :
        i = proc[p].sem /\ k = keyOf(p) /\ set[i].keys = {k} /\ set[i].refs \in Nat
  BY <1>1, RegionAssumption, Zenon DEF MutexOK, keyOf, TypeOK
<1>3. PICK n \in Int : n = proc[p].hb_refs - 1
  BY <1>1 DEF Processes
<1>4. /\ set[i].refs > 0 /\ set[i].refs <= proc[p].hb_refs /\ proc[p].hb_refs \in Int
      /\ set[i].refs - 1 \in Nat /\ (n = 0 => set[i].refs - 1 = 0)
  <2>1. set[i].refs > 0 /\ set[i].refs <= proc[p].hb_refs /\ proc[p].hb_refs \in Int
    BY <1>1, <1>2, Zenon DEF o2cb_drop_ref, LastOK, at, Processes
  <2> QED
    BY <1>2, <1>3, <2>1
<1> DEFINE t == IF n = 0 THEN "rmdir" ELSE "up"
           y == [proc[p] EXCEPT !.hb_refs = n, !.pc = t]
<1>5. t \in Pcs /\ t \in {"rmdir", "up"} /\ (t = "rmdir" => n = 0)
  BY Zenon DEF Pcs, Leave
<1>6. /\ set' = [set EXCEPT ![i].refs = set[i].refs - 1]
      /\ undo' = IF undone(p) THEN [undo EXCEPT ![p][i].refs = 0] ELSE undo
      /\ proc' = [proc EXCEPT ![p] = y]
      /\ UNCHANGED <<region, kmounts, starts, deaths>>
  BY <1>1, <1>2, <1>3, Zenon DEF o2cb_drop_ref, TypeOK, last
<1> HIDE DEF t
<1>7. y \in Processes
  BY <1>1, <1>3, <1>5, Zenon DEF Processes
<1>8. /\ y.pc = t /\ y.kind = proc[p].kind /\ y.r = proc[p].r /\ y.call = proc[p].call
      /\ y.sem = proc[p].sem /\ y.failed = proc[p].failed /\ y.hb_refs = n
  BY <1>1, <1>5, Zenon DEF Processes
<1>9. Only(p) /\ proc'[p] = y
  BY <1>1, <1>6, <1>7, Zenon DEF Only, TypeOK
<1> HIDE DEF y
<1>10. /\ set' \in [Ids -> [keys : SUBSET Keys, mutex : {0, 1}, refs : Nat]]
       /\ \A j \in Ids : set'[j].keys = set[j].keys /\ set'[j].mutex = set[j].mutex
       /\ set'[i].refs = set[i].refs - 1 /\ \A j \in Ids : j # i => set'[j].refs = set[j].refs
  <2>1. PICK m \in Nat : m = set[i].refs - 1
    BY <1>4, Zenon
  <2>2. set' = [set EXCEPT ![i].refs = m]
    BY <1>6, <2>1, Zenon
  <2> QED
    BY <1>1, <2>1, <2>2, SetRefs, Zenon
<1>11. /\ undo' \in [Procs -> [Ids -> [mutex : {0, 1}, refs : {0, 1}]]]
       /\ \A q \in Procs : q # p => undo'[q] = undo[q]
       /\ \A j \in Ids : undo'[p][j].mutex = undo[p][j].mutex
       /\ undo'[p][i].refs = IF undone(p) THEN 0 ELSE undo[p][i].refs
       /\ \A j \in Ids : j # i => undo'[p][j].refs = undo[p][j].refs
  <2>1. 0 \in {0, 1}
    BY Zenon
  <2> QED
    BY <1>1, <1>6, <2>1, UndoRefs, Zenon
<1>12. TypeOK'
  BY <1>1, <1>6, <1>9, <1>10, <1>11, Zenon DEF TypeOK, Only
<1>13. Inside(p)' /\ ~Holds(p)' /\ CallOK(p)'
  BY <1>1, <1>5, <1>8, <1>9 DEF Inside, Holds, Waiting, CallOK, Begin, Leave
<1>14. LastOK(p)'
  BY <1>2, <1>4, <1>5, <1>8, <1>9, <1>10, Zenon DEF LastOK
<1>15. RefsOK'
  <2>1. \A x \in Keys : Holders(x)' \subseteq Holders(x) /\ Mounts(x)' = Mounts(x)
    BY <1>6, <1>9, <1>13, HoldersKept, MountsKept, Zenon
  <2>2. p \in Holders(k) /\ p \notin Holders(k)'
    BY <1>1, <1>2, <1>13, Zenon DEF Holders
  <2>3. Counted(Holders(k)', Mounts(k), set[i].refs - 1)
    BY <1>2, <2>1, <2>2, CountOf, CountedLess, Zenon
  <2> QED
    BY <1>2, <1>10, <2>1, <2>3, RefsMoved
<1>16. UndoOK(p)'
  <2>1. \A j \in Ids : undo[p][j].refs = 1 => undone(p) /\ j = i
    BY <1>1, <1>2, KeySet, Zenon DEF UndoOK, undone
  <2>2. \A j \in Ids : undo'[p][j].refs # 1
    BY <1>11, <2>1
  <2> QED
    BY <1>13, <2>2, Zenon DEF UndoOK
<1> QED
  BY <1>1, <1>2, <1>5, <1>6, <1>8, <1>9, <1>10, <1>11, <1>12, <1>13, <1>14, <1>15, <1>16,
     RefsStep, Zenon DEF at

(* The last one takes the set away; no holder of its key is left. *)
LEMMA DestroyHolds ==
  ASSUME RegionInv, NEW p \in Procs, o2cb_destroy_sem_set(p)
  PROVE  RegionInv'
<1>1. /\ TypeOK /\ CallOK(p) /\ MutexOK(p) /\ LastOK(p) /\ SetsOK /\ RefsOK
      /\ at(p, "rmid") /\ Inside(p) /\ proc[p].call = "leave" /\ ~Holds(p)
      /\ proc[p].r \in Regions /\ ~proc[p].failed /\ proc[p] \in Processes
  BY Zenon DEF RegionInv, o2cb_destroy_sem_set, CallOK, Inside, Leave, Holds, at, Waiting, TypeOK,
         Processes
<1>2. PICK i \in Ids, k \in Keys :
        i = proc[p].sem /\ k = keyOf(p) /\ set[i].keys = {k} /\ set[i].refs = 0
  BY <1>1, RegionAssumption, Zenon DEF MutexOK, LastOK, keyOf, at
<1> DEFINE y == [proc[p] EXCEPT !.pc = "exit", !.sem = NoSem]
<1>3. /\ set' = [set EXCEPT ![i] = NoSet] /\ proc' = [proc EXCEPT ![p] = y]
      /\ undo' = [q \in Procs |-> [undo[q] EXCEPT ![i] = NoUndo]]
      /\ UNCHANGED <<region, kmounts, starts, deaths>>
  BY <1>2, Zenon DEF o2cb_destroy_sem_set
<1>4. y \in Processes /\ y.pc = "exit" /\ y.kind = proc[p].kind /\ y.call = proc[p].call
  BY <1>1, Zenon DEF Processes, Pcs
<1>5. Only(p) /\ proc'[p] = y
  BY <1>1, <1>3, <1>4, Zenon DEF Only, TypeOK
<1> HIDE DEF y
<1>6. /\ set' \in [Ids -> [keys : SUBSET Keys, mutex : {0, 1}, refs : Nat]]
      /\ set'[i].keys = {} /\ \A j \in Ids : j # i => set'[j] = set[j]
  BY <1>1, <1>3, ConstFacts, Zenon DEF TypeOK, NoSet
<1>7. /\ undo' \in [Procs -> [Ids -> [mutex : {0, 1}, refs : {0, 1}]]]
      /\ \A q \in Procs : undo'[q][i] = NoUndo /\ \A j \in Ids : j # i => undo'[q][j] = undo[q][j]
  BY <1>1, <1>3, ConstFacts, Zenon DEF TypeOK
<1>8. NoUndo.mutex = 0 /\ NoUndo.refs = 0
  BY Zenon DEF NoUndo
<1>9. TypeOK' /\ SetsOK'
  <2>1. TypeOK'
    BY <1>1, <1>3, <1>5, <1>6, <1>7, Zenon DEF TypeOK, Only
  <2>2. SetsOK'
    BY <1>1, <1>6 DEF SetsOK
  <2> QED
    BY <2>1, <2>2, Zenon
<1>10. ~Inside(p)' /\ ~Holds(p)' /\ CallOK(p)' /\ LastOK(p)'
  BY <1>1, <1>4, <1>5, Zenon DEF Inside, Holds, Waiting, CallOK, LastOK, Begin, Leave
<1>11. Holders(k) = {} /\ Mounts(k) = {}
  <2>1. ASSUME NEW q \in Holders(k) PROVE FALSE
    <3>1. q \in Procs /\ Holds(q) /\ keyOf(q) = k
      BY Zenon DEF Holders
    <3> QED
      BY <1>2, <3>1, HolderCounts
  <2>2. ASSUME NEW r \in Mounts(k) PROVE FALSE
    <3>1. r \in Regions /\ kmounts[r] > 0 /\ key[r] = k
      BY Zenon DEF Mounts
    <3> QED
      BY <1>2, <3>1, MountCounts
  <2> QED
    BY <2>1, <2>2, Zenon
<1>12. \A x \in Keys : Holders(x)' \subseteq Holders(x) /\ Mounts(x)' = Mounts(x)
  BY <1>3, <1>5, <1>10, HoldersKept, MountsKept, Zenon
<1>13. RefsOK'
  <2> SUFFICES ASSUME NEW x \in Keys
               PROVE  /\ \A j \in Ids : set'[j].keys = {x} => Counted(Holders(x)', Mounts(x)', set'[j].refs)
                      /\ (\A j \in Ids : set'[j].keys # {x}) => Holders(x)' = {} /\ Mounts(x)' = {}
    BY Zenon DEF RefsOK
  <2>1. CASE x = k
    <3>1. \A j \in Ids : set'[j].keys # {k}
      BY <1>2, <1>6, KeySet
    <3> QED
      BY <1>11, <1>12, <2>1, <3>1, Zenon
  <2>2. CASE x # k
    <3>3. ASSUME NEW j \in Ids, set'[j].keys = {x} PROVE Counted(Holders(x)', Mounts(x)', set'[j].refs)
      <4>1. set'[j] = set[j]
        BY <1>6, <3>3, Zenon
      <4> QED
        BY <1>12, <3>3, <4>1, CountKept, Zenon
    <3>4. (\A j \in Ids : set'[j].keys # {x}) => \A j \in Ids : set[j].keys # {x}
      BY <1>2, <1>6, <2>2
    <3> QED
      BY <1>1, <1>12, <3>3, <3>4, Zenon DEF RefsOK
  <2> QED
    BY <2>1, <2>2, Zenon
<1>14. ASSUME NEW q \in Procs, q # p PROVE Relied(q) /\ Leaves(p, q)
  <2>1. /\ HolderOK(q) /\ (\A j \in Ids : set[j].refs \in Nat) /\ proc'[q] = proc[q]
        /\ MutexOK(q) /\ UndoOK(q)
    BY <1>5, <1>14, Zenon DEF RegionInv, TypeOK, Only
  <2>2. /\ Inside(q) \/ proc[q].pc \in {"down", "wait"} => proc[q].sem \in Ids
        /\ Inside(q) => proc[q].sem # i
    BY <1>1, <1>2, <1>14, <2>1, Zenon DEF MutexOK, RegionInv, Alone
  <2>3. Holds(q) \/ at(q, "get_ref") => There(proc[q].r)'
    BY <1>3, <2>1, Zenon DEF HolderOK, There
  <2>4. Holds(q) => keyOf(q) # k
    BY <1>11, Zenon DEF Holders
  <2>5. /\ Holds(q) => \A j \in Ids : set[j].keys = {keyOf(q)} => set'[j].keys = {keyOf(q)}
        /\ proc[q].pc \in {"down", "wait"} => set'[proc[q].sem].keys \in {{}, set[proc[q].sem].keys}
    BY <1>2, <1>6, <2>2, <2>4, Zenon
  <2>6. \A j \in Ids : /\ undo'[q][j].mutex = 1 => undo[q][j].mutex = 1
                       /\ undo'[q][j].refs = 1 => undo[q][j].refs = 1
    BY <1>7, <1>8
  <2>9. Inside(q) => /\ set'[proc[q].sem] = set[proc[q].sem]
                     /\ undo'[q][proc[q].sem] = undo[q][proc[q].sem]
                     /\ set[proc[q].sem].refs <= set[proc[q].sem].refs
    BY <1>6, <1>7, <2>1, <2>2
  <2>7. Relied(q)
    BY <2>3, <2>5, <2>6, <2>9, Zenon DEF Relied
  <2>8. Leaves(p, q)
    BY <1>3, <1>10, Zenon DEF Leaves
  <2> QED
    BY <2>7, <2>8, Zenon
<1>15. OwnOK(p)'
  <2>1. MutexOK(p)'
    <3>1. \A j \in Ids : undo'[p][j].mutex # 1
      BY <1>1, <1>2, <1>7, <1>8 DEF MutexOK
    <3> QED
      BY <1>4, <1>5, <1>10, <3>1, Zenon DEF MutexOK
  <2>2. \A j \in Ids : undo'[p][j].refs # 1
    BY <1>1, <1>7, <1>8 DEF RegionInv, UndoOK
  <2>3. UndoOK(p)'
    BY <1>10, <2>2, Zenon DEF UndoOK
  <2>4. HolderOK(p)'
    BY <1>4, <1>5, <1>10, Zenon DEF HolderOK, at
  <2> QED
    BY <1>10, <2>1, <2>3, <2>4, Zenon DEF OwnOK
<1>16. ASSUME NEW r \in Regions PROVE RegionOK(r)'
  <2>1. RegionOK(r)
    BY Zenon DEF RegionInv
  <2>2. \A x \in Procs : at(x, "attrs") => x # p /\ at(x, "attrs")' /\ proc'[x].r = proc[x].r
    BY <1>1, <1>5, Zenon DEF Only, at
  <2> QED
    BY <1>3, <2>1, <2>2, Zenon DEF RegionOK, There
<1> QED
  BY <1>5, <1>9, <1>10, <1>13, <1>14, <1>15, <1>16, Together

-----------------------------------------------------------------------------
(* Looking up the set. *)

(* semget() finds the set i of the key k, or makes it. *)
Got(p, k, i, t) ==
  /\ proc' = [proc EXCEPT ![p] = [proc[p] EXCEPT !.sem = i, !.pc = t]]
  /\ \/ set[i].keys = {k} /\ set' = set
     \/ /\ i \in free_ids /\ \A j \in Ids : k \notin set[j].keys
        /\ set' = [set EXCEPT ![i] = [NoSet EXCEPT !.keys = {k}]]

NoneGot(p, k) ==
  (\A j \in Ids : k \notin set[j].keys) /\ fail(p, "exit") /\ UNCHANGED set

LEMMA SemidChoices ==
  ASSUME RegionInv, NEW p \in Procs, o2cb_get_semid(p),
         NEW k \in Keys, k = keyOf(p), NEW t,
         t = IF proc[p].call = "info" THEN "info" ELSE "down"
  PROVE  (\E i \in Ids : Got(p, k, i, t)) \/ NoneGot(p, k)
<1> DEFINE found == {i \in Ids : k \in set[i].keys}
           got(i) == proc' = [proc EXCEPT ![p].sem = i, ![p].pc = t]
<1>1. TypeOK /\ SetsOK /\ proc[p] \in Processes
  BY Zenon DEF RegionInv, TypeOK
<1>2. \/ found # {} /\ got(CHOOSE i \in found : TRUE) /\ UNCHANGED set
      \/ /\ found = {} /\ free_ids # {}
         /\ LET i == CHOOSE i \in free_ids : TRUE IN
            got(i) /\ set' = [set EXCEPT ![i] = [NoSet EXCEPT !.keys = {k}]]
      \/ found = {} /\ fail(p, "exit") /\ UNCHANGED set
  BY Zenon DEF o2cb_get_semid, keyOf
<1>3. ASSUME NEW i, got(i)
      PROVE  proc' = [proc EXCEPT ![p] = [proc[p] EXCEPT !.sem = i, !.pc = t]]
  BY <1>1, <1>3, Zenon DEF TypeOK
<1>4. CASE found # {} /\ got(CHOOSE i \in found : TRUE) /\ UNCHANGED set
  <2>1. PICK i : i = CHOOSE j \in found : TRUE
    BY Zenon
  <2>2. i \in Ids /\ k \in set[i].keys
    BY <1>4, <2>1, Zenon
  <2>3. set[i].keys = {k}
    BY <1>1, <2>2, Zenon DEF SetsOK
  <2>4. proc' = [proc EXCEPT ![p] = [proc[p] EXCEPT !.sem = i, !.pc = t]]
    BY <1>3, <1>4, <2>1, Zenon
  <2> QED
    BY <1>4, <2>2, <2>3, <2>4, Zenon DEF Got
<1>5. CASE /\ found = {} /\ free_ids # {}
           /\ LET i == CHOOSE i \in free_ids : TRUE IN
              got(i) /\ set' = [set EXCEPT ![i] = [NoSet EXCEPT !.keys = {k}]]
  <2>1. PICK i : i = CHOOSE j \in free_ids : TRUE
    BY Zenon
  <2>2. i \in free_ids /\ i \in Ids /\ \A j \in Ids : k \notin set[j].keys
    BY <1>5, <2>1, Zenon DEF free_ids
  <2>3. set' = [set EXCEPT ![i] = [NoSet EXCEPT !.keys = {k}]]
    BY <1>5, <2>1, Zenon
  <2>4. proc' = [proc EXCEPT ![p] = [proc[p] EXCEPT !.sem = i, !.pc = t]]
    BY <1>3, <1>5, <2>1, Zenon
  <2> QED
    BY <2>2, <2>3, <2>4, Zenon DEF Got
<1>6. CASE found = {} /\ fail(p, "exit") /\ UNCHANGED set
  BY <1>6, Zenon DEF NoneGot
<1> QED
  BY <1>2, <1>4, <1>5, <1>6, Zenon

LEMMA NoSemidHolds ==
  ASSUME RegionInv, NEW p \in Procs, at(p, "lookup"),
         \A j \in Ids : keyOf(p) \notin set[j].keys,
         fail(p, "exit"), UNCHANGED <<set, undo, region, kmounts, starts, deaths>>
  PROVE  RegionInv'
<1>1. /\ TypeOK /\ CallOK(p) /\ RefsOK /\ proc[p].r \in Regions
      /\ starts' \in Nat /\ deaths' \in Nat /\ "exit" \in Pcs
  BY Zenon DEF RegionInv, TypeOK, Processes, Pcs
<1>2. keyOf(p) \in Keys
  BY <1>1, RegionAssumption, Zenon DEF keyOf
<1>3. ~Holds(p)
  <2>1. \A i \in Ids : set[i].keys # {keyOf(p)}
    BY Zenon
  <2>2. Holders(keyOf(p)) = {}
    BY <1>1, <1>2, <2>1, Zenon DEF RefsOK
  <2> QED
    BY <2>2, Zenon DEF Holders
<1>4. /\ Only(p) /\ Kept(p) /\ proc'[p].pc = "exit" /\ proc'[p].call = proc[p].call
      /\ proc'[p].sem = proc[p].sem /\ proc'[p].failed = TRUE
  BY <1>1, FailFields, Zenon
<1>5. ~Inside(p) /\ ~Inside(p)' /\ ~Holds(p)' /\ CallOK(p)' /\ LastOK(p)'
  BY <1>1, <1>4, Zenon DEF Inside, Holds, CallOK, LastOK, Begin, Leave, Waiting, at, Kept
<1> QED
  BY <1>1, <1>3, <1>4, <1>5, Moves, Zenon DEF at, Kept

LEMMA GotSemidHolds ==
  ASSUME RegionInv, NEW p \in Procs, o2cb_get_semid(p),
         NEW k \in Keys, k = keyOf(p), NEW t,
         t = IF proc[p].call = "info" THEN "info" ELSE "down", NEW i \in Ids, Got(p, k, i, t)
  PROVE  RegionInv'
<1>1. /\ TypeOK /\ CallOK(p) /\ MutexOK(p) /\ UndoOK(p) /\ SetsOK /\ RefsOK
      /\ at(p, "lookup") /\ ~Inside(p) /\ proc[p].r \in Regions /\ proc[p] \in Processes
      /\ ~proc[p].failed
  BY Zenon DEF RegionInv, o2cb_get_semid, Inside, Begin, Leave, at, TypeOK, Processes, CallOK
<1>2. k = keyOf(p)
  BY Zenon
<1>3. /\ t \in Pcs /\ t \in {"info", "down"} /\ (t = "down" <=> proc[p].call # "info")
      /\ proc[p].call \in {"begin", "leave", "info"}
  BY <1>1, Zenon DEF Pcs, Waiting, Processes
<1>4. proc' = [proc EXCEPT ![p] = [proc[p] EXCEPT !.sem = i, !.pc = t]]
  BY Zenon DEF Got
<1> DEFINE y == [proc[p] EXCEPT !.sem = i, !.pc = t]
<1>5. y \in Processes
  BY <1>1, <1>3, Zenon DEF Processes
<1>6. /\ y.pc = t /\ y.kind = proc[p].kind /\ y.r = proc[p].r /\ y.call = proc[p].call
      /\ y.sem = i /\ y.failed = proc[p].failed /\ y.hb_refs = proc[p].hb_refs
  BY <1>1, <1>3, Zenon DEF Processes
<1>7. Only(p) /\ proc'[p] = y
  BY <1>1, <1>4, <1>5 DEF Only, TypeOK
<1> HIDE DEF y
<1>8. /\ UNCHANGED <<undo, region, kmounts, starts, deaths>>
      /\ starts' \in Nat /\ deaths' \in Nat
  BY <1>1, Zenon DEF o2cb_get_semid, TypeOK
<1>9. ~Inside(p)' /\ (Holds(p)' <=> Holds(p)) /\ CallOK(p)' /\ LastOK(p)'
      /\ keyOf(p)' = k
  BY <1>1, <1>2, <1>3, <1>6, <1>7 DEF Inside, Holds, CallOK, LastOK, Begin, Leave, Waiting,
     at, keyOf
<1>10. CASE set[i].keys = {k} /\ set' = set
  BY <1>1, <1>2, <1>3, <1>6, <1>7, <1>8, <1>9, <1>10, Moves, Zenon DEF at, keyOf
<1>11. CASE /\ i \in free_ids /\ \A j \in Ids : k \notin set[j].keys
            /\ set' = [set EXCEPT ![i] = [NoSet EXCEPT !.keys = {k}]]
  <2>1. /\ set' \in [Ids -> [keys : SUBSET Keys, mutex : {0, 1}, refs : Nat]]
        /\ set'[i].keys = {k} /\ set'[i].refs = 0 /\ \A j \in Ids : j # i => set'[j] = set[j]
    BY <1>1, <1>11, ConstFacts DEF TypeOK, NoSet
  <2>2. set[i].keys = {} /\ \A q \in Procs : proc[q].sem # i
    BY <1>11, Zenon DEF free_ids, exists
  <2>3. TypeOK'
    BY <1>1, <1>7, <1>8, <2>1, Zenon DEF TypeOK, Only
  <2>4. SetsOK'
    <3>1. \A j \in Ids : j # i => set'[j].keys # {k}
      BY <1>11, <2>1, Zenon
    <3> QED
      BY <1>1, <2>1, <3>1 DEF SetsOK
  <2>5. \A x \in Keys : Holders(x)' \subseteq Holders(x) /\ Mounts(x)' = Mounts(x)
    BY <1>2, <1>6, <1>7, <1>8, <1>9, HoldersKept, MountsKept, Zenon DEF keyOf
  <2>6. Holders(k) = {} /\ Mounts(k) = {}
    BY <1>1, <1>11, Zenon DEF RefsOK
  <2>7. RefsOK'
    <3> SUFFICES ASSUME NEW x \in Keys
                 PROVE  /\ \A j \in Ids : set'[j].keys = {x} => Counted(Holders(x)', Mounts(x)', set'[j].refs)
                        /\ (\A j \in Ids : set'[j].keys # {x}) => Holders(x)' = {} /\ Mounts(x)' = {}
      BY Zenon DEF RefsOK
    <3>1. CASE x = k
      <4>1. Holders(k)' = {} /\ Mounts(k)' = {}
        BY <2>5, <2>6, Zenon
      <4>3. \A j \in Ids : set'[j].keys = {k} => j = i
        BY <1>11, <2>1, Zenon
      <4> QED
        BY <2>1, <3>1, <4>1, <4>3, CountedNone, Zenon
    <3>2. CASE x # k
      <4>3. ASSUME NEW j \in Ids, set'[j].keys = {x} PROVE Counted(Holders(x)', Mounts(x)', set'[j].refs)
        <5>1. set'[j] = set[j]
          BY <2>1, <3>2, <4>3, Zenon
        <5> QED
          BY <2>5, <4>3, <5>1, CountKept, Zenon
      <4>4. (\A j \in Ids : set'[j].keys # {x}) => \A j \in Ids : set[j].keys # {x}
        BY <2>1, <2>2, <3>2, Zenon
      <4> QED
        BY <1>1, <2>5, <4>3, <4>4, Zenon DEF RefsOK
    <3> QED
      BY <3>1, <3>2, Zenon
  <2>8. ASSUME NEW q \in Procs, q # p PROVE Relied(q) /\ Leaves(p, q)
    <3>1. /\ HolderOK(q) /\ (\A j \in Ids : set[j].refs \in Nat) /\ proc'[q] = proc[q]
          /\ MutexOK(q) /\ UndoOK(q)
      BY <1>1, <1>7, <2>8 DEF RegionInv, TypeOK, Only
    <3>2. Inside(q) \/ proc[q].pc \in {"down", "wait"} =>
            /\ proc[q].sem \in Ids /\ set'[proc[q].sem] = set[proc[q].sem]
            /\ set[proc[q].sem].refs <= set[proc[q].sem].refs
      BY <2>1, <2>2, <3>1 DEF MutexOK
    <3>3. Holds(q) \/ at(q, "get_ref") => There(proc[q].r)'
      BY <1>8, <3>1, Zenon DEF HolderOK, There
    <3>4. \A j \in Ids : set[j].keys = {keyOf(q)} => set'[j].keys = {keyOf(q)}
      BY <2>1, <2>2, Zenon
    <3>5. Relied(q)
      BY <1>8, <3>2, <3>3, <3>4, Zenon DEF Relied
    <3>6. Leaves(p, q)
      BY <1>6, <1>7, <1>8, <1>9, <3>1 DEF Leaves, HolderOK
    <3> QED
      BY <3>5, <3>6, Zenon
  <2>9. OwnOK(p)'
    <3>1. MutexOK(p)'
      BY <1>1, <1>3, <1>6, <1>7, <1>8, <1>9, <2>1 DEF MutexOK
    <3>2. ~Holds(p)
      BY <1>2, <2>6, Zenon DEF Holders
    <3>3. UndoOK(p)'
      BY <1>1, <1>8, <1>9, <3>2, Zenon DEF UndoOK
    <3>4. HolderOK(p)'
      BY <1>3, <1>6, <1>7, <1>9, <3>2, Zenon DEF HolderOK, at
    <3> QED
      BY <1>9, <3>1, <3>3, <3>4, Zenon DEF OwnOK
  <2>10. ASSUME NEW r \in Regions PROVE RegionOK(r)'
    <3>1. RegionOK(r)
      BY Zenon DEF RegionInv
    <3>2. \A x \in Procs : at(x, "attrs") => x # p /\ at(x, "attrs")' /\ proc'[x].r = proc[x].r
      BY <1>1, <1>7, Zenon DEF Only, at
    <3> QED
      BY <1>8, <3>1, <3>2, Zenon DEF RegionOK, There
  <2> QED
    BY <1>7, <1>9, <2>3, <2>4, <2>7, <2>8, <2>9, <2>10, Together
<1> QED
  BY <1>4, <1>10, <1>11, Zenon DEF Got

LEMMA GetSemidHolds ==
  ASSUME RegionInv, NEW p \in Procs, o2cb_get_semid(p)
  PROVE  RegionInv'
<1>1. PICK k \in Keys : k = keyOf(p)
  BY RegionAssumption, Zenon DEF keyOf, RegionInv, TypeOK, Processes
<1>2. PICK t : t = IF proc[p].call = "info" THEN "info" ELSE "down"
  BY Zenon
<1>3. CASE \E i \in Ids : Got(p, k, i, t)
  BY <1>1, <1>2, <1>3, GotSemidHolds, Zenon
<1>4. CASE NoneGot(p, k)
  BY <1>1, <1>4, NoSemidHolds, Zenon DEF NoneGot, o2cb_get_semid
<1> QED
  BY <1>1, <1>2, <1>3, <1>4, SemidChoices, Zenon

-----------------------------------------------------------------------------
(* Programs that end, mount and umount. *)

LEMMA GoneHolds ==
  ASSUME RegionInv, NEW p \in Procs, gone(p), deaths' \in Nat
  PROVE  RegionInv'
<1>1. /\ TypeOK /\ MutexOK(p) /\ UndoOK(p) /\ SetsOK /\ RefsOK
  BY Zenon DEF RegionInv
<1>2. /\ set' = [i \in Ids |-> given_back(p, i)]
      /\ undo' = [undo EXCEPT ![p] = [i \in Ids |-> NoUndo]]
      /\ proc' = [proc EXCEPT ![p] = Off]
      /\ region' = left(p) /\ UNCHANGED <<kmounts, starts>>
  BY Zenon DEF gone
<1>l. /\ region' \in [Regions -> {"none", "made", "live", "left"}]
      /\ at(p, "attrs") => region'[proc[p].r] = "left"
      /\ \A x \in Regions : \/ region'[x] = region[x]
                            \/ region'[x] = "left" /\ at(p, "attrs") /\ proc[p].r = x
  <2>1. proc[p].r \in Regions
    BY <1>1, Zenon DEF TypeOK, Processes
  <2> QED
    BY <1>1, <1>2, <2>1, Zenon DEF TypeOK, left
<1>3. /\ Only(p) /\ proc'[p] = Off /\ Off.pc = "off" /\ Off.call = "begin"
      /\ Off.kind = "tool" /\ ~Off.failed
  BY <1>1, <1>2, ConstFacts, Zenon DEF Only, TypeOK
<1>4. ~Inside(p)' /\ ~Holds(p)' /\ CallOK(p)' /\ LastOK(p)'
  BY <1>3, Zenon DEF Inside, Holds, CallOK, LastOK, Begin, Leave, Waiting
<1>5. /\ undo' \in [Procs -> [Ids -> [mutex : {0, 1}, refs : {0, 1}]]]
      /\ \A q \in Procs : q # p => undo'[q] = undo[q]
      /\ \A i \in Ids : undo'[p][i] = NoUndo
  BY <1>1, <1>2, ConstFacts, Zenon DEF TypeOK
<1>6. NoUndo.mutex = 0 /\ NoUndo.refs = 0
  BY Zenon DEF NoUndo
<1>7. ASSUME NEW i \in Ids
      PROVE  /\ undo[p][i].mutex = 0 \/ (undo[p][i].mutex = 1 /\ set[i].mutex = 1)
             /\ undo[p][i].refs = 0 \/ (undo[p][i].refs = 1 /\ set[i].refs >= 1)
  <2>1. undo[p][i].mutex \in {0, 1} /\ undo[p][i].refs \in {0, 1}
    BY <1>1 DEF TypeOK
  <2>2. undo[p][i].mutex = 1 => set[i].mutex = 1
    BY <1>1, Zenon DEF MutexOK
  <2>3. undo[p][i].refs = 1 => set[i].refs >= 1
    BY <1>1, HolderCounts, Zenon DEF UndoOK
  <2> QED
    BY <2>1, <2>2, <2>3, Zenon
<1>8. ASSUME NEW i \in Ids
      PROVE  /\ set'[i] \in [keys : SUBSET Keys, mutex : {0, 1}, refs : Nat]
             /\ set'[i].keys = set[i].keys /\ set'[i].mutex = set[i].mutex - undo[p][i].mutex
             /\ set'[i].refs = set[i].refs - undo[p][i].refs
  <2>1. /\ set[i] \in [keys : SUBSET Keys, mutex : {0, 1}, refs : Nat]
        /\ set'[i] = [set[i] EXCEPT !.mutex = set[i].mutex - undo[p][i].mutex,
                                    !.refs = set[i].refs - undo[p][i].refs]
    BY <1>1, <1>2, Zenon DEF TypeOK, given_back
  <2>2. set[i].mutex - undo[p][i].mutex \in {0, 1} /\ set[i].refs - undo[p][i].refs \in Nat
    <3>1. set[i].mutex \in {0, 1} /\ set[i].refs \in Nat
      BY <2>1, Zenon
    <3> QED
      BY <1>7, <3>1
  <2> QED
    BY <2>1, <2>2, Zenon
<1>9. TypeOK' /\ SetsOK'
  <2>1. set' \in [Ids -> [keys : SUBSET Keys, mutex : {0, 1}, refs : Nat]]
    BY <1>2, <1>8, Zenon
  <2>2. TypeOK'
    BY <1>1, <1>2, <1>l, <1>3, <1>5, <2>1, Zenon DEF TypeOK, Only
  <2>3. SetsOK'
    BY <1>1, <1>8 DEF SetsOK
  <2> QED
    BY <2>2, <2>3, Zenon
<1>10. \A x \in Keys : Holders(x)' \subseteq Holders(x) /\ Mounts(x)' = Mounts(x)
  BY <1>2, <1>3, <1>4, HoldersKept, MountsKept, Zenon
<1>11. RefsOK'
  <2> SUFFICES ASSUME NEW x \in Keys
               PROVE  /\ \A j \in Ids : set'[j].keys = {x} => Counted(Holders(x)', Mounts(x)', set'[j].refs)
                      /\ (\A j \in Ids : set'[j].keys # {x}) => Holders(x)' = {} /\ Mounts(x)' = {}
    BY Zenon DEF RefsOK
  <2>1. ASSUME NEW j \in Ids, set'[j].keys = {x} PROVE Counted(Holders(x)', Mounts(x)', set'[j].refs)
    <3>1. /\ set[j].keys = {x} /\ set'[j].refs = set[j].refs - undo[p][j].refs
          /\ set[j].refs \in Nat
      BY <1>1, <1>8, <2>1, Zenon DEF TypeOK
    <3>3. CASE undo[p][j].refs = 0
      BY <1>10, <3>1, <3>3, CountKept
    <3>4. CASE undo[p][j].refs = 1
      <4>1. Holds(p) /\ keyOf(p) = x
        BY <1>1, <3>1, <3>4, Zenon DEF UndoOK
      <4>2. p \in Holders(x) /\ p \notin Holders(x)'
        BY <1>4, <4>1, Zenon DEF Holders
      <4>3. Counted(Holders(x)', Mounts(x), set[j].refs - 1)
        BY <1>10, <3>1, <4>2, CountOf, CountedLess, Zenon
      <4> QED
        BY <1>10, <3>1, <3>4, <4>3, Zenon
    <3> QED
      BY <1>7, <3>3, <3>4, Zenon
  <2>2. (\A j \in Ids : set'[j].keys # {x}) => Holders(x) = {} /\ Mounts(x) = {}
    BY <1>1, <1>8, Zenon DEF RefsOK
  <2> QED
    BY <1>10, <2>1, <2>2, Zenon
<1>12. ASSUME NEW q \in Procs, q # p PROVE Relied(q) /\ Leaves(p, q)
  <2>1. /\ HolderOK(q) /\ (\A j \in Ids : set[j].refs \in Nat /\ set[j].mutex \in {0, 1})
        /\ proc'[q] = proc[q] /\ MutexOK(q) /\ UndoOK(q)
    BY <1>1, <1>3, <1>12, Zenon DEF RegionInv, TypeOK, Only
  <2>2. Inside(q) \/ proc[q].pc \in {"down", "wait"} => proc[q].sem \in Ids
    BY <2>1, Zenon DEF MutexOK
  <2>3. Inside(q) => undo[p][proc[q].sem].mutex = 0
    BY <1>1, <1>7, <1>12, <2>2, Zenon DEF MutexOK, RegionInv, Alone
  <2>4. Inside(q) => /\ set'[proc[q].sem].mutex = set[proc[q].sem].mutex
                     /\ set'[proc[q].sem].refs <= set[proc[q].sem].refs
    <3>1. ASSUME Inside(q), NEW j \in Ids, j = proc[q].sem
          PROVE  set'[j].mutex = set[j].mutex /\ set'[j].refs <= set[j].refs
      <4>1. /\ set'[j].mutex = set[j].mutex - undo[p][j].mutex /\ undo[p][j].mutex = 0
            /\ set'[j].refs = set[j].refs - undo[p][j].refs
            /\ undo[p][j].refs \in {0, 1}
        BY <1>7, <1>8, <2>3, <3>1, Zenon
      <4>2. set[j].mutex \in Int /\ set[j].refs \in Int
        BY <2>1
      <4> QED
        BY <4>1, <4>2
    <3> QED
      BY <2>2, <3>1, Zenon
  <2>5. Holds(q) \/ at(q, "get_ref") => There(proc[q].r)'
    <3>1. proc[q].r \in Regions
      BY <1>1, Zenon DEF TypeOK, Processes
    <3> QED
      BY <1>l, <2>1, <3>1, Zenon DEF HolderOK, There
  <2>6. Relied(q)
    BY <1>5, <1>8, <1>12, <2>2, <2>4, <2>5, Zenon DEF Relied
  <2>7. Leaves(p, q)
    <3>1. ASSUME at(q, "attrs") PROVE region'[proc[q].r] = region[proc[q].r]
      <4>1. proc[q].r \in Regions /\ Inside(q)
        BY <1>1, <3>1, Zenon DEF TypeOK, Processes, Inside, at, Begin
      <4>2. ~(at(p, "attrs") /\ proc[p].r = proc[q].r)
        BY <1>12, <4>1, InsideAlone, Zenon DEF Inside, at, Begin, keyOf
      <4> QED
        BY <1>l, <4>1, <4>2, Zenon
    <3> QED
      BY <1>2, <1>4, <3>1, Zenon DEF Leaves
  <2> QED
    BY <2>6, <2>7, Zenon
<1>13. OwnOK(p)'
  BY <1>3, <1>4, <1>5, <1>6 DEF OwnOK, MutexOK, UndoOK, HolderOK, at
<1>14. ASSUME NEW r \in Regions PROVE RegionOK(r)'
  <2>1. RegionOK(r)
    BY Zenon DEF RegionInv
  <2>2. \A x \in Procs : at(x, "attrs") =>
          x = p \/ (at(x, "attrs")' /\ proc'[x].r = proc[x].r)
    BY <1>3, Zenon DEF Only, at
  <2>3. kmounts'[r] > 0 => There(r)'
    BY <1>2, <1>l, <2>1, Zenon DEF RegionOK, There
  <2>4. region'[r] = "made" => \E x \in Procs : at(x, "attrs")' /\ proc'[x].r = r
    BY <1>l, <2>1, <2>2, Zenon DEF RegionOK
  <2> QED
    BY <2>3, <2>4, Zenon DEF RegionOK
<1> QED
  BY <1>3, <1>4, <1>9, <1>11, <1>12, <1>13, <1>14, Together, Zenon

(* The reference of the mount becomes that of the filesystem. *)
LEMMA MountHolds ==
  ASSUME RegionInv, NEW p \in Procs, at(p, "syscall"), goto(p, "exit"),
         kmounts' = [kmounts EXCEPT ![proc[p].r] = @ + 1],
         UNCHANGED <<set, undo, region, starts, deaths>>
  PROVE  RegionInv'
<1>1. /\ TypeOK /\ CallOK(p) /\ MutexOK(p) /\ UndoOK(p) /\ HolderOK(p) /\ SetsOK
      /\ ~Inside(p) /\ Holds(p) /\ "exit" \in Pcs
  BY Zenon DEF RegionInv, Inside, Begin, Leave, at, Holds, Pcs
<1>2. PICK r \in Regions, k \in Keys : r = proc[p].r /\ k = keyOf(p) /\ k = key[r]
  BY <1>1, RegionAssumption, Zenon DEF keyOf, TypeOK, Processes
<1>3. /\ Only(p) /\ Kept(p) /\ proc'[p].pc = "exit" /\ proc'[p].call = proc[p].call
  BY <1>1, GotoFields, Zenon
<1>4. ~Inside(p)' /\ ~Holds(p)' /\ CallOK(p)' /\ LastOK(p)'
  BY <1>1, <1>3, Zenon DEF Inside, Holds, CallOK, LastOK, Begin, Leave, Waiting, at, Kept
<1>5. /\ kmounts' \in [Regions -> Nat] /\ kmounts'[r] > 0
      /\ \A x \in Regions : x # r => kmounts'[x] = kmounts[x]
  BY <1>1, <1>2 DEF TypeOK
<1>6. TypeOK' /\ SetsOK'
  BY <1>1, <1>3, <1>5, Zenon DEF TypeOK, SetsOK, Only
<1>7. PICK i \in Ids : set[i].keys = {k}
  BY <1>1, <1>2, HolderCounts, Zenon
<1>8. RefsOK'
  <2>1. \A x \in Keys : Holders(x)' \subseteq Holders(x)
    BY <1>3, <1>4, HoldersKept, Zenon
  <2>2. p \in Holders(k) /\ p \notin Holders(k)'
    BY <1>1, <1>2, <1>4, Zenon DEF Holders
  <2>3. set[i].refs - 1 \in Nat /\ Counted(Holders(k)', Mounts(k), set[i].refs - 1)
    BY <1>7, <2>1, <2>2, CountOf, CountedLess, Zenon
  <2>4. /\ Mounts(k)' \subseteq Mounts(k) \cup {r}
        /\ \A x \in Keys : x # k => Mounts(x)' \subseteq Mounts(x)
    BY <1>2, <1>5, Zenon DEF Mounts
  <2>5. Counted(Mounts(k)', Holders(k)', (set[i].refs - 1) + 1)
    BY <2>3, <2>4, CountedTurned, CountedMore, Zenon
  <2>6. set[i].refs \in Nat
    BY <1>7, CountOf, Zenon
  <2>7. Counted(Holders(k)', Mounts(k)', set[i].refs)
    BY <2>5, <2>6, CountedTurned
  <2>8. set' = set /\ \A j \in Ids : set'[j].keys = set[j].keys /\ (j # i => set'[j].refs = set[j].refs)
    BY Zenon
  <2> QED
    BY <1>7, <2>1, <2>4, <2>7, <2>8, RefsMoved, Zenon
<1>9. There(r)
  BY <1>1, <1>2, Zenon DEF HolderOK
<1>10. ASSUME NEW q \in Procs, q # p PROVE Relied(q) /\ Leaves(p, q)
  <2>1. /\ HolderOK(q) /\ (\A j \in Ids : set[j].refs \in Nat) /\ proc'[q] = proc[q]
        /\ MutexOK(q) /\ proc[q].r \in Regions
    BY <1>1, <1>3, <1>10, Zenon DEF RegionInv, TypeOK, Only, Processes
  <2>2. Inside(q) => proc[q].sem \in Ids /\ set[proc[q].sem].refs <= set[proc[q].sem].refs
    BY <2>1 DEF MutexOK
  <2>3. Holds(q) \/ at(q, "get_ref") => There(proc[q].r)'
    BY <2>1, Zenon DEF HolderOK, There
  <2>4. set' = set /\ undo' = undo /\ region' = region
    BY Zenon
  <2>5. Relied(q)
    BY <2>2, <2>3, <2>4, Zenon DEF Relied
  <2>6. at(q, "attrs") => proc[q].r # r
    BY <1>1, <1>2, <2>1, Zenon DEF HolderOK
  <2>7. Leaves(p, q)
    BY <1>4, <1>5, <2>1, <2>4, <2>6, Zenon DEF Leaves
  <2> QED
    BY <2>5, <2>7, Zenon
<1>11. OwnOK(p)'
  <2>1. \A j \in Ids : undo[p][j].refs # 1 /\ undo[p][j].mutex # 1
    BY <1>1, Zenon DEF UndoOK, MutexOK, CallOK, at
  <2>2. MutexOK(p)' /\ UndoOK(p)' /\ HolderOK(p)'
    BY <1>3, <1>4, <2>1, Zenon DEF MutexOK, UndoOK, HolderOK, at
  <2> QED
    BY <1>4, <2>2, Zenon DEF OwnOK
<1>12. ASSUME NEW x \in Regions PROVE RegionOK(x)'
  <2>1. RegionOK(x)
    BY Zenon DEF RegionInv
  <2>2. \A q \in Procs : at(q, "attrs") => q # p /\ at(q, "attrs")' /\ proc'[q].r = proc[q].r
    BY <1>3, Zenon DEF Only, at
  <2>3. kmounts'[x] > 0 => There(x)
    BY <1>5, <1>9, <2>1, Zenon DEF RegionOK
  <2> QED
    BY <2>1, <2>2, <2>3, Zenon DEF RegionOK, There
<1> QED
  BY <1>3, <1>4, <1>6, <1>8, <1>10, <1>11, <1>12, Together

(* One of several mounts goes: nothing is dropped. *)
LEMMA SomeUmountHolds ==
  ASSUME RegionInv, NEW r \in Regions, kmounts[r] > 1,
         kmounts' = [kmounts EXCEPT ![r] = @ - 1],
         UNCHANGED <<set, undo, proc, region, starts, deaths>>
  PROVE  RegionInv'
<1>1. /\ kmounts' \in [Regions -> Nat]
      /\ \A x \in Regions : (kmounts'[x] > 0 <=> kmounts[x] > 0) /\ (kmounts'[x] = 0 <=> kmounts[x] = 0)
  BY DEF RegionInv, TypeOK
<1>2. \A q \in Procs : (Inside(q)' <=> Inside(q)) /\ (Holds(q)' <=> Holds(q)) /\ keyOf(q)' = keyOf(q)
  BY Zenon DEF Inside, Holds, keyOf
<1>3. TypeOK' /\ SetsOK' /\ Alone'
  BY <1>1, <1>2, Zenon DEF RegionInv, TypeOK, SetsOK, Alone
<1>4. RefsOK'
  <2>1. \A k \in Keys : Holders(k)' \subseteq Holders(k) /\ Mounts(k)' \subseteq Mounts(k)
    BY <1>1, <1>2, Zenon DEF Holders, Mounts
  <2> QED
    BY <2>1, RefsKept, Zenon
<1>5. ASSUME NEW q \in Procs
      PROVE  CallOK(q)' /\ MutexOK(q)' /\ UndoOK(q)' /\ LastOK(q)' /\ HolderOK(q)'
  <2>1. CallOK(q) /\ MutexOK(q) /\ UndoOK(q) /\ LastOK(q) /\ HolderOK(q) /\ proc[q].r \in Regions
    BY Zenon DEF RegionInv, TypeOK, Processes
  <2>2. CallOK(q)' /\ MutexOK(q)' /\ UndoOK(q)' /\ LastOK(q)'
    BY <1>2, <2>1, Zenon DEF CallOK, MutexOK, UndoOK, LastOK
  <2>3. HolderOK(q)'
    BY <1>1, <1>2, <2>1, Zenon DEF HolderOK, There, at
  <2> QED
    BY <2>2, <2>3, Zenon
<1>6. ASSUME NEW x \in Regions PROVE RegionOK(x)'
  <2>1. RegionOK(x)
    BY Zenon DEF RegionInv
  <2> QED
    BY <1>1, <2>1, Zenon DEF RegionOK, There, at
<1> QED
  BY <1>3, <1>4, <1>5, <1>6, Zenon DEF RegionInv

(* The last one goes: its reference becomes that of ocfs2_hb_ctl -K. *)
LEMMA LastUmountHolds ==
  ASSUME RegionInv, NEW r \in Regions, kmounts[r] > 0, ~(kmounts[r] > 1),
         kmounts' = [kmounts EXCEPT ![r] = @ - 1],
         NEW p \in Procs, at(p, "off"), proc' = [proc EXCEPT ![p] = started("umount", r)],
         UNCHANGED <<set, undo, region, starts, deaths>>
  PROVE  RegionInv'
<1>1. /\ TypeOK /\ MutexOK(p) /\ UndoOK(p) /\ SetsOK /\ RegionOK(r) /\ RefsOK
      /\ ~Inside(p) /\ ~Holds(p)
  BY Zenon DEF RegionInv, Inside, Begin, Leave, at, Holds, Waiting
<1>2. PICK k \in Keys : k = key[r]
  BY RegionAssumption, Zenon
<1>3. /\ Only(p) /\ proc'[p].pc = "lookup" /\ proc'[p].kind = "umount" /\ proc'[p].r = r
      /\ ~proc'[p].failed /\ proc'[p].call = "leave"
  <2> DEFINE y == started("umount", r)
  <2>1. /\ y \in Processes /\ y.pc = "lookup" /\ y.kind = "umount" /\ y.r = r
        /\ ~y.failed /\ y.call = "leave"
    BY StartedFields
  <2> HIDE DEF y
  <2>2. proc' = [proc EXCEPT ![p] = y]
    BY Zenon DEF y
  <2> QED
    BY <1>1, <2>1, <2>2 DEF Only, TypeOK
<1>4. ~Inside(p)' /\ Holds(p)' /\ CallOK(p)' /\ LastOK(p)' /\ keyOf(p)' = k
  BY <1>2, <1>3, Zenon DEF Inside, Holds, CallOK, LastOK, Begin, Leave, Waiting, keyOf
<1>5. /\ kmounts' \in [Regions -> Nat] /\ kmounts'[r] = 0
      /\ \A x \in Regions : x # r => kmounts'[x] = kmounts[x]
  BY <1>1 DEF TypeOK
<1>6. TypeOK' /\ SetsOK'
  BY <1>1, <1>3, <1>5 DEF TypeOK, SetsOK, Only
<1>7. PICK i \in Ids : set[i].keys = {k}
  <2>1. r \in Mounts(k)
    BY <1>2, Zenon DEF Mounts
  <2> QED
    BY <1>1, <2>1, Zenon DEF RefsOK
<1>8. RefsOK'
  <2>1. /\ \A x \in Keys : x # k => Holders(x)' \subseteq Holders(x)
        /\ Holders(k)' \subseteq Holders(k) \cup {p}
    BY <1>3, <1>4, Zenon DEF Holders, Holds, keyOf, Only
  <2>3. \A x \in Keys : Mounts(x)' \subseteq Mounts(x)
    BY <1>5, Zenon DEF Mounts
  <2>4. r \in Mounts(k) /\ r \notin Mounts(k)'
    BY <1>2, <1>5 DEF Mounts
  <2>2. set[i].refs \in Nat /\ Counted(Mounts(k), Holders(k), set[i].refs)
    BY <1>7, CountOf, CountedTurned, Zenon
  <2>5. set[i].refs - 1 \in Nat /\ Counted(Mounts(k)', Holders(k), set[i].refs - 1)
    BY <2>2, <2>3, <2>4, CountedLess, Zenon
  <2>6. Counted(Holders(k)', Mounts(k)', (set[i].refs - 1) + 1)
    BY <2>1, <2>5, CountedTurned, CountedMore, Zenon
  <2>7. Counted(Holders(k)', Mounts(k)', set[i].refs)
    BY <2>2, <2>6
  <2>8. set' = set /\ \A j \in Ids : set'[j].keys = set[j].keys /\ (j # i => set'[j].refs = set[j].refs)
    BY Zenon
  <2> QED
    BY <1>7, <2>1, <2>3, <2>7, <2>8, RefsMoved, Zenon
<1>9. There(r)
  BY <1>1, Zenon DEF RegionOK
<1>10. ASSUME NEW q \in Procs, q # p PROVE Relied(q) /\ Leaves(p, q)
  <2>1. /\ HolderOK(q) /\ (\A j \in Ids : set[j].refs \in Nat) /\ proc'[q] = proc[q]
        /\ MutexOK(q) /\ proc[q].r \in Regions
    BY <1>1, <1>3, <1>10, Zenon DEF RegionInv, TypeOK, Only, Processes
  <2>2. Inside(q) => proc[q].sem \in Ids /\ set[proc[q].sem].refs <= set[proc[q].sem].refs
    BY <2>1 DEF MutexOK
  <2>3. Holds(q) \/ at(q, "get_ref") => There(proc[q].r)'
    BY <2>1, Zenon DEF HolderOK, There
  <2>4. set' = set /\ undo' = undo /\ region' = region
    BY Zenon
  <2>5. Relied(q)
    BY <2>2, <2>3, <2>4, Zenon DEF Relied
  <2>6. at(q, "attrs") => proc[q].r # r
    BY <2>1 DEF HolderOK
  <2>7. Leaves(p, q)
    BY <1>3, <1>5, <2>1, <2>4, <2>6, Zenon DEF Leaves
  <2> QED
    BY <2>5, <2>7, Zenon
<1>11. OwnOK(p)'
  <2>1. \A j \in Ids : undo[p][j].refs # 1 /\ undo[p][j].mutex # 1
    BY <1>1, Zenon DEF UndoOK, MutexOK
  <2>2. MutexOK(p)' /\ UndoOK(p)'
    BY <1>3, <1>4, <2>1, Zenon DEF MutexOK, UndoOK
  <2>3. HolderOK(p)'
    BY <1>3, <1>9, Zenon DEF HolderOK, There, at
  <2> QED
    BY <1>4, <2>2, <2>3, Zenon DEF OwnOK
<1>12. ASSUME NEW x \in Regions PROVE RegionOK(x)'
  <2>1. RegionOK(x)
    BY Zenon DEF RegionInv
  <2>2. \A q \in Procs : at(q, "attrs") => q # p /\ at(q, "attrs")' /\ proc'[q].r = proc[q].r
    BY <1>3, Zenon DEF Only, at
  <2>3. kmounts'[x] > 0 => There(x)
    BY <1>5, <1>9, <2>1, Zenon DEF RegionOK
  <2> QED
    BY <2>1, <2>2, <2>3, Zenon DEF RegionOK, There
<1> QED
  BY <1>3, <1>4, <1>6, <1>8, <1>10, <1>11, <1>12, Together, Zenon

-----------------------------------------------------------------------------
LEMMA InitHolds == Init => RegionInv
<1> SUFFICES ASSUME Init PROVE RegionInv
  BY Zenon
<1>1. /\ \A i \in Ids : set[i] = NoSet
      /\ \A p \in Procs : proc[p] = Off /\ \A i \in Ids : undo[p][i] = NoUndo
      /\ \A r \in Regions : region[r] = "none" /\ kmounts[r] = 0
  BY Zenon DEF Init
<1>2. NoSet.keys = {} /\ NoUndo.mutex = 0 /\ NoUndo.refs = 0
  BY Zenon DEF NoSet, NoUndo
<1>3. TypeOK
  BY ConstFacts, Zenon DEF Init, TypeOK
<1>4. \A p \in Procs : ~Inside(p) /\ ~Holds(p) /\ proc[p].pc = "off"
  BY <1>1, ConstFacts, Zenon DEF Inside, Holds, Begin, Leave, Waiting
<1>5. SetsOK /\ Alone
  BY <1>1, <1>2, <1>4, Zenon DEF SetsOK, Alone
<1>6. RefsOK
  <2>1. \A k \in Keys : Holders(k) = {} /\ Mounts(k) = {}
    <3>1. \A r \in Regions : ~(kmounts[r] > 0)
      BY <1>1
    <3> QED
      BY <1>4, <3>1, Zenon DEF Holders, Mounts
  <2>2. \A k \in Keys, i \in Ids : set[i].keys # {k}
    BY <1>1, <1>2, Zenon
  <2> QED
    BY <2>1, <2>2, Zenon DEF RefsOK
<1>7. \A p \in Procs : CallOK(p) /\ MutexOK(p) /\ UndoOK(p) /\ LastOK(p) /\ HolderOK(p)
  <2> SUFFICES ASSUME NEW p \in Procs
               PROVE  CallOK(p) /\ MutexOK(p) /\ UndoOK(p) /\ LastOK(p) /\ HolderOK(p)
    BY Zenon
  <2>1. /\ proc[p].pc = "off" /\ proc[p].call = "begin" /\ proc[p].kind = "tool"
        /\ ~proc[p].failed /\ ~Inside(p) /\ ~Holds(p)
    BY <1>1, <1>4, ConstFacts, Zenon
  <2>2. \A i \in Ids : undo[p][i].mutex = 0 /\ undo[p][i].refs = 0
    BY <1>1, <1>2, Zenon
  <2>3. MutexOK(p) /\ UndoOK(p)
    BY <2>1, <2>2 DEF MutexOK, UndoOK
  <2> QED
    BY <2>1, <2>3, Zenon DEF CallOK, LastOK, HolderOK, at, Begin, Leave
<1>8. \A r \in Regions : RegionOK(r)
  BY <1>1 DEF RegionOK
<1> QED
  BY <1>3, <1>5, <1>6, <1>7, <1>8, Zenon DEF RegionInv

LEMMA StepHolds ==
  ASSUME RegionInv, NEW p \in Procs, Step(p)
  PROVE  RegionInv'
<1>1. CASE o2cb_get_semid(p)
  BY <1>1, GetSemidHolds, Zenon
<1>2. CASE o2cb_mutex_down(p)
  <2>1. UNCHANGED <<region, kmounts, starts, deaths>> /\ at(p, "down")
    BY <1>2, Zenon DEF o2cb_mutex_down
  <2>2. CASE mutex_free(proc[p].sem) /\ take(p, proc[p].sem)
    BY <2>1, <2>2, TakeHolds, Zenon
  <2>3. CASE UNCHANGED <<set, undo>> /\ (goto(p, "wait") \/ goto(p, "lookup"))
    BY <2>1, <2>3, WaitHolds, Zenon
  <2>4. CASE UNCHANGED <<set, undo>> /\ ~exists(proc[p].sem) /\ fail(p, "exit")
    BY <2>1, <2>4, WaitHolds, Zenon
  <2> QED
    BY <1>2, <2>2, <2>3, <2>4, Zenon DEF o2cb_mutex_down
<1>3. CASE o2cb_mutex_up(p)
  BY <1>3, UpHolds, Zenon
<1>4. CASE o2cb_create_heartbeat_region(p) \/ o2cb_set_region_attribute(p) \/ o2cb_get_ref(p)
  BY <1>4, MkdirHolds, AttributeHolds, GetRefHolds, Zenon
<1>5. CASE o2cb_get_num_refs(p) \/ o2cb_drop_ref(p) \/ o2cb_remove_heartbeat_region(p)
           \/ o2cb_destroy_sem_set(p)
  BY <1>5, NumRefsHolds, DropHolds, RmdirHolds, DestroyHolds, Zenon
<1>6. CASE Syscall(p)
  <2>1. CASE /\ kmounts' = [kmounts EXCEPT ![proc[p].r] = @ + 1] /\ goto(p, "exit")
    BY <1>6, <2>1, MountHolds, Zenon DEF Syscall
  <2>2. CASE call(p, "leave") /\ UNCHANGED kmounts
    BY <1>6, <2>2, UsedHolds, Zenon DEF Syscall
  <2> QED
    BY <1>6, <2>1, <2>2, Zenon DEF Syscall
<1>7. CASE Used(p)
  BY <1>7, UsedHolds, Zenon DEF Used
<1>8. CASE Info(p)
  BY <1>8, InfoHolds, Zenon
<1>9. CASE Exit(p)
  <2>1. gone(p) /\ deaths' \in Nat
    BY <1>9, Zenon DEF Exit, RegionInv, TypeOK
  <2> QED
    BY <2>1, GoneHolds, Zenon
<1> QED
  BY <1>1, <1>2, <1>3, <1>4, <1>5, <1>6, <1>7, <1>8, <1>9, Zenon DEF Step

LEMMA NextHolds == RegionInv /\ [Next]_vars => RegionInv'
<1> SUFFICES ASSUME RegionInv, [Next]_vars PROVE RegionInv'
  BY Zenon
<1>1. ASSUME NEW p \in Procs, Start(p) PROVE RegionInv'
  BY <1>1, StartHolds, Zenon
<1>2. ASSUME NEW p \in Procs, Step(p) PROVE RegionInv'
  BY <1>2, StepHolds, Zenon
<1>3. ASSUME NEW p \in Procs, woken(p) PROVE RegionInv'
  <2>1. UNCHANGED <<region, kmounts, starts, deaths>> /\ at(p, "wait")
    BY <1>3, Zenon DEF woken
  <2>2. CASE mutex_free(proc[p].sem) /\ take(p, proc[p].sem)
    BY <2>1, <2>2, TakeHolds, Zenon
  <2>3. CASE UNCHANGED <<set, undo>> /\ goto(p, "lookup")
    BY <2>1, <2>3, WaitHolds, Zenon
  <2> QED
    BY <1>3, <2>2, <2>3, Zenon DEF woken
<1>4. ASSUME NEW p \in Procs, Die(p) PROVE RegionInv'
  <2>1. gone(p) /\ deaths' \in Nat
    BY <1>4 DEF Die, RegionInv, TypeOK
  <2> QED
    BY <2>1, GoneHolds, Zenon
<1>5. ASSUME NEW r \in Regions, Umount(r) PROVE RegionInv'
  <2>1. /\ kmounts[r] > 0 /\ kmounts' = [kmounts EXCEPT ![r] = @ - 1]
        /\ UNCHANGED <<set, undo, region, starts, deaths>>
    BY <1>5, Zenon DEF Umount
  <2>2. CASE kmounts[r] > 1
    <3>1. proc' = proc
      BY <1>5, <2>2, Zenon DEF Umount
    <3> QED
      BY <2>1, <2>2, <3>1, SomeUmountHolds, Zenon
  <2>3. CASE ~(kmounts[r] > 1)
    <3>1. PICK p \in Procs : at(p, "off") /\ proc' = [proc EXCEPT ![p] = started("umount", r)]
      BY <1>5, <2>3, Zenon DEF Umount
    <3> QED
      BY <2>1, <2>3, <3>1, LastUmountHolds, Zenon
  <2> QED
    BY <2>2, <2>3, Zenon
<1>6. CASE UNCHANGED vars
  <2>1. /\ proc' = proc /\ set' = set /\ undo' = undo /\ region' = region
        /\ kmounts' = kmounts /\ starts' = starts /\ deaths' = deaths
    BY <1>6, Zenon DEF vars
  <2>2. TypeOK' /\ SetsOK' /\ Alone'
    BY <2>1, Zenon DEF RegionInv, TypeOK, SetsOK, Alone, Inside
  <2>3. RefsOK'
    <3>1. \A k \in Keys : Holders(k)' = Holders(k) /\ Mounts(k)' = Mounts(k)
      BY <2>1, Zenon DEF Holders, Mounts, Holds, keyOf
    <3> QED
      BY <2>1, <3>1, RefsKept, Zenon
  <2>4. ASSUME NEW p \in Procs PROVE CallOK(p)' /\ MutexOK(p)' /\ LastOK(p)'
    BY <2>1, Zenon DEF RegionInv, CallOK, MutexOK, LastOK, Inside, Holds, keyOf, at
  <2>5. ASSUME NEW p \in Procs PROVE UndoOK(p)' /\ HolderOK(p)'
    BY <2>1, Zenon DEF RegionInv, UndoOK, HolderOK, There, Inside, Holds, keyOf, at
  <2>6. ASSUME NEW r \in Regions PROVE RegionOK(r)'
    BY <2>1, Zenon DEF RegionInv, RegionOK, There, at
  <2> QED
    BY <2>2, <2>3, <2>4, <2>5, <2>6, Zenon DEF RegionInv
<1> QED
  BY <1>1, <1>2, <1>3, <1>4, <1>5, <1>6, Zenon DEF Next

LEMMA RegionInvHolds == Spec => []RegionInv
<1>1. Init => RegionInv
  BY InitHolds, Zenon
<1>2. RegionInv /\ [Next]_vars => RegionInv'
  BY NextHolds, Zenon
<1> QED
  BY <1>1, <1>2, PTL DEF Spec

-----------------------------------------------------------------------------
(* The theorems. *)

(* o2cb_mutex_down_lookup() excludes: whatever is killed, and although the *)
(* last to leave removes the semaphore set under those who wait for it, no *)
(* two processes are inside for one key.                                   *)
THEOREM MutexExcludes == Spec => []OneInside
<1>1. RegionInv => OneInside
  BY InsideAlone, Zenon DEF OneInside, keyOf
<1> QED
  BY <1>1, RegionInvHolds, PTL

LEMMA HeldRegion ==
  ASSUME RegionInv, NEW r \in Regions, Held(r)
  PROVE  There(r)
<1>1. CASE kmounts[r] > 0
  BY <1>1, Zenon DEF RegionInv, RegionOK
<1>2. CASE \E p \in Procs : proc[p].r = r /\ proc[p].pc \in {"syscall", "using"}
  BY <1>2, Zenon DEF RegionInv, HolderOK, Holds
<1> QED
  BY <1>1, <1>2, Zenon DEF Held

(* Whoever relies on the heartbeat of a region has it, or has one that a   *)
(* killed process left without a device: no leave, no death of another     *)
(* process and no collision of keys removes a region that is held, and no  *)
(* process counts on one that another is still making.                     *)
THEOREM HeldIsLiveAlways == Spec => []HeldIsLive
<1>1. RegionInv => HeldIsLive
  BY HeldRegion, Zenon DEF HeldIsLive, There
<1> QED
  BY <1>1, RegionInvHolds, PTL

=============================================================================
