----------------------------- MODULE FsckChains -----------------------------
(***************************************************************************)
(* fsck.ocfs2, pass 0 (pass0.c): the chain allocators.  An allocator inode *)
(* has an array of chains; a chain is a linked list of group descriptors,  *)
(* each with a bitmap.  The groups of the global bitmap "gb" are at fixed  *)
(* places; those of the suballocators are anywhere.  The volumes fsck is   *)
(* given are a good one and those fswreck's chain.c and group.c make of    *)
(* it, and fsck may be killed between any two writes and be run again.     *)
(*                                                                         *)
(* A block is a cluster, bits of a suballocator are Bpc to a cluster, and  *)
(* sizes are in clusters.  The I/O errors left are those of a block number *)
(* outside the volume.                                                     *)
(***************************************************************************)
EXTENDS Integers, Sequences, FiniteSets

CONSTANTS
  Modes,     \* "y" and "n": fsck -fy, fsck -fn
  MaxRecs,   \* ocfs2_chain_recs_per_inode()
  Cpg,       \* bits of a whole group of the global bitmap
  Clusters,  \* the volume's size
  MaxRuns    \* bound on the number of times fsck is started

ASSUME FsckChainsAssumption ==
  /\ Modes \subseteq {"y", "n"}
  /\ MaxRecs \in Nat \ {0} /\ Cpg \in Nat \ {0} /\ MaxRuns \in Nat
  /\ Clusters > 2 * Cpg /\ Clusters < 3 * Cpg

VARIABLES
  gd,      \* disk: the group descriptor in a block
  inode,   \* disk: the allocator inodes
  super,   \* disk: i_clusters of the superblock
  mode,    \* how fsck was started
  pc,      \* where fsck is
  k,       \* the allocator it verifies, a position in Order
  di,      \* its copy of that inode
  w,       \* locals of verify_chain_alloc() and check_chain()
  ost,     \* o2fsck_state
  asked,   \* prompts of this run
  runs,    \* of each run that has come to its end: prompts, success, rewalked
  rewalked, \* history: this run has walked a chain for the second time
  cutoff   \* history: fsck was killed while the bitmap missed groups

disk == <<gd, inode, super>>
vars == <<gd, inode, super, mode, pc, k, di, w, ost, asked, runs>>

Order == <<"gb", "gi", "ia0", "ia1", "ea0">>
Allocs == {Order[j] : j \in 1..Len(Order)}
Bpc(a) == IF a = "gb" THEN 1 ELSE 2

Range0(n) == 0..(n - 1)
OutBlk == Clusters + 1
Spare == Clusters - 1              \* a cluster with data
LastBlk == Clusters + 2 * Cpg

SumOf(S, f(_)) ==
  LET RECURSIVE Add(_)
      Add(T) == IF T = {} THEN 0
                ELSE LET x == CHOOSE x \in T : TRUE IN f(x) + Add(T \ {x})
  IN Add(S)

-----------------------------------------------------------------------------
(* Volumes. *)

NotGd == [magic |-> FALSE, gen |-> FALSE, parent |-> "nobody", blkno |-> 0,
          chain |-> 0, bits |-> 0, free |-> 0, bm |-> {}, next |-> 0]

Gd(a, blk, chain, bits, used, next) ==
  [magic |-> TRUE, gen |-> TRUE, parent |-> a, blkno |-> blk, chain |-> chain,
   bits |-> bits, free |-> bits - used, bm |-> Range0(used), next |-> next]

(* ocfs2_calc_cluster_groups(), and the places of the groups: the first is *)
(* at fs_first_cg_blkno, the others at multiples of their size.            *)
cgs_cpg(n) == IF Cpg > n THEN n ELSE Cpg
cgs_cluster_groups(n) == (n + cgs_cpg(n) - 1) \div cgs_cpg(n)
cgs_tail_group_bits(n) ==
  IF n % cgs_cpg(n) = 0 THEN cgs_cpg(n) ELSE n % cgs_cpg(n)
group_bits(n, g) ==
  IF g = cgs_cluster_groups(n) - 1 THEN cgs_tail_group_bits(n) ELSE cgs_cpg(n)
group_blkno(n, g) == IF g = 0 THEN 1 ELSE g * cgs_cpg(n)
expected(n) == {group_blkno(n, g) : g \in Range0(cgs_cluster_groups(n))}

(* A good volume: three groups in one chain or in two of the global        *)
(* bitmap, two in a chain of slot 0's inode allocator, one in the others.  *)
GoodGd(two) ==
  [b \in 0..LastBlk |->
     CASE b = 1 -> Gd("gb", 1, 0, Cpg, 4, 2 * Cpg)
       [] b = 2 * Cpg -> Gd("gb", 2 * Cpg, 0, Clusters - 2 * Cpg, 2,
                            IF two THEN 0 ELSE Cpg)
       [] b = Cpg -> Gd("gb", Cpg, IF two THEN 1 ELSE 0, Cpg, 4, 0)
       [] b = 2 -> Gd("ia0", 2, 0, 2, 1, 3)
       [] b = 3 -> Gd("ia0", 3, 0, 2, 1, 0)
       [] b = Cpg + 1 -> Gd("ia1", Cpg + 1, 0, 2, 1, 0)
       [] b = Cpg + 2 -> Gd("gi", Cpg + 2, 0, 2, 1, 0)
       [] b = Cpg + 3 -> Gd("ea0", Cpg + 3, 0, 2, 1, 0)
       [] OTHER -> NotGd]

(* The blocks of a chain that starts at b, as far as they can be followed. *)
Chain(g, b) ==
  LET RECURSIVE Walk(_, _)
      Walk(x, seen) == IF x = 0 \/ x \in seen \/ x > LastBlk \/ ~g[x].magic
                         THEN seen ELSE Walk(g[x].next, seen \cup {x})
  IN Walk(b, {})

NoRec == [blkno |-> 0, free |-> 0, total |-> 0]

(* A chain record, and an allocator inode, with the counts of its groups.  *)
CountedRec(g, b) ==
  [blkno |-> b, free |-> SumOf(Chain(g, b), LAMBDA x : g[x].free),
   total |-> SumOf(Chain(g, b), LAMBDA x : g[x].bits)]
Counted(g, a, heads) ==
  LET rec == [j \in Range0(MaxRecs) |-> IF j < Len(heads)
                THEN CountedRec(g, heads[j + 1]) ELSE NoRec]
      total == SumOf(Range0(MaxRecs), LAMBDA j : rec[j].total)
      free == SumOf(Range0(MaxRecs), LAMBDA j : rec[j].free)
  IN [recs |-> rec, cl_count |-> MaxRecs, cl_next_free_rec |-> Len(heads),
      cl_cpg |-> Cpg, i_total |-> total, i_used |-> total - free,
      i_clusters |-> total \div Bpc(a), i_size |-> total \div Bpc(a)]

Heads(a, two) ==
  CASE a = "gb" -> IF two THEN <<1, Cpg>> ELSE <<1>>
    [] a = "gi" -> <<Cpg + 2>> [] a = "ia0" -> <<2>>
    [] a = "ia1" -> <<Cpg + 1>> [] a = "ea0" -> <<Cpg + 3>>

Good(two) ==
  [gd |-> GoodGd(two), super |-> Clusters,
   inode |-> [a \in Allocs |-> Counted(GoodGd(two), a, Heads(a, two))]]

-----------------------------------------------------------------------------
(* What fswreck does to a good volume. *)

(* mess_up_chains(): the inode, by the number of the damage. *)
mess_up_chains(n, code) ==
  CASE code = 3 ->
         [n EXCEPT !.cl_next_free_rec = @ - 1,
                   !.recs[n.cl_next_free_rec - 1] =
                     [blkno |-> OutBlk, free |-> 1, total |-> 9]]
    [] code = 4 -> [n EXCEPT !.cl_count = @ + 1]
    [] code = 5 -> [n EXCEPT !.cl_next_free_rec = @ + 1]
    [] code = 7 -> [n EXCEPT !.i_total = @ + 1, !.i_used = 0]
    [] code = 8 -> [n EXCEPT !.recs[0].blkno = OutBlk]
    [] code = 10 -> [n EXCEPT !.recs[0].blkno = Spare]
    [] code = 11 -> [n EXCEPT !.recs[0].blkno = 0]
    [] code = 12 -> [n EXCEPT !.recs[0].total = 0, !.recs[0].free = 0]

(* mess_up_sys_file(): the inode, by the name of the damage ... *)
mess_up_sys_file(n, type) ==
  CASE type = "CHAIN_COUNT" -> [n EXCEPT !.cl_count = @ + 1]
    [] type = "CHAIN_NEXT_FREE" -> [n EXCEPT !.cl_next_free_rec = n.cl_count + 1]
    [] type = "CHAIN_HEAD_LINK_RANGE" -> [n EXCEPT !.recs[0].blkno = OutBlk]
    [] type = "CHAIN_EMPTY" -> [n EXCEPT !.recs[0].blkno = 0]
    [] type = "CHAIN_BITS" -> [n EXCEPT !.recs[0].total = @ + 1]
    [] type = "CHAIN_I_CLUSTERS" -> [n EXCEPT !.i_clusters = @ + 1]
    [] type = "CHAIN_I_SIZE" -> [n EXCEPT !.i_size = @ + 1]
    [] type = "CHAIN_GROUP_BITS" -> [n EXCEPT !.i_used = @ + 1]
    [] type = "CHAIN_CPG" -> [n EXCEPT !.cl_cpg = @ + 1, !.cl_next_free_rec = 1]

(* ... or the group at the head of its first chain. *)
mess_up_first_group(g, b, type) ==
  CASE type = "CHAIN_LINK_GEN" -> [g EXCEPT ![b].gen = FALSE]
    [] type = "CHAIN_LINK_MAGIC" -> [g EXCEPT ![b].magic = FALSE]
    [] type = "CHAIN_LINK_RANGE" -> [g EXCEPT ![b].next = OutBlk]

(* create_test_group_desc() makes a copy in a cluster of its own. *)
create_test_group_desc(g, b) ==
  [g EXCEPT ![Spare] = [g[b] EXCEPT !.blkno = Spare, !.next = 0]]

(* damage_group_desc(): the same group; GROUP_GEN spoils the next one too. *)
damage_group_desc(g, b, type) ==
  CASE type = "GROUP_EXPECTED_DESC" -> [g EXCEPT ![b].next = 0]
    [] type = "GROUP_UNEXPECTED_DESC" ->
         [create_test_group_desc(g, b) EXCEPT ![b].next = Spare]
    [] type = "GROUP_GEN" ->
         [x \in DOMAIN g |-> IF x = b \/ (x = g[b].next /\ x # 0)
                               THEN [g[x] EXCEPT !.gen = FALSE] ELSE g[x]]
    [] type = "GROUP_PARENT" -> [g EXCEPT ![b].parent = "nobody"]
    [] type = "GROUP_BLKNO" -> [g EXCEPT ![b].blkno = @ + 1]
    [] type = "GROUP_CHAIN" -> [g EXCEPT ![b].chain = @ + 1]
    [] type = "GROUP_FREE_BITS" -> [g EXCEPT ![b].free = g[b].bits + 1]

(* mess_up_superblock_clusters(), by more than a group. *)
mess_up_superblock_clusters(v, excess) ==
  [v EXCEPT !.super = IF excess THEN @ + Cpg + 1 ELSE @ - Cpg - 1]

(* What a slot removal of tunefs.ocfs2 that was interrupted leaves: slot   *)
(* 1's group at the end of slot 0's chain, or the other way round.         *)
TwiceLinked(v, b, n) == [v EXCEPT !.gd[b].next = n]

(* The damages fswreck knows: of corrupt_chains(), to the global bitmap    *)
(* only, and of corrupt_sys_file() and corrupt_group_desc(), to it or to   *)
(* the inode allocator of a slot.                                          *)
Codes == {3, 4, 5, 7, 8, 10, 11, 12}
InodeTypes == {"CHAIN_COUNT", "CHAIN_NEXT_FREE", "CHAIN_EMPTY", "CHAIN_HEAD_LINK_RANGE",
               "CHAIN_BITS", "CHAIN_I_CLUSTERS", "CHAIN_I_SIZE", "CHAIN_GROUP_BITS",
               "CHAIN_CPG"}
LinkTypes == {"CHAIN_LINK_GEN", "CHAIN_LINK_MAGIC", "CHAIN_LINK_RANGE"}
GroupTypes == {"GROUP_EXPECTED_DESC", "GROUP_UNEXPECTED_DESC", "GROUP_GEN",
               "GROUP_PARENT", "GROUP_BLKNO", "GROUP_CHAIN", "GROUP_FREE_BITS"}

corrupt_chains(v, codes) ==
  {[v EXCEPT !.inode["gb"] = mess_up_chains(v.inode["gb"], c)] : c \in codes}

First(v, x) == v.inode[x].recs[0].blkno

mess_up_sys_chains(v, x, types) ==
  {[v EXCEPT !.inode[x] = mess_up_sys_file(v.inode[x], t)] : t \in InodeTypes \cap types}
  \cup {[v EXCEPT !.gd = mess_up_first_group(v.gd, First(v, x), t)] :
          t \in LinkTypes \cap types}

corrupt_group_desc(v, x, types) ==
  {[v EXCEPT !.gd = damage_group_desc(v.gd, First(v, x), t)] : t \in GroupTypes \cap types}

(* mess_up_cluster_group_desc(): clusters are taken, and their group says  *)
(* that it has more free ones than bits.                                   *)
mess_up_cluster_group_desc(v) ==
  LET b == CHOOSE y \in Chain(v.gd, First(v, "gb")) : v.gd[y].free > 0
      c == CHOOSE y \in Range0(v.gd[b].bits) : y \notin v.gd[b].bm
  IN [v EXCEPT !.gd[b].bm = @ \cup {c}, !.gd[b].free = v.gd[b].bits + 1,
               !.inode["gb"].recs[0].free = @ - 1, !.inode["gb"].i_used = @ + 1]

wrecks(v, x, types) == mess_up_sys_chains(v, x, types) \cup corrupt_group_desc(v, x, types)

Types == InodeTypes \cup LinkTypes \cup GroupTypes

Volumes ==
  {Good(TRUE), mess_up_cluster_group_desc(Good(TRUE))}
  \cup {mess_up_superblock_clusters(Good(TRUE), x) : x \in BOOLEAN}
  \cup {TwiceLinked(Good(TRUE), 3, Cpg + 1), TwiceLinked(Good(TRUE), Cpg + 1, 2)}
  \cup UNION {corrupt_chains(Good(two), Codes) \cup wrecks(Good(two), "gb", Types) :
               two \in BOOLEAN}
  \cup wrecks(Good(TRUE), "ia0", Types \ {"CHAIN_CPG"})

-----------------------------------------------------------------------------
(* fsck. *)

(* prompt(): of the questions P, those that are answered with yes. *)
prompt(P) == IF mode = "y" THEN P ELSE {}

a == Order[k]
bad_blkno(b) == b > ost.fs_clusters   \* ocfs2_block_out_of_range()
Q(code) == <<code, 0>>
Asks(cond, q) == IF cond THEN {q} ELSE {}

(* o2fsck_mark_clusters_allocated() for a group: the descriptor only in    *)
(* the global bitmap; the groups of a suballocator are one cluster here.   *)
mark_group_used(o, b) ==
  [o EXCEPT !.marked = @ \cup {b},
            !.dup = IF b \in o.marked THEN @ \cup {b} ELSE @]

(* Mutant: what was marked before stays marked. *)
reinit_keeps_marks(o, n) == [o EXCEPT !.num_clusters = n, !.fs_clusters = n]

(* o2fsck_state_reinit(), with mark_magical_clusters(). *)
o2fsck_state_reinit(o, n) ==
  [o EXCEPT !.num_clusters = n, !.fs_clusters = n, !.marked = {0}, !.dup = {}]

NoWalk == [i |-> 0, depth |-> 0, bg1 |-> NotGd, clear |-> FALSE, free |-> 0,
           total |-> 0, err |-> FALSE, changed |-> FALSE, trust |-> TRUE,
           sfree |-> 0, stotal |-> 0, g |-> 0]

NewOst == [fs_clusters |-> super, num_clusters |-> 0, marked |-> {0},
           dup |-> {}, allowed |-> {}, forbidden |-> {}, retried |-> FALSE,
           pre |-> 0]

Start ==
  /\ pc \in {"off", "killed"}
  /\ Len(runs) < MaxRuns
  /\ pc' = "cpg" /\ k' = 1 /\ di' = inode["gb"] /\ w' = NoWalk
  /\ ost' = NewOst /\ asked' = {}
  /\ UNCHANGED <<disk, mode, runs>>

(* maybe_fix_clusters_per_group(), for volumes of one chain. *)
maybe_fix_clusters_per_group ==
  LET b == di.recs[0].blkno
      q == Asks(di.cl_cpg # Cpg, Q("CHAIN_CPG"))
  IN
  /\ pc = "cpg"
  /\ IF di.cl_next_free_rec > 1 THEN
       pc' = "clusters" /\ UNCHANGED <<di, inode, asked>>
     ELSE IF bad_blkno(b) \/ ~gd[b].magic THEN
       pc' = "failed" /\ UNCHANGED <<di, inode, asked>>
     ELSE LET yes == prompt(q) IN
       /\ di' = IF yes # {} THEN [di EXCEPT !.cl_cpg = Cpg] ELSE di
       /\ inode' = IF yes # {} THEN [inode EXCEPT !["gb"] = di'] ELSE inode
       /\ asked' = asked \cup q
       /\ pc' = "clusters"
  /\ UNCHANGED <<gd, super, mode, k, w, ost, runs>>

(* o2fsck_pass0(): which of the two sizes is the volume's? *)
superblock_clusters ==
  LET q == Asks(super # di.i_clusters, Q("SUPERBLOCK_CLUSTERS")) IN
  /\ pc = "clusters"
  /\ LET yes == prompt(q) IN
       ost' = IF yes # {} THEN o2fsck_state_reinit(ost, di.i_clusters) ELSE ost
  /\ asked' = asked \cup q
  /\ pc' = "bitmap"
  /\ UNCHANGED <<disk, mode, k, di, w, runs>>

(* retry_bitmap, and verify_bitmap_descs() up to verify_chain_alloc(). *)
verify_bitmap_descs ==
  /\ pc = "bitmap"
  /\ ost' = [ost EXCEPT !.pre = di.i_clusters,
                        !.allowed = expected(ost.fs_clusters), !.forbidden = {}]
  /\ pc' = "head"
  /\ UNCHANGED <<disk, mode, k, di, w, asked, runs>>

(* verify_chain_alloc() up to the walk over the chains. *)
clamped(n, yes) ==
  LET recs == [j \in Range0(MaxRecs) |->
                 IF <<"CHAIN_HEAD_LINK_RANGE", j>> \in yes
                   THEN [n.recs[j] EXCEPT !.blkno = 0] ELSE n.recs[j]]
      count == IF Q("CHAIN_COUNT") \in yes THEN MaxRecs ELSE n.cl_count
  IN [n EXCEPT !.recs = recs, !.cl_count = count,
               !.cl_next_free_rec =
                 IF Q("CHAIN_NEXT_FREE") \in yes THEN count ELSE @]

verify_chain_alloc ==
  LET max == IF di.cl_count < MaxRecs THEN di.cl_count ELSE MaxRecs
      over == di.cl_next_free_rec > max
      q == {<<"CHAIN_HEAD_LINK_RANGE", j>> :
              j \in {j \in Range0(MaxRecs) : bad_blkno(di.recs[j].blkno)}}
           \cup Asks(di.cl_count > MaxRecs, Q("CHAIN_COUNT"))
           \cup Asks(over, Q("CHAIN_NEXT_FREE"))
  IN
  /\ pc = "head"
  /\ LET yes == prompt(q)
           trust == over => Q("CHAIN_NEXT_FREE") \in yes
           n == clamped(di, yes)
           last == (IF trust THEN n.cl_next_free_rec ELSE max) - 1
       IN /\ di' = n
          /\ w' = [NoWalk EXCEPT !.i = last, !.changed = yes # {}, !.trust = trust]
          /\ pc' = IF last < 0 THEN "counts" ELSE "group"
  /\ asked' = asked \cup q
  /\ UNCHANGED <<disk, mode, k, ost, runs>>

(* check_group_parent(): does the allocator a group names have it, in the  *)
(* chain it names?  [err, exist].                                          *)
check_group_parent(bg) ==
  IF bg.parent \notin Allocs THEN [err |-> TRUE, exist |-> FALSE]
  ELSE LET n == inode[bg.parent] IN
       [err |-> FALSE,
        exist |-> /\ n.i_total # 0 /\ n.cl_next_free_rec > bg.chain
                  /\ bg.blkno \in Chain(gd, n.recs[bg.chain].blkno)]

(* repair_group_desc(): its questions, and the descriptor it leaves. *)
repair_questions(bg, b) ==
  Asks(~bg.gen, Q("GROUP_GEN"))
  \cup Asks(bg.parent # a /\ check_group_parent(bg).exist, Q("GROUP_DUPLICATE"))
  \cup Asks(bg.parent # a, Q("GROUP_PARENT"))
  \cup Asks(bg.blkno # b, Q("GROUP_BLKNO"))
  \cup Asks(bg.chain # w.i, Q("GROUP_CHAIN"))
  \cup Asks(bg.free > bg.bits - Cardinality(bg.bm), Q("GROUP_FREE_BITS"))

(* Mutant: the number of the chain is left as it is. *)
repaired_not_chain(bg, b, yes) ==
  [bg EXCEPT !.gen = TRUE, !.parent = a, !.blkno = b,
             !.free = bg.bits - Cardinality(bg.bm)]

repaired(bg, b, yes) ==
  [bg EXCEPT !.gen = IF Q("GROUP_GEN") \in yes THEN TRUE ELSE @,
             !.parent = IF Q("GROUP_PARENT") \in yes THEN a ELSE @,
             !.blkno = IF Q("GROUP_BLKNO") \in yes THEN b ELSE @,
             !.chain = IF Q("GROUP_CHAIN") \in yes THEN w.i ELSE @,
             !.free = IF Q("GROUP_FREE_BITS") \in yes
                        THEN bg.bits - Cardinality(bg.bm) ELSE @]

(* check_chain() decides that bg1 is a group of the chain: its clusters    *)
(* are used, unless it is not where the bitmap may have one.               *)
not_contentious(o) ==
  LET b == w.bg1.blkno IN
  IF w.depth = 0 THEN o
  ELSE IF a # "gb" THEN mark_group_used(o, b)
  ELSE IF b \in o.allowed
    THEN mark_group_used([o EXCEPT !.allowed = @ \ {b}], b)
    ELSE [o EXCEPT !.forbidden = @ \cup {b}]

next_ref == IF w.depth = 0 THEN di.recs[w.i].blkno ELSE w.bg1.next

(* The questions check_chain() asks of a reference. *)
ref_question(b) ==
  IF bad_blkno(b) THEN "CHAIN_LINK_RANGE"
  ELSE IF ~gd[b].magic THEN "CHAIN_LINK_MAGIC"
  ELSE IF ~gd[b].gen THEN "CHAIN_LINK_GEN" ELSE ""

(* check_chain(): the end of the chain, a reference that is not followed,  *)
(* and the next group.  An error leaves the chain's record as it is.       *)
ChainEnds ==
  /\ pc = "group" /\ next_ref = 0
  /\ ost' = not_contentious(ost)
  /\ pc' = "bits"
  /\ UNCHANGED <<disk, mode, k, di, w, asked, runs>>

BadReference ==
  LET b == next_ref
      q == ref_question(b)
  IN
  /\ pc = "group" /\ b # 0 /\ q # ""
  /\ ost' = not_contentious(ost)
  /\ asked' = asked \cup {Q(q)}
  /\ LET yes == prompt({Q(q)}) IN
       /\ yes = {} => q # "CHAIN_LINK_GEN"
       /\ w' = [w EXCEPT !.clear = yes # {},
                         !.err = yes = {} /\ q = "CHAIN_LINK_RANGE"]
       /\ pc' = IF w'.err THEN "empty" ELSE "bits"
  /\ UNCHANGED <<disk, mode, k, di, runs>>

NextGroup ==
  LET b == next_ref
      q == repair_questions(gd[b], b)
      gen == ref_question(b) = "CHAIN_LINK_GEN"
  IN
  /\ pc = "group" /\ b # 0
  /\ ref_question(b) \in {"", "CHAIN_LINK_GEN"} /\ (gen => mode # "y")
  /\ ost' = not_contentious(ost)
  /\ asked' = asked \cup q \cup Asks(gen, Q("CHAIN_LINK_GEN"))
  /\ LET yes == prompt(q)
           bg == repaired(gd[b], b, yes)
           err == gd[b].parent # a /\ bg = gd[b] /\ check_group_parent(gd[b]).err
       IN
       IF Q("GROUP_DUPLICATE") \in yes THEN
         w' = [w EXCEPT !.clear = TRUE] /\ pc' = "bits" /\ UNCHANGED gd
       ELSE
         /\ gd' = IF bg = gd[b] \/ bad_blkno(bg.blkno) THEN gd
                  ELSE [gd EXCEPT ![bg.blkno] = bg]
         /\ w' = [w EXCEPT !.bg1 = bg, !.depth = @ + 1, !.err = err,
                           !.free = @ + bg.free, !.total = @ + bg.bits]
         /\ pc' = IF err THEN "empty" ELSE "group"
  /\ UNCHANGED <<inode, super, mode, k, di, runs>>

(* The end of check_chain(): the last reference is cleared if it was not   *)
(* followed, and the record made to count what was found.                  *)
chain_bits ==
  LET rec == IF w.clear /\ w.depth = 0
               THEN [di.recs[w.i] EXCEPT !.blkno = 0] ELSE di.recs[w.i]
      q == Asks(<<w.total, w.free>> # <<rec.total, rec.free>>, Q("CHAIN_BITS"))
      cut == [w.bg1 EXCEPT !.next = 0]
  IN
  /\ pc = "bits"
  /\ gd' = IF w.clear /\ w.depth > 0 THEN [gd EXCEPT ![cut.blkno] = cut] ELSE gd
  /\ LET yes == prompt(q) IN
       /\ di' = [di EXCEPT !.recs[w.i] =
                  IF yes # {} THEN [rec EXCEPT !.total = w.total, !.free = w.free]
                  ELSE rec]
       /\ w' = [w EXCEPT !.changed = @ \/ (w.clear /\ w.depth = 0) \/ yes # {}]
  /\ asked' = asked \cup q
  /\ pc' = "empty"
  /\ UNCHANGED <<inode, super, mode, k, ost, runs>>

(* On with chain j; what the walk over a chain used is reset. *)
to_chain(v, j) ==
  /\ w' = [v EXCEPT !.i = j, !.depth = 0, !.bg1 = NotGd, !.clear = FALSE,
                    !.free = 0, !.total = 0, !.err = IF j < 0 THEN @ ELSE FALSE]
  /\ pc' = IF j < 0 THEN "counts" ELSE "group"

(* Mutant: a chain that stays empty is walked again. *)
chain_empty_again ==
  /\ pc = "empty"
  /\ to_chain([w EXCEPT !.sfree = @ + w.free, !.stotal = @ + w.total],
              IF di.recs[w.i].blkno = 0 THEN w.i ELSE w.i - 1)
  /\ UNCHANGED <<disk, mode, k, di, ost, asked, runs>>

(* The rest of the loop over the chains: a chain with groups is counted;   *)
(* the last chain takes the place of an empty one, and is walked again.    *)
chain_empty ==
  LET last == di.cl_next_free_rec - 1
      moved == w.i < last
      q == {Q("CHAIN_EMPTY")}
  IN
  /\ pc = "empty"
  /\ IF di.recs[w.i].blkno # 0 THEN
       /\ to_chain([w EXCEPT !.sfree = @ + w.free, !.stotal = @ + w.total], w.i - 1)
       /\ UNCHANGED <<di, asked>>
     ELSE LET yes == prompt(q) IN
       /\ asked' = asked \cup q
       /\ IF yes = {} \/ ~w.trust THEN to_chain(w, w.i - 1) /\ UNCHANGED di
          ELSE /\ di' = [di EXCEPT
                    !.recs[w.i] = IF moved THEN di.recs[last] ELSE @,
                    !.recs[last] = IF moved THEN NoRec ELSE @,
                    !.cl_next_free_rec = last]
               /\ to_chain([w EXCEPT !.changed = TRUE],
                           IF moved THEN w.i ELSE w.i - 1)
  /\ UNCHANGED <<disk, mode, k, ost, runs>>

(* The end of verify_chain_alloc(): the counts in the inode.  The records  *)
(* after the last chain are cleared, in the inode if it is written.        *)
counted(n, yes) ==
  [n EXCEPT
     !.recs = [j \in Range0(MaxRecs) |->
                 IF j >= n.cl_next_free_rec /\ j < n.cl_count THEN NoRec
                 ELSE n.recs[j]],
     !.i_used = IF Q("CHAIN_GROUP_BITS") \in yes THEN w.stotal - w.sfree ELSE @,
     !.i_total = IF Q("CHAIN_GROUP_BITS") \in yes THEN w.stotal ELSE @,
     !.i_clusters = IF Q("CHAIN_I_CLUSTERS") \in yes
                      THEN w.stotal \div Bpc(a) ELSE @,
     !.i_size = IF Q("CHAIN_I_SIZE") \in yes THEN w.stotal \div Bpc(a) ELSE @]

inode_counts ==
  LET q == Asks(<<di.i_total, di.i_used>> # <<w.stotal, w.stotal - w.sfree>>,
                Q("CHAIN_GROUP_BITS"))
           \cup Asks(di.i_clusters # w.stotal \div Bpc(a), Q("CHAIN_I_CLUSTERS"))
           \cup Asks(di.i_size # w.stotal \div Bpc(a), Q("CHAIN_I_SIZE"))
  IN
  /\ pc = "counts"
  /\ asked' = asked \cup q
  /\ LET yes == prompt(q)
           changed == w.changed \/ yes # {} IN
       /\ di' = counted(di, yes)
       /\ inode' = IF changed THEN [inode EXCEPT ![a] = di'] ELSE inode
       /\ pc' = IF w.err /\ ~changed THEN "failed"
                ELSE IF a = "gb" THEN "unexpected" ELSE "next"
  /\ w' = [w EXCEPT !.g = 0]
  /\ UNCHANGED <<gd, super, mode, k, ost, runs>>

(* unlink_group_desc(): the reference to b in the first chain that has one *)
(* is passed on; chains after one without a group are not looked at.       *)
seen_chains ==
  {j \in Range0(MaxRecs) : /\ j < di.cl_next_free_rec
                           /\ \A m \in 0..j : di.recs[m].blkno # 0}
with_group(b) ==
  {j \in seen_chains : b \in Chain(gd, di.recs[j].blkno)}

unlinked(n, j, bg) ==
  LET head == IF n.recs[j].blkno = bg.blkno THEN bg.next ELSE n.recs[j].blkno IN
  [n EXCEPT !.recs[j] = [blkno |-> head, free |-> @.free - bg.free,
                         total |-> @.total - bg.bits],
            !.cl_next_free_rec = IF @ = j + 1 /\ head = 0 THEN @ - 1 ELSE @,
            !.i_used = @ - (bg.bits - bg.free), !.i_total = @ - bg.bits,
            !.i_clusters = @ - bg.bits, !.i_size = n.i_clusters - bg.bits]

(* verify_bitmap_descs(): the groups that should not be in a chain. *)
group_unexpected ==
  LET b == CHOOSE x \in ost.forbidden : \A y \in ost.forbidden : x <= y
      q == {Q("GROUP_UNEXPECTED_DESC")}
      bg == gd[b]
  IN
  /\ pc = "unexpected" /\ ost.forbidden # {}
  /\ asked' = asked \cup {<<"GROUP_UNEXPECTED_DESC", b>>}
  /\ LET yes == prompt(q) IN
       /\ ost' = LET o == [ost EXCEPT !.forbidden = @ \ {b}] IN
                 IF yes = {} THEN mark_group_used(o, b) ELSE o
       /\ IF yes = {} \/ ~bg.magic \/ with_group(b) = {} THEN
            UNCHANGED <<gd, inode, di>>
          ELSE
            LET j == CHOOSE x \in with_group(b) : \A y \in with_group(b) : x <= y
                prev == {x \in Chain(gd, di.recs[j].blkno) : gd[x].next = b}
            IN /\ di' = unlinked(di, j, bg)
               /\ gd' = IF di.recs[j].blkno = b THEN gd
                        ELSE [x \in DOMAIN gd |-> IF x \in prev
                                THEN [gd[x] EXCEPT !.next = bg.next] ELSE gd[x]]
               /\ inode' = [inode EXCEPT !["gb"] = di']
  /\ UNCHANGED <<super, mode, pc, k, w, runs>>

(* Mutant: a group that does not lead to the rest of its chain.            *)
rebuilt_alone(g) ==
  LET bits == group_bits(ost.fs_clusters, g) IN
  Gd("gb", group_blkno(ost.fs_clusters, g), di.cl_next_free_rec % MaxRecs, bits, 1, 0)

(* The groups that should be in a chain: group g of the volume is made     *)
(* again, with its bitmap if it still has one, and put at the head.        *)
chain_for(g) ==
  LET c == g % MaxRecs IN
  IF c < di.cl_next_free_rec THEN c ELSE di.cl_next_free_rec

rebuilt(g) ==
  LET b == group_blkno(ost.fs_clusters, g)
      bits == group_bits(ost.fs_clusters, g)
      bm == {0} \cup (IF gd[b].magic /\ gd[b].gen THEN gd[b].bm ELSE {})
  IN [magic |-> TRUE, gen |-> TRUE, parent |-> "gb", blkno |-> b,
      chain |-> chain_for(g), bits |-> bits, free |-> bits - Cardinality(bm),
      bm |-> bm, next |-> di.recs[chain_for(g)].blkno]

linked(n, bg) ==
  [n EXCEPT !.recs[bg.chain] = [blkno |-> bg.blkno, free |-> @.free + bg.free,
                                total |-> @.total + bg.bits],
            !.cl_next_free_rec = IF @ = bg.chain /\ @ < MaxRecs THEN @ + 1 ELSE @,
            !.i_used = @ + (bg.bits - bg.free), !.i_total = @ + bg.bits,
            !.i_clusters = @ + bg.bits, !.i_size = n.i_clusters + bg.bits]

group_expected ==
  LET b == group_blkno(ost.fs_clusters, w.g)
      q == Asks(b \in ost.allowed, <<"GROUP_EXPECTED_DESC", b>>)
      bg == rebuilt(w.g)
  IN
  /\ pc = "unexpected" /\ ost.forbidden = {}
  /\ w.g < cgs_cluster_groups(ost.fs_clusters)
  /\ asked' = asked \cup q
  /\ w' = [w EXCEPT !.g = @ + 1]
  /\ LET yes == prompt(q) IN
       IF yes = {} THEN UNCHANGED <<gd, inode, di, ost>>
       ELSE /\ gd' = [gd EXCEPT ![b] = bg]
            /\ di' = linked(di, bg)
            /\ inode' = [inode EXCEPT !["gb"] = di']
            /\ ost' = mark_group_used(ost, b)
  /\ UNCHANGED <<super, mode, pc, k, runs>>

(* Back in o2fsck_pass0(): if the repair changed the size, which is it?    *)
(* The scan is repeated, but only once when nobody is there to answer.     *)
chain_clusters ==
  LET q == Asks(ost.pre # di.i_clusters, Q("FIXED_CHAIN_CLUSTERS")) IN
  /\ pc = "unexpected" /\ ost.forbidden = {}
  /\ w.g = cgs_cluster_groups(ost.fs_clusters)
  /\ asked' = asked \cup q
  /\ LET yes == prompt(q) IN
       IF yes = {} THEN ost' = ost /\ pc' = "next"
       ELSE /\ ost' = [o2fsck_state_reinit(ost, di.i_clusters)
                         EXCEPT !.retried = TRUE]
            /\ pc' = IF ~ost.retried THEN "bitmap" ELSE "next"
  /\ UNCHANGED <<disk, mode, k, di, w, runs>>

(* Passes 0b and 0c: the suballocators. *)
next_allocator ==
  /\ pc = "next" /\ k < Len(Order)
  /\ k' = k + 1
  /\ di' = inode[Order[k + 1]]
  /\ pc' = "head"
  /\ UNCHANGED <<disk, mode, w, ost, asked, runs>>

(* The end of fsck: write_out_superblock(), unless it was started with -n. *)
Finish ==
  /\ \/ pc = "next" /\ k = Len(Order)
     \/ pc = "failed"
  /\ super' = IF mode # "n" /\ ost.num_clusters # 0 THEN ost.num_clusters ELSE super
  /\ runs' = Append(runs, [asked |-> asked, ok |-> pc # "failed", rewalked |-> rewalked])
  /\ pc' = "off"
  /\ k' = 1
  /\ UNCHANGED <<gd, inode, mode, di, w, ost, asked>>

(* The process is killed. *)
Kill ==
  /\ pc \notin {"off", "killed"}
  /\ Len(runs) = 0
  /\ pc' = "killed"
  /\ UNCHANGED <<disk, mode, k, di, w, ost, asked, runs>>

Init ==
  /\ \E v \in Volumes : gd = v.gd /\ inode = v.inode /\ super = v.super
  /\ mode \in Modes
  /\ pc = "off" /\ k = 1 /\ di = inode["gb"] /\ w = NoWalk /\ asked = {}
  /\ ost = NewOst /\ runs = <<>> /\ rewalked = FALSE /\ cutoff = FALSE

Step ==
  \/ Start \/ maybe_fix_clusters_per_group \/ superblock_clusters
  \/ verify_bitmap_descs \/ verify_chain_alloc
  \/ ChainEnds \/ BadReference \/ NextGroup \/ chain_bits \/ chain_empty
  \/ inode_counts \/ group_unexpected \/ group_expected
  \/ chain_clusters \/ next_allocator \/ Finish

Next == Step \/ Kill

(* Two things pass 0 does not get over in one run.  A chain is moved into  *)
(* the place of an empty one and walked again: its groups are counted and  *)
(* marked twice.  fsck is killed after the bitmap's inode was written with *)
(* the groups it had found and before the missing ones were linked.        *)
Watch ==
  /\ rewalked' = (pc \notin {"off", "killed"} /\
                   (rewalked \/ (pc = "empty" /\ pc' = "group" /\ w'.i = w.i)))
  /\ cutoff' = (cutoff \/ (pc = "unexpected" /\ pc' = "killed"))

Spec == Init /\ [][Next /\ Watch]_<<vars, rewalked, cutoff>>
FairSpec == Spec /\ WF_vars(Step)

-----------------------------------------------------------------------------
Completed == pc = "off" /\ Len(runs) > 0 /\ runs[Len(runs)].ok

(* The groups of an allocator, as its chains link them. *)
Groups(x) == UNION {Chain(gd, inode[x].recs[j].blkno) : j \in Range0(MaxRecs)}

SoundGroup(x, j, b) ==
  LET g == gd[b] IN
  /\ g.magic /\ g.gen /\ g.parent = x /\ g.blkno = b /\ g.chain = j
  /\ g.free <= g.bits - Cardinality(g.bm)

SoundAllocator(x) ==
  LET n == inode[x]
      C(j) == Chain(gd, n.recs[j].blkno)
  IN
  /\ \A j \in Range0(MaxRecs) : (n.recs[j].blkno # 0) <=> (j < n.cl_next_free_rec)
  /\ \A j \in Range0(MaxRecs) : \A b \in C(j) : SoundGroup(x, j, b)
  /\ \A i, j \in Range0(MaxRecs) : i # j => C(i) \cap C(j) = {}
  /\ n = [Counted(gd, x, <<>>) EXCEPT
            !.recs = [j \in Range0(MaxRecs) |-> IF n.recs[j].blkno = 0 THEN NoRec
                        ELSE CountedRec(gd, n.recs[j].blkno)],
            !.cl_next_free_rec = n.cl_next_free_rec,
            !.i_total = SumOf(Groups(x), LAMBDA b : gd[b].bits),
            !.i_used = SumOf(Groups(x), LAMBDA b : gd[b].bits - gd[b].free),
            !.i_clusters = SumOf(Groups(x), LAMBDA b : gd[b].bits) \div Bpc(x),
            !.i_size = n.i_clusters]

(* fsck -y leaves every allocator sound, whatever fswreck did to it and    *)
(* wherever an earlier fsck was killed: chains are packed, a group is in   *)
(* one chain of the allocator it names, all counts are those of the        *)
(* groups, and the global bitmap has its groups where they belong          *)
(* (o2fsck_pass0(), verify_bitmap_descs()).  A run that walked a chain of  *)
(* the bitmap twice takes its groups out, and leaves the bitmap to the     *)
(* next run.  The volume has its size unless a fsck was cut off.           *)
Repaired ==
  Completed /\ mode = "y" =>
    /\ \A x, y \in Allocs : x # y => Groups(x) \cap Groups(y) = {}
    /\ \A x \in Allocs \ {"gb"} : SoundAllocator(x)
    /\ ~rewalked =>
         /\ SoundAllocator("gb")
         /\ super = inode["gb"].i_clusters /\ Groups("gb") = expected(super)
         /\ super = Clusters \/ cutoff

(* After a complete fsck -y that did not walk a chain twice, fsck finds    *)
(* nothing to ask in pass 0; after one that did, it gets through, and      *)
(* walks none twice.                                                       *)
SecondRunIsQuiet ==
  \A j \in 2..Len(runs) : mode = "y" /\ runs[j - 1].ok =>
    /\ runs[j].ok /\ ~runs[j].rewalked
    /\ runs[j].asked = {} \/ runs[j - 1].rewalked

(* At the end of pass 0 the clusters fsck takes for used by allocators are *)
(* those that are, each counted once, though a repair may have thrown away *)
(* what the first scan of the bitmap had marked (o2fsck_state_reinit()).   *)
(* After a chain was walked twice more may be taken for used, not less.    *)
MarkedAreGroups ==
  pc = "next" /\ k = Len(Order) /\ mode = "y" =>
    LET used == {0} \cup UNION {Groups(x) : x \in Allocs} IN
    /\ used \subseteq ost.marked
    /\ ~rewalked => ost.marked = used /\ ost.dup = {}

(* Pass 0 comes to its end: the rescan of the bitmap is not repeated for   *)
(* ever, and no repair makes a chain a ring.                               *)
PassEnds == []<>(pc = "off" \/ pc = "killed")

=============================================================================
