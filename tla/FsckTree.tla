----------------------------- MODULE FsckTree -----------------------------
(***************************************************************************)
(* Runs of fsck.ocfs2 over a volume that fswreck has damaged: main of      *)
(* fsck.c with slot recovery, passes 1 to 4 and the end of the run.  A     *)
(* step is one write of slot recovery or of the orphans, one inode of pass *)
(* 1, one write of a clone, one directory block of pass 2, one directory   *)
(* of pass 3, one inode of pass 4.  A run can be killed between any two of *)
(* them and the next one starts from the device.                           *)
(*                                                                         *)
(* Pass 0 is in the module FsckChains: here the allocators have no broken  *)
(* chains, and pass 0 only loads their bits.                               *)
(***************************************************************************)
EXTENDS Fswreck

CONSTANTS
    MaxRuns,   \* runs of the program with -y
    MaxKills   \* runs that are killed

VARIABLES
    d,     \* the device
    m,     \* the state of the program, o2fsck_state
    q,     \* the prompts of the run
    pc,    \* the part of the program that is next, "off" between runs
    cur,   \* the inode, cluster or block that is next, and the owner in pass 1d
    hist   \* the damage, what the files held, runs and kills so far,
           \* and how the last run ended

vars == <<d, m, q, pc, cur, hist>>

St == [d |-> d, m |-> m, q |-> q]
Become(S) == d' = S.d /\ m' = S.m /\ q' = S.q
Goto(p, c) == pc' = p /\ cur' = c

\* A volume with inline data and sparse files, or with neither.
Init ==
    /\ \E modern \in BOOLEAN :
           \E S \in {Formatted(modern, modern)} : d = S.d /\ m = S.m /\ q = S.q
    /\ pc = "make" /\ cur = <<1, 1>>
    /\ hist = [code |-> "", was |-> [i \in {F, B} |-> [p \in {} |-> 0]], runs |-> 0, kills |-> 0, end |-> "none",
               mode |-> "n", full |-> FALSE, early |-> FALSE, good |-> FALSE]

\* What the files hold by position, as far as their trees can be read.
Content(v, i) ==
    [p \in {b[1] : b \in ToSet(ocfs2_block_iterate(v, v.ino[i]))} |-> DataAt(v, v.ino[i], p).tag]

\* The damages that cost a file its list or its inode.
Dropped == {"INODE_GEN", "INODE_ALLOC_REPAIR", "INLINE_DATA_FLAG_INVALID", "EXTENT_BLKNO_RANGE",
            "EXTENT_CLUSTERS_OVERRUN", "EB_GEN", "EXTENT_EB_INVALID", "EXTENT_LIST_FREE"}

\* fswreck makes the files, and damages one thing.
MakeFiles ==
    /\ pc = "make" /\ cur[1] <= Made
    /\ Become(Make(St, cur[1])) /\ Goto("make", <<cur[1] + 1, 1>>)
    /\ UNCHANGED hist
Wreck ==
    /\ pc = "make" /\ cur[1] \in {Made, Made + 1}
    /\ \E w \in Damages(d) :
           /\ d' = w.d
           /\ hist' = [hist EXCEPT !.code = w.code,
                          !.was = [i \in {F, B} |-> IF w.code \notin Dropped /\ ExtentsReadable(w.d, w.d.ino[i])
                                                   THEN Content(w.d, i) ELSE Content(d, i)]]
    /\ m' = NewState /\ q' = {} /\ Goto("off", <<0, 1>>)

---------------------------------------------------------------------------

\* The options -y or -n, -f and -G.  What a kill has left is repaired next.
Start ==
    /\ pc = "off" /\ hist.runs < MaxRuns
    /\ \E mode \in {"y", "n"}, force \in BOOLEAN, gen \in BOOLEAN :
           /\ gen => \E i \in Inodes : ~d.ino[i].gen
           /\ hist.end = "killed" => mode = "y" /\ force
           /\ m' = o2fsck_state_init(mode, force, gen)
           /\ hist' = [hist EXCEPT !.runs = IF mode = "y" THEN @ + 1 ELSE @, !.mode = mode,
                                   !.end = "none", !.full = FALSE, !.early = FALSE]
    /\ q' = {} /\ Goto("rec", <<1, 1>>) /\ d' = d

\* A failed recovery forces the check; without it the volume is clean.
Recovered(s, err) ==
    LET S == [s EXCEPT !.m.recerr = err, !.m.force = @ \/ err]
    IN  /\ Become([S EXCEPT !.m.ibits = S.d.ibits, !.m.early = S.m.lib # NoLib])
        /\ IF S.m.force THEN Goto("p1", <<1, 1>>) ELSE Goto("end", <<0, 1>>)

\* One write of the recovery before the passes, or of the one after them, whose
\* outcome nobody looks at.
Recover ==
    /\ pc \in {"rec", "again"}
    /\ \E r \in {IF RW(St) THEN o2fsck_slot_recovery(St, cur[1], cur[2]) ELSE Part(Ok(St), 0)} :
       LET last == ~RW(St) \/ r.err \/ (r.next = 0 /\ cur[1] = IF m.force THEN 2 ELSE 4)
       IN  IF ~last
           THEN /\ Become(r.s)
                /\ Goto(pc, IF r.next = 0 THEN <<cur[1] + 1, 1>> ELSE <<cur[1], r.next>>)
           ELSE IF pc = "rec" THEN Recovered(r.s, r.err)
           ELSE Become(r.s) /\ Goto("end", <<0, 1>>)
    /\ UNCHANGED hist

\* A pass that fails is the last one; a program that aborts or hangs stops.
Stopped(S) == ~Running(S)
Then(S, p, c) == Become(S) /\ IF Stopped(S) THEN Goto("end", <<0, 1>>) ELSE Goto(p, c)

o2fsck_pass1 ==
    /\ pc = "p1"
    /\ LET i == cur[1]
           marked == mark_truncate_logs(mark_local_allocs(St))
           claimed == o2fsck_pass1b(St)
       IN  IF i \in Inodes THEN Then(Pass1Inode(St, i), "p1", <<i + 1, 1>>)
           ELSE IF i = NI + 1 THEN Then(write_cluster_alloc(marked), "p1", <<NI + 2, 1>>)
           ELSE IF i = NI + 2 THEN Then(write_inode_alloc(St), "p1", <<NI + 3, 1>>)
           ELSE IF m.dups # {} THEN Then(claimed, "p1d", <<0, 1>>)
           ELSE Then(o2fsck_pass2_init(St), "p2", <<0, 1>>)
    /\ UNCHANGED hist

\* The clusters in their order, and the owners of each; an owner that cannot
\* be cloned ends the work on the cluster.
o2fsck_pass1d ==
    /\ pc = "p1d"
    /\ LET more == Claimed(St, cur[1])
           c == IF cur[2] > 1 THEN cur[1]
                ELSE CHOOSE x \in more : \A y \in more : x <= y
           i == m.own[c][cur[2]]
           S == fix_dups_func(St, i)
           next == IF cur[2] < Len(m.own[c]) THEN <<c, cur[2] + 1>> ELSE <<c + 1, 1>>
       IN  IF cur[2] = 1 /\ more = {} THEN Then(o2fsck_pass2_init(St), "p2", <<0, 1>>)
           ELSE IF S.m.clone # NoClone THEN Then(S, "swap", <<c, cur[2]>>)
           ELSE IF Yes(St) THEN Then(S, "p1d", <<c + 1, 1>>)
           ELSE Then(S, "p1d", next)
    /\ UNCHANGED hist

\* The end of clone_one_inode: the clone is written, then the original, and
\* then the clone is deleted with what was the original's.
swap_clone ==
    /\ pc = "swap"
    /\ LET c == cur[1]
           k == cur[2]
           next == IF k < Len(m.own[c]) THEN <<c, k + 1>> ELSE <<c + 1, 1>>
       IN  IF d.ino[m.clone.ino] # SwapList(m.clone.cdi, m.clone.odi)
           THEN Then(WriteClone(St), "swap", cur)
           ELSE IF d.ino[m.clone.orig] # SwapList(m.clone.odi, m.clone.cdi)
           THEN Then(WriteOriginal(St), "swap", cur)
           ELSE Then(DeleteClone(St), "p1d", next)
    /\ UNCHANGED hist

o2fsck_pass2 ==
    /\ pc = "p2"
    /\ LET more == {b \in m.dblk : b.k > cur[1]}
           b == CHOOSE x \in more : \A y \in more : x.k <= y.k
       IN  IF more = {} THEN Then(o2fsck_pass3_init(St), "p3", <<0, 1>>)
           ELSE Then(pass2_dir_block_iterate(St, b), "p2", <<b.k, 1>>)
    /\ UNCHANGED hist

o2fsck_pass3 ==
    /\ pc = "p3"
    /\ LET more == {i \in Inodes : i > cur[1] /\ m.dp[i].on}
           i == CHOOSE x \in more : \A y \in more : x <= y
       IN  IF more = {} THEN Then(St, "p4", <<0, 1>>)
           ELSE Then(connect_directory(St, i), "p3", <<i, 1>>)
    /\ UNCHANGED hist

\* cur[1] = 0 is the orphan directory.
o2fsck_pass4 ==
    /\ pc = "p4"
    /\ \E garbage \in BOOLEAN :
       LET more == {i \in Inodes : i >= cur[1] /\ (m.refs[i] # 0 \/ m.in[i] # 0)}
           i == CHOOSE x \in more : \A y \in more : x <= y
       IN  IF cur[1] = 0
           THEN \E r \in {replay_orphan_dir(St, cur[2], FALSE, garbage)} :
                    Then(IF r.err THEN End(r.s, "error") ELSE r.s, "p4",
                         IF r.next = 0 THEN <<1, 1>> ELSE <<0, r.next>>)
           ELSE IF more = {} THEN Then(St, "end", <<0, 1>>)
           ELSE Then(check_link_counts(St, i), "p4", <<i + 1, 1>>)
    /\ UNCHANGED hist

\* The run had to make a directory that every volume has.  The counts it keeps
\* do not follow: a second run is needed.
Remade == q \cap {"ROOT_DIR_MISSING", "LOSTFOUND_MISSING"} # {}

\* The end of main: a recovery that failed is tried again after passes that
\* went well, and the run is good whether or not it fails again.
RecoverAgain ==
    /\ pc = "end" /\ m.fate = "run" /\ m.recerr
    /\ Become([St EXCEPT !.m.recerr = FALSE]) /\ Goto("again", <<1, 1>>)
    /\ UNCHANGED hist
Finish ==
    /\ pc = "end" /\ m.fate # "hang" /\ (m.fate = "run" => ~m.recerr)
    /\ LET fate == IF m.fate = "run" THEN "ok" ELSE m.fate
       IN  /\ Become(End(St, fate))
           /\ hist' = [hist EXCEPT !.end = fate, !.full = m.force, !.early = m.early,
                          !.good = IF RW(St) /\ m.force
                                   THEN /\ fate = "ok" /\ ~m.early
                                        /\ ~Remade /\ "DUP_CLUSTERS_CLONE" \notin q
                                   ELSE @]
    /\ Goto("off", <<0, 1>>)

\* A run that writes is killed.
Kill ==
    /\ pc \notin {"off", "make"} /\ hist.mode = "y" /\ hist.kills < MaxKills
    /\ hist' = [hist EXCEPT !.kills = @ + 1, !.end = "killed", !.good = FALSE]
    /\ m' = o2fsck_state_init("n", FALSE, FALSE)
    /\ q' = {} /\ Goto("off", <<0, 1>>) /\ d' = d

Next == \/ MakeFiles \/ Wreck \/ Start \/ Recover \/ o2fsck_pass1 \/ o2fsck_pass1d \/ swap_clone
        \/ o2fsck_pass2 \/ o2fsck_pass3 \/ o2fsck_pass4
        \/ RecoverAgain \/ Finish \/ Kill

Spec == Init /\ [][Next]_vars

---------------------------------------------------------------------------
(* A volume without faults.                                                *)

ValidInodes(v) == {i \in Inodes : v.ino[i].sig /\ v.ino[i].valid /\ v.ino[i].gen}
Dirs(v) == {i \in ValidInodes(v) : v.ino[i].mode = "dir"}
Owns(v, i) == IF HasExtents(v.ino[i]) THEN ClustersOf(v, v.ino[i]) ELSE {}
Window(v) == {v.la.off + b : b \in {x \in 0 .. v.la.total - 1 : x \notin v.la.set}}
Log(v) == UNION {v.tl.recs[k].start .. v.tl.recs[k].start + v.tl.recs[k].len - 1 :
                     k \in {x \in 1 .. v.tl.used : v.tl.recs[x].start # 0}}
Used(v) == {0} \cup UNION {Owns(v, i) : i \in ValidInodes(v)} \cup Window(v) \cup Log(v)
\* The entries of all directories.
Refs(v) == FoldSet(LAMBDA dir, entries : entries \o DirEnts(v, dir), <<>>, Dirs(v))
Parents(v, i) == {dir \in Dirs(v) : \E e \in ToSet(DirEnts(v, dir)) : e.i = i /\ e.n \notin Dots}

\* What is found from the root and the system directory, by name.
RECURSIVE Found(_, _)
Found(v, found) ==
    With(found \cup {e.i : e \in {x \in UNION {ToSet(DirEnts(v, dir)) : dir \in found \cap Dirs(v)} :
                                     x.i # 0 /\ x.n \notin Dots}}, LAMBDA more :
        IF more = found THEN found ELSE Found(v, more))

\* A run that checked everything, was allowed to repair it and said it is good.
Repaired == pc = "off" /\ hist.end = "ok" /\ hist.full /\ hist.mode = "y"

\* After such a run the bitmaps have exactly the inodes in use and the clusters
\* of their extents, of the window and of the log, and no cluster has two
\* owners, whatever was damaged and wherever an earlier run was killed.  This is
\* where the slots had nothing to recover: see LibraryReadsOffDisk.  Clusters are
\* lost only when a run was killed between the two writes of swap_clone for a
\* file with an extent block: the next run finds the block in two inodes, and
\* deletes it with the first.
AllocatorsRepaired ==
    Repaired /\ ~hist.early =>
        /\ Used(d) \subseteq d.bits
        /\ d.bits = Used(d) \/ (hist.kills > 0 /\ hist.code = "DUP_CLUSTERS_TREE")
        /\ d.ibits = ValidInodes(d)
        /\ \A i, j \in ValidInodes(d) : i # j => Owns(d, i) \cap Owns(d, j) = {}

\* After such a run every inode in use is found from the root or the system
\* directory, a directory has one name and its ".." is the directory with that
\* name, and every entry is that of an inode in use and has its type.  The link
\* count of an inode is the number of entries with its number, unless the run had
\* to make a root or lost+found.  An orphan without links counts as one with a
\* link, wherever its name is.  Two things are beyond the run.  A ring of
\* directories is not found: the walk of connect_directory that starts in it comes
\* back to where it started, and takes that for connected.  And a block with an
\* entry whose inode no allocator covers is left as it is (m.dret), with what is
\* named after that entry linked to lost+found a second time.
TreeRepaired ==
    Repaired =>
        /\ ValidInodes(d) \subseteq Found(d, {d.root, SysDir}) \/ hist.code = "DIR_RING"
        /\ m.dret \/ \A dir \in Dirs(d) \ {d.root, SysDir} :
                          Parents(d, dir) = {ocfs2_lookup(d, dir, DotDot)}
        /\ m.dret \/ \A dir \in Dirs(d) : \A e \in ToSet(DirEnts(d, dir)) :
                          e.i # 0 => e.i \in ValidInodes(d) /\ e.t = d.ino[e.i].mode
        /\ ~Remade /\ ~m.dret =>
               LET entries == Refs(d) IN
               \A i \in ValidInodes(d) :
                   Len(SelectSeq(entries, LAMBDA e : e.i = i)) =
                       IF d.ino[i].orph /\ d.ino[i].links = 0 THEN 1 ELSE d.ino[i].links

\* A run over a volume that a run has repaired has nothing to ask, but for the
\* inodes of an older volume that -G takes in and for the cluster count of a
\* clone, which copy_clone does not set.
QuietAfterRepair == hist.good /\ ~m.fixgen /\ pc \notin {"off", "make"} => q = {}

\* With -y a run ends well for every damage but two: the clusters of a record
\* that reaches past the end of the volume are marked before the record is
\* repaired, which aborts the program; and an orphan directory that pass 4 made
\* anew is not the one that it reads.  No run walks its directory blocks for ever.
YesEndsWell ==
    /\ m.fate # "hang"
    /\ pc = "off" /\ hist.mode = "y" /\ hist.end \in {"error", "abort"} =>
           hist.code \in {"EXTENT_CLUSTERS_OVERRUN", "ORPHAN_DIR_MISSING"}

\* In every state, also in the middle of the cloning of a file and after a kill
\* there, the two files have the data they had when the volume was damaged: no
\* allocation takes a cluster of a file and no repair but that of a lost list
\* gives one up.
DataKept ==
    pc # "make" /\ hist.code \notin Dropped =>
        \A i \in {F, B} : ExtentsReadable(d, d.ino[i]) => Content(d, i) = hist.was[i]

\* The comment at pass1.c:87: what pass 1 has written at its end the library
\* reads off the disk for use from then on.
LibraryReadsOffDisk ==
    pc \in {"p2", "p3", "p4"} /\ m.lib.clus # NotLoaded => m.lib.clus = d.bits
===========================================================================
