----------------------------- MODULE FsckDups -----------------------------
(***************************************************************************)
(* Passes 1b and 1d of fsck.ocfs2 (pass1b.c): who owns the clusters that   *)
(* pass 1 met twice, and the copies that break the claims.                 *)
(*                                                                         *)
(* S.m.own gives the owners of a cluster in the order of the inode scan,   *)
(* S.m.done the inodes that have been cloned.  A clone in progress,        *)
(* S.m.clone, has the two inodes as the program read them.                 *)
(***************************************************************************)
EXTENDS FsckInodes

\* pass1b_process_inode, for the inodes that have an extent list.
HasExtents(di) ==
    /\ di.kind \notin {"lalloc", "dealloc"}
    /\ ~(di.mode = "lnk" /\ di.clusters = 0)
pass1b_process_inode(S, i) ==
    LET di == S.d.ino[i] IN
    With(IF HasExtents(di) THEN ClustersOf(S.d, di) \cap S.m.dups ELSE {}, LAMBDA mine :
    LET own == S.m.own
        Add(c) == IF c \notin DOMAIN own THEN <<i>> ELSE Append(own[c], i) IN
        IF ~(di.sig /\ di.gen /\ di.valid) THEN S
        ELSE IF HasExtents(di) /\ ~ExtentsReadable(S.d, di) THEN End(S, "error")
        ELSE [S EXCEPT !.m.own = [c \in DOMAIN own \cup mine |->
                                      IF c \in mine THEN Add(c) ELSE own[c]]])
o2fsck_pass1b(S) == InTurn(LAMBDA s, i : IF Running(s) THEN pass1b_process_inode(s, i) ELSE s,
                             S, [i \in Inodes |-> i])

\* count_func over the owners of a cluster.
Unhandled(S, c) == Cardinality({k \in DOMAIN S.m.own[c] : S.m.own[c][k] \notin S.m.done})

\* The clusters pass 1d has still to look at, from c on.
Claimed(S, c) == {x \in DOMAIN S.m.own : x >= c /\ Unhandled(S, x) >= 2}

---------------------------------------------------------------------------
(* clone_one_inode, in the steps that the device sees.                     *)

InClusters(di) == IF di.mode = "lnk" THEN 1 ELSE di.size

\* new_clone: an inode of the same mode with as many clusters as the size of
\* the original; it is deleted again when they cannot be had, and then the
\* clusters it has got by then stay allocated.
new_clone(S, i) ==
    LET o == S.d.ino[i] IN
    With(ocfs2_new_inode(S, o.mode), LAMBDA n :
    With(ocfs2_extend_allocation(n.s, n.ino, InClusters(o)), LAMBDA x :
    With([x.s EXCEPT !.d.ino[n.ino].size = o.size], LAMBDA S1 :
        IF n.ino = 0 THEN n.s
        ELSE IF ~x.ok THEN ocfs2_delete_inode(x.s, n.ino)
        ELSE [S1 EXCEPT !.m.clone = [orig |-> i, ino |-> n.ino, odi |-> o,
                                     cdi |-> S1.d.ino[n.ino]]])))

\* copy_clone: the data of every position; a hole is read as zeros.
DataAt(d, di, p) ==
    With(SelectSeq(ocfs2_block_iterate(d, di), LAMBDA b : b[1] = p), LAMBDA at :
        IF at = <<>> THEN NoData ELSE d.data[at[1][2]])
CopyNothing(S) ==   \* mutant: the clone keeps what its clusters held
    IF S.m.clone = NoClone THEN S ELSE S
copy_clone(S) ==
    LET k == S.m.clone
        to == ocfs2_block_iterate(S.d, k.cdi)
        Copy(s, p) == [s EXCEPT !.d.data[p[2]] = DataAt(S.d, k.odi, p[1])]
    IN  InTurn(Copy, S, to)

\* swap_clone writes the clone with the extents of the original first, and
\* then the original with those of the clone.
SwapList(di, from) == PutList(di, List(from))
WriteClone(S) ==
    ocfs2_write_inode(S, S.m.clone.ino, SwapList(S.m.clone.cdi, S.m.clone.odi))
WriteOriginal(S) ==
    ocfs2_write_inode(S, S.m.clone.orig, SwapList(S.m.clone.odi, S.m.clone.cdi))

\* can_free and pass1d_free_clusters: a duplicate goes back to the bitmap with
\* the last inode that claims it.
can_free(S, c) == Unhandled(S, c) <= 1
pass1d_free_clusters(S, cs) ==
    ocfs2_free_clusters(S, {c \in cs : c \in S.m.dups => can_free(S, c)})

delete_one_inode(S, i) ==
    LET S1 == ocfs2_truncate_full(S, i,
                  InTurn(LAMBDA s, r : pass1d_free_clusters(s, RunOf(r)),
                         S, LeafRuns(S.d, S.d.ino[i])))
    IN  [ocfs2_delete_inode(S1, i) EXCEPT !.m.in[i] = 0]

\* The clone, which now has the extents of the original, is deleted, and the
\* original has been handled.
DeleteClone(S) ==
    [delete_one_inode(S, S.m.clone.ino) EXCEPT
        !.m.done = @ \cup {S.m.clone.orig}, !.m.clone = NoClone]

\* fix_dups_func: the question, and the first step of the answer.
fix_dups_func(S, i) ==
    LET S1 == prompt(S, IF S.d.ino[i].sys THEN "DUP_CLUSTERS_SYSFILE_CLONE"
                        ELSE "DUP_CLUSTERS_CLONE") IN
    With(new_clone(S1, i), LAMBDA S2 :
        IF ~Yes(S) THEN IF S.d.ino[i].sys THEN S1 ELSE prompt(S1, "DUP_CLUSTERS_DELETE")
        ELSE IF S2.m.clone = NoClone THEN S2 ELSE copy_clone(S2))
===========================================================================
