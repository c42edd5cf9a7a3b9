------------------------------ MODULE Fswreck ------------------------------
(***************************************************************************)
(* A volume with a few files on it, and what fswreck does to such a        *)
(* volume: each damage is one of the corruptions that fsck.ocfs2 has a     *)
(* code for.  fswreck makes a file or a directory for the damage it is     *)
(* asked for; here the files are there already, and the damage is all.     *)
(***************************************************************************)
EXTENDS FsckDirs

Root == 1
OrphanD == 3
Lost == 4
D == 8        \* the directory that has the files below
F == 9        \* a file with two names
L == 11       \* a symbolic link
E == 10       \* a directory in D
O == 12       \* an orphan
B == 13       \* a file whose extents are in an extent block

Name(k) == <<"n", k>>

\* What mkfs.ocfs2 leaves: the system files, the root and lost+found, with the
\* window of the local alloc and the log of the truncates empty.
Blank ==
    [root |-> Root, ino |-> [i \in Inodes |-> FreeInode], ibits |-> SysInodes \ {7},
     bits |-> {0}, data |-> [c \in Clusters |-> NoData],
     ebs |-> [e \in 1 .. NE |-> NoEb], la |-> EmptyWindow,
     tl |-> [count |-> TlMax, used |-> 0, recs |-> [k \in 1 .. TlMax |-> NoLogRec]],
     inl |-> FALSE, sparse |-> FALSE]
Formatted(inl, sparse) ==
    LET S0 == [d |-> [Blank EXCEPT !.inl = inl, !.sparse = sparse],
               m |-> NewState, q |-> {}]
        Dir(S, i, parent) ==
            [ocfs2_init_dir([S EXCEPT !.d.ino[i] = ocfs2_init_inode(S.d, "dir", i \notin {Root, Lost})],
                            i, parent).s EXCEPT !.d.ino[parent].links = IF i = parent THEN 2 ELSE @]
        File(S, i, kind) == [S EXCEPT !.d.ino[i] = [ocfs2_init_inode(S.d, "reg", TRUE) EXCEPT
                                                       !.kind = kind]] IN
    With(Dir(Dir(Dir(Dir(S0, Root, Root), SysDir, SysDir), OrphanD, SysDir), Lost, Root), LAMBDA S1 :
    With(ocfs2_link(S1, Root, LostFound, Lost, "dir").s, LAMBDA S2 :
    With(ocfs2_link(S2, SysDir, OrphanDir, OrphanD, "dir").s, LAMBDA S3 :
    With(ocfs2_link(S3, SysDir, <<"local_alloc", 0>>, LocalAlloc, "reg").s, LAMBDA S4 :
    With(ocfs2_link(S4, SysDir, <<"truncate_log", 0>>, TruncateLog, "reg").s, LAMBDA S5 :
        File(File(S5, LocalAlloc, "lalloc"), TruncateLog, "dealloc"))))))

\* The files: create_named_directory, create_file, create_symlink and the
\* orphan of create_orphaned_inodes; then a window and a log as a node leaves
\* them behind.
Fill(S, i) ==
    LET at == ocfs2_block_iterate(S.d, S.d.ino[i])
        Tag(s, p) == [s EXCEPT !.d.data[p[2]] = [@ EXCEPT !.tag = <<i, p[1]>>, !.str = 2]]
    IN  InTurn(Tag, [S EXCEPT !.d.ino[i].size = S.d.ino[i].clusters], at)
create_file(S, dir, name, n) ==
    With(ocfs2_new_inode(S, "reg"), LAMBDA a :
    LET b == ocfs2_extend_allocation(a.s, a.ino, n).s IN
        Fill(ocfs2_link(b, dir, name, a.ino, "reg").s, a.ino))
create_named_directory(S, dir, name) ==
    With(ocfs2_new_inode(S, "dir"), LAMBDA a :
        ocfs2_link(ocfs2_init_dir(a.s, a.ino, dir).s, dir, name, a.ino, "dir").s)
create_symlink(S, dir, name) ==
    With(ocfs2_new_inode(S, "lnk"), LAMBDA a :
    With(ocfs2_extend_allocation(a.s, a.ino, 1).s, LAMBDA b :
    With(CHOOSE x \in ClustersOf(b.d, b.d.ino[a.ino]) : TRUE, LAMBDA c :
        [ocfs2_link(b, dir, name, a.ino, "lnk").s EXCEPT
            !.d.ino[a.ino].size = 3, !.d.data[c].str = 3, !.d.data[c].tag = <<a.ino, 0>>])))

\* custom_extend_allocation: the records are moved to an extent block.
custom_extend_allocation(S, i) ==
    [S EXCEPT !.d.ino[i] = [@ EXCEPT !.depth = 1, !.nfree = 1,
                               !.recs = [Recs(RootRecs) EXCEPT
                                   ![1] = [cpos |-> 0, len |-> S.d.ino[i].clusters, start |-> 1,
                                           al |-> TRUE]]],
              !.d.ebs[1] = [NoEb EXCEPT !.sig = TRUE, !.nfree = S.d.ino[i].nfree,
                               !.recs = [k \in 1 .. EbRecs |->
                                   IF k <= RootRecs THEN S.d.ino[i].recs[k] ELSE NoRec]]]

\* The steps in which the volume is filled.
Made == 7
Make(S, k) ==
    LET F2 == [ocfs2_link(S, D, Name(1), F, "reg").s EXCEPT !.d.ino[F].links = 2]
        O1 == create_file(S, OrphanD, Name(O), 1) IN
    With(ocfs2_new_clusters(S, 3), LAMBDA window :
    With(CHOOSE c \in window.got : \A x \in window.got : c <= x, LAMBDA w :
    LET two == Fill([window.s EXCEPT !.d.ino[B] = InsertLast(S.d.ino[B], 1, {w + 1})], B)
        off == S.d.ebs[1].recs[2].start - 1 IN
    With(ocfs2_new_clusters(ocfs2_chain_alloc_with_io(S, "clus", {off, off + 2}), 1), LAMBDA log :
        CASE k = 1 -> create_file(create_named_directory(S, Root, Name(D)), D, Name(F), 2)
          [] k = 2 -> create_named_directory(F2, D, Name(E))
          [] k = 3 -> create_symlink(S, D, Name(L))
          [] k = 4 -> [O1 EXCEPT !.d.ino[O].orph = TRUE, !.d.ino[O].links = 0]
          [] k = 5 -> create_file(S, E, Name(B), 1)
          [] k = 6 -> ocfs2_free_clusters(custom_extend_allocation(two, B), {w, w + 2})
          [] k = 7 -> [log.s EXCEPT !.d.tl.used = 1,
                          !.d.la = [EmptyWindow EXCEPT !.total = 3, !.used = 1, !.off = off, !.set = {1}],
                          !.d.tl.recs[1] = [start |-> CHOOSE c \in log.got : TRUE, len |-> 1]])))

---------------------------------------------------------------------------
(* The damages, by the file of fswreck they are in.                        *)

Damage(code, d) == [code |-> code, d |-> d]
Ino(d, code, i, F1(_)) == Damage(code, [d EXCEPT !.ino[i] = F1(d.ino[i])])

mess_up_inode_field(d) ==
    {Ino(d, "INODE_GEN", F, LAMBDA x : [x EXCEPT !.gen = FALSE]),
     Ino(d, "INODE_BLKNO", F, LAMBDA x : [x EXCEPT !.bno = FALSE]),
     Ino(d, "INODE_NZ_DTIME", F, LAMBDA x : [x EXCEPT !.dt = TRUE]),
     Ino(d, "INODE_SUBALLOC", F, LAMBDA x : [x EXCEPT !.slot = FALSE]),
     Ino(d, "INODE_SIZE", F, LAMBDA x : [x EXCEPT !.size = @ + 2]),
     Ino(d, "INODE_SPARSE_SIZE", F, LAMBDA x : [x EXCEPT !.size = 1]),
     Ino(d, "INODE_CLUSTERS", F, LAMBDA x : [x EXCEPT !.clusters = 0]),
     Ino(d, "INODE_COUNT", F, LAMBDA x : [x EXCEPT !.links = 0])}
mess_up_inode_alloc(d) == {Ino(d, "INODE_ALLOC_REPAIR", F, LAMBDA x : [x EXCEPT !.valid = FALSE])}
mess_up_inline_flag(d) ==
    IF d.inl THEN {}
    ELSE {Ino(d, "INLINE_DATA_FLAG_INVALID", F, LAMBDA x : [x EXCEPT !.kind = "xinl"])}
mess_up_inline_inode(d) ==
    IF ~d.inl THEN {}
    ELSE {Ino(d, "INLINE_DATA_COUNT_INVALID", Lost, LAMBDA x : [x EXCEPT !.icnt = FALSE]),
          Ino(d, "INODE_INLINE_SIZE", Lost, LAMBDA x : [x EXCEPT !.size = 2]),
          Ino(d, "INODE_INLINE_CLUSTERS", Lost, LAMBDA x : [x EXCEPT !.clusters = 1])}
\* Two files with one record of clusters between them.
mess_up_dup_clusters(d) ==
    {Ino(d, "DUP_CLUSTERS_CLONE", L, LAMBDA x : [x EXCEPT !.recs[1].start = d.ino[F].recs[1].start]),
     Ino(d, "DUP_CLUSTERS_TREE", F, LAMBDA x : [x EXCEPT !.recs[1].start = d.ebs[1].recs[1].start])}
mess_up_root(d) ==
    {Ino(d, "ROOT_NOTDIR", Root, LAMBDA x : [x EXCEPT !.mode = "none"])}

corrupt_symlink_file(d) ==
    LET c == d.ino[L].recs[1].start IN
    {Damage("LINK_NULLTERM", [d EXCEPT !.data[c].str = NoNull, !.ino[L].size = NoNull]),
     Damage("LINK_SIZE", [d EXCEPT !.ino[L].size = @ + 1]),
     Damage("LINK_BLOCKS", [d EXCEPT !.ino[L].recs[1].len = @ + 1])}

Eb(d, code, F1(_)) == Damage(code, [d EXCEPT !.ebs[1] = F1(d.ebs[1])])
damage_extent_block(d) ==
    {Eb(d, "EB_BLKNO", LAMBDA x : [x EXCEPT !.bno = FALSE]),
     Eb(d, "EB_GEN", LAMBDA x : [x EXCEPT !.gen = FALSE]),
     Eb(d, "EXTENT_EB_INVALID", LAMBDA x : [x EXCEPT !.sig = FALSE]),
     Eb(d, "EXTENT_LIST_DEPTH", LAMBDA x : [x EXCEPT !.depth = 1]),
     Eb(d, "EXTENT_LIST_COUNT", LAMBDA x : [x EXCEPT !.count = EbRecs + 1]),
     Eb(d, "EXTENT_LIST_FREE", LAMBDA x : [x EXCEPT !.nfree = EbRecs + 2])}
mess_up_record(d) ==
    {Ino(d, "EXTENT_BLKNO_UNALIGNED", F, LAMBDA x : [x EXCEPT !.recs[1].al = FALSE]),
     Ino(d, "EXTENT_CLUSTERS_OVERRUN", F, LAMBDA x : [x EXCEPT !.recs[1].len = NC + 1]),
     Ino(d, "EXTENT_BLKNO_RANGE", F, LAMBDA x : [x EXCEPT !.recs[1].start = NC + 2])}

La(d, code, F1(_)) == Damage(code, [d EXCEPT !.la = F1(d.la)])
mess_up_local_alloc_empty(d) ==
    {La(d, "LALLOC_SIZE", LAMBDA x : [x EXCEPT !.szok = FALSE]),
     La(d, "LALLOC_NZ_USED", LAMBDA x : [x EXCEPT !.total = 0, !.off = 0]),
     La(d, "LALLOC_NZ_BM", LAMBDA x : [x EXCEPT !.total = 0, !.used = 0])}
mess_up_local_alloc_bitmap(d) ==
    {La(d, "LALLOC_BM_OVERRUN", LAMBDA x : [x EXCEPT !.off = NC + 1]),
     La(d, "LALLOC_BM_SIZE", LAMBDA x : [x EXCEPT !.total = LaMax + 1])}
mess_up_local_alloc_used(d) ==
    {La(d, "LALLOC_USED_OVERRUN", LAMBDA x : [x EXCEPT !.used = x.total + 1])}
corrupt_local_alloc(d) ==
    mess_up_local_alloc_empty(d) \cup mess_up_local_alloc_bitmap(d)
    \cup mess_up_local_alloc_used(d)

Tl(d, code, F1(_)) == Damage(code, [d EXCEPT !.tl = F1(d.tl)])
mess_up_truncate_log_list(d) ==
    {Tl(d, "DEALLOC_COUNT", LAMBDA x : [x EXCEPT !.count = TlMax + 1]),
     Tl(d, "DEALLOC_USED", LAMBDA x : [x EXCEPT !.used = TlMax + 1])}
mess_up_truncate_log_rec(d) ==
    {Tl(d, "TRUNCATE_REC_START_RANGE", LAMBDA x : [x EXCEPT !.recs[1].start = NC + 1]),
     Tl(d, "TRUNCATE_REC_WRAP", LAMBDA x : [x EXCEPT !.recs[2] = [start |-> 10, len |-> Wrap - 1],
                                                     !.used = 2]),
     Tl(d, "TRUNCATE_REC_RANGE", LAMBDA x : [x EXCEPT !.recs[2] = [start |-> 1, len |-> NC + 1],
                                                      !.used = 2])}
corrupt_truncate_log(d) == mess_up_truncate_log_list(d) \cup mess_up_truncate_log_rec(d)

\* damage_dir_content: the entry of E in D, or one of the dots of E.
At(d, dir, name) == CHOOSE p \in (1 .. Len(DirBlocks(d, dir))) \X (1 .. DirMax) :
                        /\ p[2] <= Len(DirBlocks(d, dir)[p[1]][2])
                        /\ DirBlocks(d, dir)[p[1]][2][p[2]].n = name
Entry(d, code, dir, name, F1(_)) ==
    With(At(d, dir, name), LAMBDA p :
    With(DirBlocks(d, dir)[p[1]], LAMBDA b :
        Damage(code, PutBlock([d |-> d], dir, b[1], [b[2] EXCEPT ![p[2]] = F1(b[2][p[2]])]).d)))
mess_up_dir_ent(d) ==
    {Entry(d, "DIRENT_ZERO", D, Name(E), LAMBDA e : [e EXCEPT !.n = <<"", 0>>]),
     Entry(d, "DIRENT_NAME_CHARS", D, Name(E), LAMBDA e : [e EXCEPT !.n = <<"/", 0>>]),
     Entry(d, "DIRENT_INODE_RANGE", D, Name(E), LAMBDA e : [e EXCEPT !.i = Nowhere]),
     Entry(d, "DIRENT_INODE_FREE", D, Name(E), LAMBDA e : [e EXCEPT !.i = NI]),
     Entry(d, "DIRENT_INODE_FREE", D, Name(E), LAMBDA e : [e EXCEPT !.i = Uncovered]),
     Entry(d, "DIRENT_TYPE", D, Name(E), LAMBDA e : [e EXCEPT !.t = "unk"]),
     Entry(d, "DIRENT_DUPLICATE", D, Name(E), LAMBDA e : [e EXCEPT !.n = Name(F)]),
     Entry(d, "DIRENT_LENGTH", D, Name(E), LAMBDA e : [e EXCEPT !.len = "rec"]),
     Entry(d, "DIRENT_LENGTH", D, Name(E), LAMBDA e : [e EXCEPT !.len = "name"])}
mess_up_dir_dot(d) ==
    {Entry(d, "DIRENT_DOTTY_DUP", D, Name(E), LAMBDA e : [e EXCEPT !.n = DotDot]),
     Entry(d, "DIRENT_NOT_DOTTY", E, Dot, LAMBDA e : [e EXCEPT !.n = Name(77)]),
     Entry(d, "DIRENT_DOT_INODE", E, Dot, LAMBDA e : [e EXCEPT !.i = F]),
     Entry(d, "DIR_DOTDOT", E, DotDot, LAMBDA e : [e EXCEPT !.i = Lost])}
mess_up_dir_parent_dup(d) ==
    {Damage("DIR_PARENT_DUP", ocfs2_link([d |-> d, m |-> NewState], Lost, Name(E), E, "dir").s.d)}
mess_up_dir_inode(d) ==
    IF d.inl THEN {} ELSE {Ino(d, "DIR_ZERO", E, LAMBDA x : [x EXCEPT !.nfree = 0])}
\* mess_up_dir_not_connected and mess_up_inode_not_connected: no entry.
mess_up_dir_not_connected(d) ==
    {Entry(d, "DIR_NOT_CONNECTED", D, Name(E), LAMBDA e : [e EXCEPT !.i = 0]),
     Entry(d, "INODE_NOT_CONNECTED", D, Name(L), LAMBDA e : [e EXCEPT !.i = 0]),
     Entry(d, "LOSTFOUND_MISSING", Root, LostFound, LAMBDA e : [e EXCEPT !.i = 0]),
     Entry(d, "ORPHAN_DIR_MISSING", SysDir, OrphanDir, LAMBDA e : [e EXCEPT !.i = 0])}

\* Not one of fswreck: D and E are each other's parent, as two renames that crossed
\* would leave them.
dir_ring(d) ==
    With(Entry(d, "DIR_RING", Root, Name(D), LAMBDA e : [e EXCEPT !.i = 0]).d, LAMBDA cut :
    With(Entry(cut, "DIR_RING", D, DotDot, LAMBDA e : [e EXCEPT !.i = E]).d, LAMBDA up :
        {Damage("DIR_RING",
                [ocfs2_link([d |-> up, m |-> NewState], E, Name(D), D, "dir").s.d EXCEPT
                     !.ino[Root].links = @ - 1, !.ino[E].links = @ + 1])}))

\* fswreck has the name of this one but dies of it: the bit of a cluster of F is
\* clear, or that of the last cluster set.
cluster_alloc_bit(d) ==
    {Damage("CLUSTER_ALLOC_BIT", [d EXCEPT !.bits = @ \ {d.ino[F].recs[1].start}]),
     Damage("CLUSTER_ALLOC_BIT", [d EXCEPT !.bits = @ \cup {NC - 1}])}

Damages(d) ==
    {Damage("none", d)} \cup dir_ring(d) \cup cluster_alloc_bit(d) \cup mess_up_inode_field(d) \cup mess_up_inode_alloc(d)
    \cup mess_up_inline_flag(d) \cup mess_up_inline_inode(d) \cup mess_up_dup_clusters(d)
    \cup mess_up_root(d) \cup corrupt_symlink_file(d) \cup damage_extent_block(d)
    \cup mess_up_record(d) \cup corrupt_local_alloc(d) \cup corrupt_truncate_log(d)
    \cup mess_up_dir_ent(d) \cup mess_up_dir_dot(d) \cup mess_up_dir_parent_dup(d)
    \cup mess_up_dir_inode(d) \cup mess_up_dir_not_connected(d)
============================================================================
