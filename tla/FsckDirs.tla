----------------------------- MODULE FsckDirs -----------------------------
(***************************************************************************)
(* Passes 2, 3 and 4 of fsck.ocfs2: the directory blocks (pass2.c), the    *)
(* tree of directories (pass3.c), the orphan directory and the link counts *)
(* (pass4.c), and the recovery of the slots before and after the passes.   *)
(*                                                                         *)
(* The passes ask the library whether an inode is allocated.  In pass 2,   *)
(* Y.b is the block in memory, Y.ch whether it has to be written and Y.err *)
(* an error, at which the rest of the block is left alone and not written; *)
(* S.m.dret, dd->ret of the code, is set then, and nobody reads it.        *)
(***************************************************************************)
EXTENDS FsckDups

CONSTANT
    Under     \* appended to the number of a name by one '_'

Nowhere == NI + 1       \* an inode number past the end of the volume
Uncovered == NI + 2     \* a block of the volume that no inode allocator covers
Dots == {Dot, DotDot}
OrphanDir == <<"orphan_dir", 0>>
LostFound == <<"lost+found", 0>>

\* A number that no allocator covers is an error, and taken for allocated.
o2fsck_test_inode_allocated(S, i) ==
    IF i \in Inodes THEN ocfs2_test_inode_allocated(S, i)
    ELSE [s |-> ocfs2_load_allocator(ocfs2_load_allocator(S, "sys"), "slot"), v |-> TRUE]
icount_delta(m, i, by) == [m EXCEPT !.refs[i] = @ + by]

Set(Y, k, e) == [Y EXCEPT !.b[k] = e, !.ch = TRUE]
ZapEnt(Y, k) == Set(Y, k, [Y.b[k] EXCEPT !.i = 0])
Live(Y, k) == ~Y.err /\ Y.b[k].i # 0

\* expected_dots: the first two entries of the first block.
expected_dots(D, k) == IF D.n = 0 /\ k <= 2 THEN k ELSE 0

\* fix_dirent_lengths: a name that does not fit loses the entry, a record whose
\* end is unknown loses the rest of the block.
fix_dirent_lengths(Y, k) ==
    IF Y.b[k].len = "name" THEN Set(Y, k, NoEnt)
    ELSE [Y EXCEPT !.b = Append(SubSeq(Y.b, 1, k - 1), NoEnt), !.ch = TRUE]

fix_dirent_dots(Y, D, k) ==
    LET x == expected_dots(D, k)
        e == Y.b[k] IN
    With(Fix(Y, e.n # (IF x = 1 THEN Dot ELSE IF x = 2 THEN DotDot ELSE <<"", 0>>),
             "DIRENT_NOT_DOTTY",
             LAMBDA Z : Set(Z, k, [e EXCEPT !.n = IF x = 1 THEN Dot ELSE DotDot, !.t = "dir"])), LAMBDA y1 :
    With(Fix(Y, TRUE, "DIRENT_DOTTY_DUP", LAMBDA Z : ZapEnt(Z, k)), LAMBDA dup :
    LET y2 == IF x > 0 THEN y1
              ELSE IF Yes(Y.s) THEN dup ELSE Fix(dup, TRUE, "DIRENT_NOT_DOTTY", LAMBDA Z : Z) IN
        IF x = 0 /\ (e.i = 0 \/ e.n \notin Dots) THEN Y
        ELSE IF x = 2
        THEN IF Y.s.m.dp[D.ino].on THEN [y1 EXCEPT !.s.m.dp[D.ino].dd = e.i]
             ELSE [y1 EXCEPT !.err = TRUE]
        ELSE IF x = 0 /\ Yes(Y.s) THEN dup
        ELSE Fix(y2, e.i # D.ino, "DIRENT_DOT_INODE",
                 LAMBDA Z : Set(Z, k, [Z.b[k] EXCEPT !.i = D.ino]))))

fix_dirent_name(Y, k) ==
    LET e == Y.b[k] IN
    Fix(Fix(Y, e.n[1] = "", "DIRENT_ZERO", LAMBDA Z : ZapEnt(Z, k)),
        e.n[1] = "/", "DIRENT_NAME_CHARS",
        LAMBDA Z : Set(Z, k, [e EXCEPT !.n = <<"./", e.n[2]>>]))

fix_dirent_inode(Y, k) ==
    LET e == Y.b[k] IN
    With(o2fsck_test_inode_allocated(Y.s, e.i), LAMBDA a :
    With(Fix(Y, e.i = Nowhere, "DIRENT_INODE_RANGE", LAMBDA Z : ZapEnt(Z, k)), LAMBDA y1 :
        IF e.i = Nowhere /\ Yes(Y.s) THEN y1
        ELSE Fix([y1 EXCEPT !.s.m.lib = a.s.m.lib], ~a.v, "DIRENT_INODE_FREE",
                 LAMBDA Z : ZapEnt(Z, k))))

\* The type comes from the sets of pass 1, or else from the inode.
fix_dirent_filetype(Y, k) ==
    LET e == Y.b[k]
        type == IF e.i \in Y.s.m.dirs THEN "dir" ELSE IF e.i \in Y.s.m.regs THEN "reg"
                ELSE Y.s.d.ino[e.i].mode
        known == e.i \in Inodes /\ (e.i \in Y.s.m.dirs \cup Y.s.m.regs \/ Y.s.d.ino[e.i].sig)
    IN  IF ~known THEN [Y EXCEPT !.err = TRUE]
        ELSE Fix(Y, e.t # type, "DIRENT_TYPE", LAMBDA Z : Set(Z, k, [e EXCEPT !.t = type]))

\* The first entry of a directory in another one is where it is linked.
LastParentWins(Y, D, k) ==   \* mutant: a second entry of a directory is not asked about
    LET i == Y.b[k].i IN
    IF expected_dots(D, k) > 0 \/ i \notin Y.s.m.dirs THEN Y
    ELSE [Y EXCEPT !.s.m.dp[i].dirent = D.ino]
fix_dirent_linkage(Y, D, k) ==
    LET i == Y.b[k].i IN
    IF expected_dots(D, k) > 0 \/ i \notin Y.s.m.dirs THEN Y
    ELSE IF ~Y.s.m.dp[i].on THEN [Y EXCEPT !.err = TRUE]
    ELSE IF Y.s.m.dp[i].dirent = 0 THEN [Y EXCEPT !.s.m.dp[i].dirent = D.ino]
    ELSE Fix(Y, TRUE, "DIR_PARENT_DUP", LAMBDA Z : ZapEnt(Z, k))

\* A second entry of a name gets as many '_' as it takes.
fix_dirent_dups(Y, k) ==
    LET e == Y.b[k]
        names == Y.s.m.names
        j == CHOOSE n \in 1 .. Cardinality(names) + 1 :
                 /\ <<e.n[1], e.n[2] + n * Under>> \notin names
                 /\ \A x \in 1 .. n - 1 : <<e.n[1], e.n[2] + x * Under>> \in names IN
    With(<<e.n[1], e.n[2] + j * Under>>, LAMBDA new :
        IF e.n \notin names THEN [Y EXCEPT !.s.m.names = @ \cup {e.n}]
        ELSE Fix(Y, TRUE, "DIRENT_DUPLICATE",
                 LAMBDA Z : [Set(Z, k, [e EXCEPT !.n = new]) EXCEPT !.s.m.names = @ \cup {new}]))

\* The entries of a block from k on, one after the other.
RECURSIVE Entries(_, _, _)
Entries(Y, D, k) ==
    With(Fix(Y, Y.b[k].len # "ok", "DIRENT_LENGTH", LAMBDA Z : fix_dirent_lengths(Z, k)), LAMBDA y0 :
    With(fix_dirent_dots(Y, D, k), LAMBDA y1 :
    With(IF Live(y1, k) THEN fix_dirent_name(y1, k) ELSE y1, LAMBDA y2 :
    With(IF Live(y2, k) THEN fix_dirent_inode(y2, k) ELSE y2, LAMBDA y3 :
    With(IF Live(y3, k) THEN fix_dirent_filetype(y3, k) ELSE y3, LAMBDA y4 :
    With(IF Live(y4, k) THEN fix_dirent_linkage(y4, D, k) ELSE y4, LAMBDA y5 :
    With(IF Live(y5, k) THEN fix_dirent_dups(y5, k) ELSE y5, LAMBDA y6 :
    LET y7 == IF Live(y6, k) THEN [y6 EXCEPT !.s.m = icount_delta(y6.s.m, y6.b[k].i, 1)] ELSE y6 IN
        IF k > Len(Y.b) \/ Y.err THEN Y
        ELSE IF Y.b[k].len # "ok" THEN IF Yes(Y.s) THEN Entries(y0, D, k) ELSE y0
        ELSE Entries(y7, D, k + 1))))))))

pass2_dir_block_iterate(S, D) ==
    With(o2fsck_test_inode_allocated(S, D.ino), LAMBDA a :
    With(IF S.m.last = D.ino THEN a.s
         ELSE [a.s EXCEPT !.m.last = D.ino, !.m.names = {}], LAMBDA S1 :
    LET di == S.d.ino[D.ino]
        b == IF D.c = 0 THEN di.ents ELSE S.d.data[D.c].ents IN
    With(Entries([s |-> S1, b |-> b, ch |-> FALSE, err |-> FALSE], D, 1), LAMBDA y :
    LET skip == \/ di.kind = "inl" /\ D.c # 0
                \/ di.kind # "inl" /\ (D.n >= di.size \/ D.c = 0) IN
        IF ~a.v THEN a.s
        ELSE IF skip THEN S1
        ELSE IF y.err THEN [y.s EXCEPT !.m.dret = TRUE]
        ELSE IF y.ch THEN PutBlock(y.s, D.ino, D.c, y.b) ELSE y.s)))

\* The root and the system directory are their own parents.
o2fsck_pass2_init(S) ==
    [S EXCEPT !.m.dp = [i \in Inodes |->
        IF i \in {S.d.root, SysDir} /\ S.m.dp[i].on THEN [@[i] EXCEPT !.dirent = i] ELSE @[i]]]

---------------------------------------------------------------------------
(* Pass 3.                                                                 *)

\* A root that is not allocated is made anew, and the super block with it.
check_root(S) ==
    With(ocfs2_test_inode_allocated(S, S.d.root), LAMBDA a :
    With(ocfs2_new_inode(prompt(a.s, "ROOT_DIR_MISSING"), "dir"), LAMBDA n :
    With(ocfs2_init_dir(n.s, n.ino, n.ino), LAMBDA x :
    LET S1 == o2fsck_add_dir_parent(x.s, n.ino, S.d.root, S.d.root, FALSE) IN
        IF a.v THEN a.s
        ELSE IF ~Yes(S) THEN prompt(a.s, "ROOT_DIR_MISSING")
        ELSE IF n.ino = 0 THEN n.s
        ELSE IF ~x.ok THEN ocfs2_delete_inode(x.s, n.ino)
        ELSE [S1 EXCEPT !.m.in[n.ino] = 1, !.m.refs[n.ino] = 1, !.d.root = n.ino])))

check_lostfound(S) ==
    With(ocfs2_lookup(S.d, S.d.root, LostFound), LAMBDA old :
    With(ocfs2_new_inode(prompt(S, "LOSTFOUND_MISSING"), "dir"), LAMBDA n :
    With(ocfs2_init_dir(n.s, n.ino, S.d.root), LAMBDA x :
    With(ocfs2_link(x.s, S.d.root, LostFound, n.ino, "dir"), LAMBDA l :
    LET S1 == o2fsck_add_dir_parent(l.s, n.ino, S.d.root, S.d.root, FALSE) IN
        IF old # 0 THEN [S EXCEPT !.m.lostfound = old]
        ELSE IF ~Yes(S) THEN prompt(S, "LOSTFOUND_MISSING")
        ELSE IF n.ino = 0 THEN n.s
        ELSE IF ~x.ok THEN ocfs2_delete_inode(x.s, n.ino)
        ELSE IF ~l.ok THEN ocfs2_delete_inode(l.s, n.ino)
        ELSE [S1 EXCEPT !.m.in[n.ino] = 2, !.m.refs[n.ino] = 2, !.m.lostfound = n.ino]))))

\* o2fsck_reconnect_file links an inode into lost+found by its number.
o2fsck_reconnect_file(S, i) ==
    With(IF S.m.lostfound # 0 THEN S.m.lostfound
         ELSE ocfs2_lookup(S.d, S.d.root, LostFound), LAMBDA lf :
    With(ocfs2_link(S, lf, <<"#", i>>, i, S.d.ino[i].mode), LAMBDA l :
    With([l.s EXCEPT !.m.lostfound = lf, !.m.refs[i] = @ + 1], LAMBDA S1 :
        IF lf = 0 THEN S
        ELSE IF ~S.d.ino[i].sig \/ ~l.ok THEN [l.s EXCEPT !.m.lostfound = lf]
        ELSE IF S.d.ino[i].mode = "dir" /\ S.m.dp[i].on THEN [S1 EXCEPT !.m.dp[i].dirent = lf]
        ELSE S1)))

\* fix_dot_dot: the first ".." entry is pointed to where the directory is.
fix_dot_dot(S, i) ==
    With(DirBlocks(S.d, i), LAMBDA bs :
    With({<<k, j>> \in (1 .. Len(bs)) \X (1 .. DirMax) :
              j <= Len(bs[k][2]) /\ bs[k][2][j].n = DotDot}, LAMBDA at :
    With(CHOOSE p \in at : \A q \in at : p[1] < q[1] \/ (p[1] = q[1] /\ p[2] <= q[2]), LAMBDA f :
    With(bs[f[1]][2][f[2]], LAMBDA e :
    LET to == S.m.dp[i].dirent
        m1 == IF e.i = 0 THEN S.m ELSE icount_delta(S.m, e.i, -1)
        S1 == [S EXCEPT !.m = icount_delta(m1, to, 1)] IN
        IF at = {} THEN S
        ELSE PutBlock([S1 EXCEPT !.m.dp[i].dd = to], i, bs[f[1]][1],
                      [bs[f[1]][2] EXCEPT ![f[2]].i = to])))))

\* connect_directory walks up from a directory until it meets one that is
\* connected, one without a parent, or one it has met on this walk.
RECURSIVE WalkUp(_, _)
WalkUp(S, i) ==
    LET dp == S.m.dp[i]
        S1 == [S EXCEPT !.m.dp[i].conn = TRUE]
        p == dp.dirent
        S2 == prompt(S1, "DIR_NOT_CONNECTED")
    IN  IF dp.conn THEN S
        ELSE IF p # 0 /\ (p \notin Inodes \/ ~S.m.dp[p].on) THEN End(S1, "error")
        ELSE IF p # 0 /\ S.m.dp[p].loop # S.m.loop
        THEN WalkUp([S1 EXCEPT !.m.dp[p].loop = S.m.loop], p)
        ELSE IF Yes(S) THEN o2fsck_reconnect_file(S2, i) ELSE S2
connect_directory(S, i) ==
    With(WalkUp([S EXCEPT !.m.loop = @ + 1], i), LAMBDA S1 :
    With(S1.m.dp[i], LAMBDA dp :
    LET Down(S0, k) == IF k \in Inodes THEN [S0 EXCEPT !.m = icount_delta(S0.m, k, -1)] ELSE S0 IN
    With(IF ~dp.orph THEN S1
         ELSE [Down(S1, dp.dd) EXCEPT !.m.dp[i].dd = dp.dirent,
                  !.m.refs = IF dp.dirent = 0 THEN @ ELSE [@ EXCEPT ![dp.dirent] = @ + 1]], LAMBDA S2 :
    With(prompt(S2, "DIR_DOTDOT"), LAMBDA S3 :
        IF ~Running(S1) THEN S1
        ELSE IF dp.orph \/ dp.dirent = dp.dd THEN S2
        ELSE IF Yes(S) THEN fix_dot_dot(S3, i) ELSE S3))))

\* o2fsck_pass3 up to the walk over all the directories.
o2fsck_pass3_init(S) ==
    With(check_lostfound(check_root(S)), LAMBDA S1 :
    IF ~(S1.m.dp[S1.d.root].on /\ S1.m.dp[SysDir].on) THEN End(S1, "error")
    ELSE [S1 EXCEPT !.m.dp[S1.d.root].conn = TRUE, !.m.dp[SysDir].conn = TRUE])

---------------------------------------------------------------------------
(* Pass 4.                                                                 *)

\* The n-th write for the entries of the orphan directory: each inode is truncated
\* and then deleted, and in a forced run the counts of pass 4 follow; the block is
\* written after the last of them.  A tree that cannot be read ends the iteration.
replay_orphan_iterate(S, dir, in, n) ==
    LET e == in[(n + 1) \div 2]
        S1 == IF S.m.force THEN prompt(S, "INODE_ORPHANED") ELSE S
        links == IF e.t = "dir" THEN 2 ELSE 1
        m1 == [S.m EXCEPT !.in[e.i] = @ - 1, !.refs[e.i] = @ - links]
        m2 == IF e.t = "dir" THEN icount_delta(m1, dir, -1) ELSE m1
        Zapped(s, b) == PutBlock(s, dir, b[1],
                           [k \in DOMAIN b[2] |-> IF b[2][k] \in ToSet(in)
                                                  THEN [b[2][k] EXCEPT !.i = 0] ELSE b[2][k]])
    IN  IF n > 2 * Len(in) THEN Part(Ok(InTurn(Zapped, S, DirBlocks(S.d, dir))), 0)
        ELSE IF n % 2 = 0
        THEN Part(Ok(ocfs2_delete_inode(IF S.m.force THEN [S EXCEPT !.m = m2] ELSE S, e.i)), n + 1)
        ELSE IF ~ExtentsReadable(S.d, S.d.ino[e.i]) THEN Part(Fails(S1), 0)
        ELSE Part(Ok(ocfs2_truncate(S1, e.i)), n + 1)

\* create_orphan_dir: the counts of the system directory follow, those of the
\* new directory are not recorded.
create_orphan_dir(S) ==
    With(ocfs2_new_system_inode(S, "dir"), LAMBDA n :
    With(ocfs2_init_dir(n.s, n.ino, SysDir), LAMBDA x :
    With(ocfs2_link(x.s, SysDir, OrphanDir, n.ino, "dir"), LAMBDA l :
        IF n.ino = 0 THEN n.s
        ELSE IF ~x.ok THEN x.s
        ELSE IF ~l.ok THEN l.s
        ELSE [l.s EXCEPT !.m.in[SysDir] = @ + 1, !.m.refs[SysDir] = @ + 1])))

\* replay_orphan_dir, in pass 4 and in slot recovery, which stops at a missing
\* directory.  Where pass 4 made the directory, or was told not to, the inode
\* it goes on to read was never set: garbage says whether that fails.
replay_orphan_dir(S, n, recovery, garbage) ==
    With(ocfs2_lookup(S.d, SysDir, OrphanDir), LAMBDA dir :
    LET S1 == prompt(S, "ORPHAN_DIR_MISSING")
        in == SelectSeq(DirEnts(S.d, dir), LAMBDA e : e.i # 0 /\ e.n \notin Dots) IN
        IF dir = 0 /\ recovery THEN Part(Fails(S), 0)
        ELSE IF dir = 0
        THEN Part([s |-> IF Yes(S) THEN create_orphan_dir(S1) ELSE S1, err |-> garbage], 0)
        ELSE IF ~RW(S) \/ in = <<>> THEN Part(Ok(S), 0)
        ELSE replay_orphan_iterate(S, dir, in, n))

CountsInMemory(S, i) ==   \* mutant: the inode is not written
    LET S1 == prompt(S, "INODE_NOT_CONNECTED")
        S2 == IF S.m.refs[i] # 0 THEN S ELSE IF Yes(S) THEN o2fsck_reconnect_file(S1, i) ELSE S1
    IN  IF S2.m.refs[i] = S2.m.in[i] \/ ~S2.d.ino[i].sig THEN S2
        ELSE [prompt(S2, "INODE_COUNT") EXCEPT !.m.in[i] = S2.m.refs[i]]
check_link_counts(S, i) ==
    LET S1 == prompt(S, "INODE_NOT_CONNECTED") IN
    With(IF S.m.refs[i] # 0 THEN S ELSE IF Yes(S) THEN o2fsck_reconnect_file(S1, i) ELSE S1, LAMBDA S2 :
    With(S2.m.refs[i], LAMBDA r :
    With(prompt(S2, "INODE_COUNT"), LAMBDA S3 :
        IF r = S2.m.in[i] \/ ~S2.d.ino[i].sig THEN S2
        ELSE IF Yes(S) THEN [S3 EXCEPT !.d.ino[i].links = r, !.m.in[i] = r] ELSE S3)))

---------------------------------------------------------------------------
(* Slot recovery, before the passes and once more after them.              *)

\* ocfs2_clear_link_count: an orphan directory that was just emptied has two.
ocfs2_clear_link_count(S) ==
    LET dir == ocfs2_lookup(S.d, SysDir, OrphanDir) IN
    IF dir = 0 THEN Fails(S) ELSE Ok([S EXCEPT !.d.ino[dir].links = 2])

\* The parts of the recovery in their order, the last two when no check is forced.
o2fsck_slot_recovery(S, part, k) ==
    CASE part = 1 -> ocfs2_clear_local_alloc(S, k)
      [] part = 2 -> ocfs2_clear_truncate_log(S, k)
      [] part = 3 -> replay_orphan_dir(S, k, TRUE, FALSE)
      [] part = 4 -> Part(ocfs2_clear_link_count(S), 0)
===========================================================================
