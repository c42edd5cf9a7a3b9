---------------------------- MODULE FsckInodes ----------------------------
(***************************************************************************)
(* fsck.ocfs2 on the inodes: the slot recovery that precedes the passes    *)
(* (slot_recovery.c), pass 1 (pass1.c), which checks every inode, its      *)
(* extents (extent.c), the local alloc window and the truncate log, and    *)
(* the allocators that pass 1 writes at its end.                           *)
(*                                                                         *)
(* S.q collects the prompts of a run.  The answer is always yes or always  *)
(* no (S.m.mode, the options -y and -n).                                   *)
(***************************************************************************)
EXTENDS FsckVolume

CONSTANTS
    LaMax,    \* bits that fit in the local alloc bitmap
    TlMax,    \* records that fit in the truncate log
    NoNull,   \* the length of a link block without an end
    Wrap      \* one more than the largest number of the 32-bit fields

SysDir == 2
LocalAlloc == 5
TruncateLog == 6

\* A directory's node in the tree of parents.
NoDp == [on |-> FALSE, dirent |-> 0, dd |-> 0, conn |-> FALSE, orph |-> FALSE, loop |-> 0]
Dp(dirent, dd, orph) ==
    [NoDp EXCEPT !.on = TRUE, !.dirent = dirent, !.dd = dd, !.orph = orph]
o2fsck_add_dir_parent(S, i, dirent, dd, orph) == [S EXCEPT !.m.dp[i] = Dp(dirent, dd, orph)]

\* The inode being cloned and its clone, as pass 1d read them.
NoClone == [orig |-> 0, ino |-> 0, odi |-> FreeInode, cdi |-> FreeInode]

\* o2fsck_state_init: what a run starts with.  fate is how the run goes.
NewState ==
    [mode |-> "n", force |-> FALSE, fixgen |-> FALSE, lib |-> NoLib, fate |-> "run",
     recerr |-> FALSE, alloc |-> {0}, dups |-> {}, in |-> [i \in Inodes |-> 0],
     refs |-> [i \in Inodes |-> 0], dirs |-> {}, regs |-> {},
     dp |-> [i \in Inodes |-> NoDp], dblk |-> {}, lostfound |-> 0, loop |-> 0,
     iasked |-> FALSE, iwrite |-> FALSE, ibits |-> {}, own |-> [c \in {} |-> <<>>],
     done |-> {}, clone |-> NoClone,
     last |-> 0, names |-> {}, dret |-> FALSE, early |-> FALSE]
o2fsck_state_init(mode, force, gen) ==
    [NewState EXCEPT !.mode = mode, !.force = force, !.fixgen = gen]

Least(a, b) == IF a < b THEN a ELSE b

Running(S) == S.m.fate = "run"
End(S, fate) == [S EXCEPT !.m.fate = fate]
Yes(S) == S.m.mode = "y"
RW(S) == S.m.mode = "y"
prompt(S, code) == [S EXCEPT !.q = @ \cup {code}]

---------------------------------------------------------------------------
(* Slot recovery.  Each part gives the new state, whether it failed, and   *)
(* where it goes on after a write.                                         *)

Ok(S) == [s |-> S, err |-> FALSE]
Fails(S) == [s |-> S, err |-> TRUE]

\* ocfs2_test_clusters followed by ocfs2_free_clusters: clusters that are not
\* all set in the library's bitmap, or not on the volume, are an error.
TestAndFree(S, start, n) ==
    LET S1 == ocfs2_load_allocator(S, "clus")
        cs == start .. start + n - 1
    IN  IF cs \subseteq S1.m.lib.clus THEN Ok(ocfs2_free_clusters(S1, cs)) ELSE Fails(S1)

NoLogRec == [start |-> 0, len |-> 0]
EmptyWindow == [szok |-> TRUE, total |-> 0, used |-> 0, off |-> 0, set |-> {}]

\* A part of the recovery goes on at next; 0 is its end.
Part(r, next) == [s |-> r.s, err |-> r.err, next |-> IF r.err THEN 0 ELSE next]

\* The unused runs of the window go back to the bitmap one by one, from bit k on,
\* and then the window is emptied; one that says it is all used is just emptied.
ocfs2_clear_local_alloc(S, k) ==
    LET la == S.d.la
        di == S.d.ino[LocalAlloc]
        clear == {b \in k - 1 .. la.total - 1 : b \notin la.set}
        b0 == CHOOSE b \in clear : \A x \in clear : b <= x
        b1 == CHOOSE b \in b0 + 1 .. la.total : b \notin clear /\ b0 .. b - 1 \subseteq clear
    IN  IF ~(di.valid /\ di.sys /\ di.kind = "lalloc") THEN Part(Fails(S), 0)
        ELSE IF la.total = 0 THEN Part(Ok(S), 0)
        ELSE IF la.used = la.total \/ clear = {}
        THEN Part(Ok([S EXCEPT !.d.la = [EmptyWindow EXCEPT !.szok = la.szok]]), 0)
        ELSE Part(TestAndFree(S, la.off + b0, b1 - b0), b1 + 1)

\* The records are freed one by one, the k-th next; the log is emptied after the
\* last.
ocfs2_clear_truncate_log(S, k) ==
    LET di == S.d.ino[TruncateLog]
        t == S.d.tl.recs[k]
    IN  IF ~(di.valid /\ di.sys /\ di.kind = "dealloc") \/ S.d.tl.used > TlMax
        THEN Part(Fails(S), 0)
        ELSE IF k > S.d.tl.used
        THEN Part(Ok([S EXCEPT !.d.tl.used = 0,
                         !.d.tl.recs = [x \in 1 .. TlMax |-> NoLogRec]]), 0)
        ELSE Part(IF t.start = 0 THEN Ok(S) ELSE TestAndFree(S, t.start, t.len), k + 1)

---------------------------------------------------------------------------
(* Checking one inode.  X.di is the copy in memory, which the code writes  *)
(* back with o2fsck_write_inode; X.clear asks for the inode to be cleared. *)

\* A prompt whose condition holds, and the repair F when the answer is yes.
Fix(X, cond, code, F(_)) ==
    LET Y == [X EXCEPT !.s = prompt(X.s, code)] IN
    IF ~cond \/ ~Running(X.s) THEN X ELSE IF Yes(X.s) THEN F(Y) ELSE Y

\* o2fsck_write_inode refuses an inode that is not at its own block, and the
\* library one of a volume that is open for reading.
o2fsck_write_inode(X, i) ==
    IF X.di.bno /\ RW(X.s) /\ Running(X.s) THEN [X EXCEPT !.s.d.ino[i] = X.di] ELSE X
FixDi(X, i, cond, code, F(_)) ==
    Fix(X, cond, code, LAMBDA Y : o2fsck_write_inode([Y EXCEPT !.di = F(Y.di)], i))
Clear(Y) == [Y EXCEPT !.clear = TRUE]

\* o2fsck_mark_clusters_allocated: a cluster met twice is a duplicate; one that
\* is not on the volume ends the program.
o2fsck_mark_clusters_allocated(S, start, n) ==
    LET cs == start .. start + n - 1
        in == cs \cap (0 .. NC - 1)
    IN  IF ~Running(S) THEN S
        ELSE [S EXCEPT !.m.alloc = @ \cup in, !.m.dups = @ \cup (in \cap S.m.alloc),
                       !.m.fate = IF cs = in THEN @ ELSE "abort"]

\* The window is repaired in memory, Y.la, and written once at the end.
verify_local_alloc(X, i) ==
    LET Break(Y) == [Y EXCEPT !.broken = TRUE]
        Set(Y, la) == [Y EXCEPT !.la = la, !.changed = TRUE]
        When(Y, cond, code, F(_)) == Fix(IF cond THEN Break(Y) ELSE Y, cond, code, F)
        x0 == [s |-> X.s, la |-> X.s.d.la, broken |-> FALSE, clear |-> FALSE, changed |-> FALSE] IN
    With(When(x0, ~x0.la.szok, "LALLOC_SIZE", LAMBDA Y : Set(Y, [Y.la EXCEPT !.szok = TRUE])), LAMBDA x1 :
    With(Fix(x1, x1.la.used # 0, "LALLOC_NZ_USED", LAMBDA Y : Set(Y, [Y.la EXCEPT !.used = 0])), LAMBDA e1 :
    LET e2 == Fix(e1, e1.la.off # 0, "LALLOC_NZ_BM", LAMBDA Y : Set(Y, [Y.la EXCEPT !.off = 0])) IN
    With(When(x1, x1.la.off >= NC, "LALLOC_BM_OVERRUN", Clear), LAMBDA x2 :
    With(When(x2, x2.la.total > LaMax, "LALLOC_BM_SIZE",
              LAMBDA Y : Set(Y, [Y.la EXCEPT !.total = LaMax])), LAMBDA x3 :
    With(x3.la.off + x3.la.total > NC, LAMBDA straddles :
    With(When(x3, straddles, "LALLOC_BM_STRADDLE", Clear), LAMBDA x4 :
    LET x5 == IF straddles THEN x4
              ELSE When(x4, x4.la.used > x4.la.total, "LALLOC_USED_OVERRUN",
                        LAMBDA Y : Set(Y, [Y.la EXCEPT !.used = Y.la.total])) IN
    With(IF x0.la.total = 0 THEN e2 ELSE x5, LAMBDA out :
    With(Fix(out, out.broken /\ ~out.clear, "LALLOC_CLEAR", Clear), LAMBDA y :
    With(IF y.clear THEN [EmptyWindow EXCEPT !.szok = y.la.szok] ELSE y.la, LAMBDA la :
        [X EXCEPT !.s = IF y.clear \/ y.changed THEN [y.s EXCEPT !.d.la = la] ELSE y.s])))))))))

\* A record past the end of the volume is zeroed; Wrap is where 32 bits end.
CheckLogRec(Y, k) ==
    LET t == Y.tl.recs[k]
        end == (t.start + t.len) % Wrap
        Zero(Z) == [Z EXCEPT !.tl.recs[k] = NoLogRec, !.changed = TRUE]
        y1 == Fix(Y, t.start >= NC, "TRUNCATE_REC_START_RANGE", Zero)
        y2 == Fix(y1, end < t.start, "TRUNCATE_REC_WRAP", Zero)
    IN  IF t.start = 0 THEN Y ELSE Fix(y2, end > NC, "TRUNCATE_REC_RANGE", Zero)

verify_truncate_log(X, i) ==
    LET x0 == [s |-> X.s, tl |-> X.s.d.tl, changed |-> FALSE] IN
    With(Fix(x0, x0.tl.count > TlMax, "DEALLOC_COUNT",
             LAMBDA Y : [Y EXCEPT !.tl.count = TlMax, !.changed = TRUE]), LAMBDA x1 :
    With(Fix(x1, x1.tl.used > x1.tl.count, "DEALLOC_USED",
             LAMBDA Y : [Y EXCEPT !.tl.used = Y.tl.count, !.changed = TRUE]), LAMBDA x2 :
    With(InTurn(CheckLogRec, x2, [k \in 1 .. Least(x2.tl.used, TlMax) |-> k]), LAMBDA y :
        [X EXCEPT !.s = IF y.changed THEN [y.s EXCEPT !.d.tl = y.tl] ELSE y.s])))

\* The mode decides which of the sets of inodes the inode joins.
NoteMode(X, i) ==
    IF X.di.mode = "dir"
    THEN [X EXCEPT !.s = o2fsck_add_dir_parent([X.s EXCEPT !.m.dirs = @ \cup {i}],
                                               i, 0, 0, X.di.orph)]
    ELSE IF X.di.mode = "reg" THEN [X EXCEPT !.s.m.regs = @ \cup {i}]
    ELSE IF X.di.mode \in {"lnk", "dev"} THEN X ELSE Clear(X)

o2fsck_verify_inode_fields(X, i) ==
    With(IF X.di.gen THEN X
         ELSE Fix(Fix(X, TRUE, "INODE_GEN", Clear), ~Yes(X.s), "INODE_GEN_FIX", LAMBDA Y : Y), LAMBDA x1 :
    With(FixDi(x1, i, ~x1.di.bno, "INODE_BLKNO", LAMBDA di : [di EXCEPT !.bno = TRUE]), LAMBDA x2 :
    With(Fix(x2, i = x2.s.d.root /\ x2.di.mode # "dir", "ROOT_NOTDIR", Clear), LAMBDA x3 :
    With(FixDi(x3, i, x3.di.dt, "INODE_NZ_DTIME", LAMBDA di : [di EXCEPT !.dt = FALSE]), LAMBDA x4 :
    LET x5 == FixDi(x4, i, x4.di.kind = "xinl" /\ ~x4.s.d.inl, "INLINE_DATA_FLAG_INVALID",
                    LAMBDA di : [di EXCEPT !.kind = "ext"]) IN
    With(NoteMode(x5, i), LAMBDA x6 :
    LET n == IF x6.di.links # 0 THEN x6.di.links ELSE IF x6.di.orph THEN 1 ELSE 0 IN
    With(IF x6.clear THEN x6 ELSE [x6 EXCEPT !.s.m.in[i] = n], LAMBDA x7 :
    LET x8 == IF x7.clear THEN x7
              ELSE IF x7.di.kind = "lalloc" THEN verify_local_alloc(x7, i)
              ELSE IF x7.di.kind = "dealloc" THEN verify_truncate_log(x7, i) ELSE x7 IN
    With(IF x1.clear THEN x1 ELSE IF x3.clear THEN x3 ELSE x8, LAMBDA y :
        IF ~y.clear THEN y
        ELSE o2fsck_write_inode([y EXCEPT !.di.valid = FALSE, !.s.m.in[i] = 0], i))))))))

---------------------------------------------------------------------------
(* Checking the extents of an inode: the list in the inode, and those of   *)
(* the extent blocks below it.  el has the list, ch whether it changed.    *)

ocfs2_block_out_of_range(el, r) == r.start \notin (IF el.depth > 0 THEN 1 .. NE ELSE Clusters)
List(r) == [depth |-> r.depth, count |-> r.count, nfree |-> r.nfree, recs |-> r.recs]
PutList(r, el) == [r EXCEPT !.depth = el.depth, !.count = el.count,
                            !.nfree = el.nfree, !.recs = el.recs]

\* The records after the removed one move down; the last of them is emptied
\* when there was one to move.
RemoveRec(el, k, n) ==
    [el EXCEPT !.nfree = @ - 1,
        !.recs = [j \in DOMAIN el.recs |-> IF j < k \/ j > n \/ k = n THEN el.recs[j]
                                     ELSE IF j = n THEN NoRec ELSE el.recs[j + 1]]]

\* A leaf record: its alignment and its end.
LeafRec(Y, k) ==
    LET r == Y.el.recs[k]
        y1 == Fix(Y, ~r.al, "EXTENT_BLKNO_UNALIGNED",
                  LAMBDA Z : [Z EXCEPT !.el.recs[k].al = TRUE, !.ch = TRUE])
    IN  Fix(y1, r.start + r.len > NC, "EXTENT_CLUSTERS_OVERRUN",
            LAMBDA Z : [Z EXCEPT !.el.recs[k].len = NC - r.start, !.ch = TRUE])

RECURSIVE check_el(_, _, _, _)
RECURSIVE CheckRecs(_, _, _, _)

check_eb(S, e, depth) ==
    LET eb == S.d.ebs[e]
        x1 == Fix([s |-> S, eb |-> eb, ch |-> FALSE], ~eb.bno, "EB_BLKNO",
                  LAMBDA Y : [Y EXCEPT !.eb.bno = TRUE, !.ch = TRUE]) IN
    With(Fix(x1, ~eb.gen, "EB_GEN", LAMBDA Y : Y), LAMBDA x2 :
    With(IF Yes(S) THEN x2 ELSE Fix(x2, ~eb.gen, "EB_GEN_FIX", LAMBDA Y : Y), LAMBDA x3 :
    With(check_el(x3.s, List(x3.eb), EbRecs, {depth}), LAMBDA y :
    LET new == PutList(x3.eb, y.el) IN
        IF ~eb.sig THEN [s |-> S, ok |-> FALSE]
        ELSE IF ~eb.gen /\ Yes(S) THEN [s |-> x2.s, ok |-> FALSE]
        ELSE [s |-> IF (x3.ch \/ y.ch) /\ Running(y.s) THEN [y.s EXCEPT !.d.ebs[e] = new]
                    ELSE y.s,
              ok |-> TRUE])))

\* check_er: an extent block is checked in its turn, and the pointer to one
\* that is not valid is zeroed.
check_er(Y, k) ==
    LET r == Y.el.recs[k] IN
    With(check_eb(Y.s, r.start, Y.el.depth - 1), LAMBDA b :
        IF ocfs2_block_out_of_range(Y.el, r) THEN Y
        ELSE IF Y.el.depth > 0
        THEN Fix([Y EXCEPT !.s = b.s], ~b.ok, "EXTENT_EB_INVALID",
                 LAMBDA Z : [Z EXCEPT !.el.recs[k].start = 0, !.ch = TRUE])
        ELSE LeafRec(Y, k))

\* The records from k to n.  The clusters that are marked are as many as the
\* record had before it was checked.
CheckRecs(Y, k, n, trust) ==
    LET r == Y.el.recs[k] IN
    With(check_er(Y, k), LAMBDA y1 :
    With(y1.el.recs[k], LAMBDA r1 :
    With(ocfs2_block_out_of_range(y1.el, r1), LAMBDA gone :
    With(Fix(y1, gone, "EXTENT_BLKNO_RANGE",
             LAMBDA Z : IF trust THEN [Z EXCEPT !.el = RemoveRec(Z.el, k, n), !.ch = TRUE] ELSE Z), LAMBDA y2 :
    LET y3 == [y1 EXCEPT !.s = o2fsck_mark_clusters_allocated(y2.s, r1.start, r.len)] IN
        IF k > n \/ ~Running(Y.s) THEN Y
        ELSE IF Y.s.d.sparse /\ Y.el.depth > 0 /\ k = 1 /\ r.len = 0
        THEN CheckRecs(Y, k + 1, n, trust)
        ELSE IF gone /\ Yes(Y.s)
        THEN IF trust THEN CheckRecs(y2, k, n - 1, trust) ELSE CheckRecs(y2, k + 1, n, trust)
        ELSE CheckRecs(IF Y.el.depth > 0 THEN y2 ELSE y3, k + 1, n, trust)))))

\* depths has the depth that is expected, and none at the root of the tree.
check_el(S, el, max, depths) ==
    LET x1 == Fix([s |-> S, el |-> el, ch |-> FALSE], depths \notin {{}, {el.depth}},
                  "EXTENT_LIST_DEPTH",
                  LAMBDA Y : [Y EXCEPT !.el.depth = CHOOSE x \in depths : TRUE, !.ch = TRUE]) IN
    With(Fix(x1, el.count > max, "EXTENT_LIST_COUNT",
             LAMBDA Y : [Y EXCEPT !.el.count = max, !.ch = TRUE]), LAMBDA x2 :
    With(Least(max, x2.el.count), LAMBDA top :
    With(x2.el.nfree > top, LAMBDA over :
    With(Fix(x2, over, "EXTENT_LIST_FREE",
             LAMBDA Y : [Y EXCEPT !.el.nfree = Y.el.count, !.ch = TRUE]), LAMBDA x3 :
    With(~over \/ Yes(S), LAMBDA trust :
        CheckRecs(x3, 1, IF trust THEN x3.el.nfree ELSE top, trust))))))

o2fsck_check_extents(X, i) ==
    With(check_el(X.s, List(X.di), RootRecs, {}), LAMBDA y :
    With([X EXCEPT !.s = y.s, !.di = PutList(X.di, y.el)], LAMBDA x1 :
        IF y.ch THEN o2fsck_write_inode(x1, i) ELSE x1))

---------------------------------------------------------------------------
(* Checking the blocks of an inode, and the allocators at the end.         *)

\* o2fsck_add_dir_block: the directory blocks are kept by block number, and a
\* number that is already there makes the insertion go round for ever.
DirBlock(i, c, n) == [k |-> IF c = 0 THEN i ELSE NI + c, ino |-> i, c |-> c, n |-> n]
AddByInode(S, b) ==   \* mutant: kept by inode number
    IF \E x \in S.m.dblk : x.ino = b.ino THEN End(S, "hang")
    ELSE [S EXCEPT !.m.dblk = @ \cup {b}]
o2fsck_add_dir_block(S, b) ==
    IF \E x \in S.m.dblk : x.k = b.k THEN End(S, "hang")
    ELSE [S EXCEPT !.m.dblk = @ \cup {b}]

\* The length of a link is counted up to the first block with its end.
LinkLen(d, blocks) ==
    IF blocks = <<>> THEN [len |-> 0, null |-> FALSE]
    ELSE LET c == blocks[1][2] IN [len |-> d.data[c].str, null |-> d.data[c].str # NoNull]

check_link_data(X, i, blocks) ==
    LET l == LinkLen(X.s.d, blocks) IN
    With(Fix(X, ~l.null, "LINK_NULLTERM", Clear), LAMBDA x1 :
    With(FixDi(x1, i, X.di.size # l.len, "LINK_SIZE", LAMBDA di : [di EXCEPT !.size = l.len]), LAMBDA x2 :
        IF x1.clear THEN x1
        ELSE IF X.di.size # l.len /\ Yes(X.s) THEN x2
        ELSE Fix(x2, Len(blocks) < 1, "LINK_BLOCKS", Clear)))

\* The inode is freed with the clusters it still has in its extents.
ClearInode(X, i) ==
    LET di == [X.di EXCEPT !.links = 0, !.dt = TRUE, !.valid = FALSE,
                           !.sys = FALSE, !.orph = FALSE]
        freed == ClustersOf(X.s.d, X.di)
        x1 == [X EXCEPT !.di = di, !.s.m.in[i] = 0, !.s.m.alloc = @ \ freed] IN
    With(o2fsck_write_inode(x1, i), LAMBDA x2 :
        IF di.mode = "dir" THEN [x2 EXCEPT !.s.m.dp[i] = NoDp] ELSE x2)

\* Size and cluster count, which mean something else for inline data, on a
\* volume with sparse files and on one without.
SizeAndClusters(X, i, blocks) ==
    LET n == Len(blocks)
        last == IF n = 0 THEN 0 ELSE CHOOSE m \in {p[1] : p \in ToSet(blocks)} :
                                         \A p \in ToSet(blocks) : p[1] <= m
        inl1 == FixDi(X, i, ~X.di.icnt, "INLINE_DATA_COUNT_INVALID",
                      LAMBDA di : [di EXCEPT !.icnt = TRUE])
        inl2 == FixDi(inl1, i, X.di.size > 1, "INODE_INLINE_SIZE",
                      LAMBDA di : [di EXCEPT !.size = 1])
        sp == FixDi(X, i, n > 0 /\ X.di.mode \notin {"lnk", "dir"} /\ X.di.size <= last,
                    "INODE_SPARSE_SIZE", LAMBDA di : [di EXCEPT !.size = last + 1])
        top == IF n = 0 THEN 0 ELSE last + 1
        full == FixDi(X, i, X.di.mode # "lnk" /\ X.di.size > top,
                      "INODE_SIZE", LAMBDA di : [di EXCEPT !.size = top])
    IN  IF X.di.kind \in {"inl", "xinl"}
        THEN FixDi(inl2, i, X.di.clusters > 0, "INODE_INLINE_CLUSTERS",
                   LAMBDA di : [di EXCEPT !.clusters = 0])
        ELSE IF X.s.d.sparse
        THEN FixDi(sp, i, X.di.clusters # n, "INODE_SPARSE_CLUSTERS",
                   LAMBDA di : [di EXCEPT !.clusters = n])
        ELSE FixDi(full, i, X.di.clusters # top, "INODE_CLUSTERS",
                   LAMBDA di : [di EXCEPT !.clusters = top])

\* o2fsck_check_blocks; an iteration that fails ends the pass with an error.
o2fsck_check_blocks(X, i) ==
    With(o2fsck_check_extents(X, i), LAMBDA x1 :
    With(ocfs2_block_iterate(x1.s.d, x1.di), LAMBDA blocks :
    LET AddDir(S, k) == o2fsck_add_dir_block(S, DirBlock(i, blocks[k][2], blocks[k][1])) IN
    With(IF x1.di.mode = "dir"
         THEN [x1 EXCEPT !.s = InTurn(AddDir, x1.s, [k \in 1 .. Len(blocks) |-> k])]
         ELSE x1, LAMBDA x2 :
    With(IF x2.di.mode = "lnk" THEN check_link_data(x2, i, blocks)
         ELSE Fix(x2, x2.di.mode = "dir" /\ blocks = <<>>, "DIR_ZERO", Clear), LAMBDA x3 :
        IF X.di.kind \in {"lalloc", "dealloc"} \/ (X.di.mode = "lnk" /\ X.di.clusters = 0)
        THEN X
        ELSE IF X.di.kind \in {"inl", "xinl"}
        THEN SizeAndClusters(
                 IF X.di.mode = "dir"
                 THEN [X EXCEPT !.s = o2fsck_add_dir_block(X.s, DirBlock(i, 0, 0))] ELSE X,
                 i, <<>>)
        ELSE IF ~Running(x1.s) THEN x1
        ELSE IF ~ExtentsReadable(x1.s.d, x1.di) THEN [x1 EXCEPT !.s = End(x1.s, "error")]
        ELSE IF x3.clear THEN ClearInode(x3, i)
        ELSE SizeAndClusters(x3, i, blocks)))))

\* update_inode_alloc: the first inode whose bit is wrong asks for the repair
\* of all; a no drops the allocators that pass 0 has loaded.
update_inode_alloc(X, i, val) ==
    LET S == X.s
        differs == (i \in S.m.ibits) # val
        S1 == IF differs /\ ~S.m.iasked
              THEN [prompt(S, "INODE_ALLOC_REPAIR") EXCEPT !.m.iasked = TRUE, !.m.iwrite = Yes(S)]
              ELSE S
        S2 == [S1 EXCEPT !.m.ibits = IF val THEN @ \cup {i} ELSE @ \ {i}]
    IN  IF S.m.iasked /\ ~S.m.iwrite THEN S
        ELSE FixDi([X EXCEPT !.s = S2], i, val /\ ~X.di.slot, "INODE_SUBALLOC",
                   LAMBDA di : [di EXCEPT !.slot = TRUE]).s

\* One inode of the scan of o2fsck_pass1.
Pass1Inode(S, i) ==
    LET di == S.d.ino[i]
        x0 == [s |-> S, di |-> di, clear |-> FALSE]
        seen == di.sig /\ (S.m.fixgen \/ di.gen) IN
    With(IF seen /\ di.valid THEN o2fsck_verify_inode_fields(x0, i) ELSE x0, LAMBDA x1 :
    With(IF seen /\ x1.di.valid /\ Running(x1.s)
         THEN o2fsck_check_blocks([x1 EXCEPT !.clear = FALSE], i) ELSE x1, LAMBDA x2 :
        IF ~Running(x2.s) THEN x2.s ELSE update_inode_alloc(x2, i, seen /\ x2.di.valid)))

\* The unused clusters of a window that makes sense count as allocated.
mark_local_allocs(S) ==
    LET la == S.d.la
        clear == {b \in 0 .. la.total - 1 : b \notin la.set}
    IN  IF la.total = 0 \/ ~la.szok \/ la.used > la.total \/ la.total > LaMax
           \/ la.off + la.total > NC
        THEN S
        ELSE InTurn(LAMBDA s, b : o2fsck_mark_clusters_allocated(s, la.off + b, 1),
                      S, SetToSortSeq(clear, <))

mark_truncate_logs(S) ==
    InTurn(LAMBDA s, t : IF t.start = 0 THEN s
                           ELSE o2fsck_mark_clusters_allocated(s, t.start, t.len),
             S, SubSeq(S.d.tl.recs, 1, Least(S.d.tl.used, TlMax)))

\* write_cluster_alloc compares the bitmap on disk with what pass 1 found, and
\* writes it through an allocator of its own.
write_cluster_alloc(S) ==
    LET S1 == prompt(S, "CLUSTER_ALLOC_BIT") IN
    IF S.d.bits = S.m.alloc \/ ~Running(S) THEN S
    ELSE IF Yes(S) THEN [S1 EXCEPT !.d.bits = S.m.alloc] ELSE S1

WriteNoInodeAlloc(S) ==   \* mutant: the last bitmaps are not written
    IF S.m.iwrite THEN S ELSE S
write_inode_alloc(S) ==
    IF S.m.iwrite /\ Running(S) THEN [S EXCEPT !.d.ibits = S.m.ibits] ELSE S
===========================================================================
