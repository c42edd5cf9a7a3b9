---------------------------- MODULE ExtentTree ----------------------------
(***************************************************************************)
(* The extent tree of a file as libocfs2 keeps it (libocfs2/extend_file.c, *)
(* extents.c, truncate.c, extent_map.c): an extent list in the inode and,  *)
(* once that is full, extent blocks below it.                              *)
(*                                                                         *)
(* An operation is a function of s, the state of the call:                 *)
(*   s.d    the device: the extent blocks eb, the blocks used of the       *)
(*          extent allocator, the inode ino, the clusters clu in use of    *)
(*          the global bitmap, the contents data of the data blocks;       *)
(*   s.di   the caller's copy of the inode, the root of every path;        *)
(*   s.err  "", the error the call returns, or "assert" once it aborts;    *)
(*   s.log  the device after each of the writes of the call, in order;     *)
(*   s.odd  the places the call passed that this code gets wrong.          *)
(* A path is the sequence of the copies of the extent blocks below the     *)
(* root; two paths share the root and nothing else, as in the code.        *)
(* Physical places are counted in clusters, uint32_t values modulo Wide.   *)
(***************************************************************************)
EXTENDS Integers, Sequences, FiniteSets

CONSTANTS RootRecs,     \* l_count of the list in the inode
          EbRecs,       \* l_count of the list of an extent block
          Blocks        \* the extent blocks the allocator can give, 1..n

ASSUME TreeBounds == RootRecs >= 2 /\ EbRecs > RootRecs /\ Blocks \subseteq Nat \ {0}

Wide == 65536           \* stands for 2^32

Rec0 == [cpos |-> 0, blk |-> 0, len |-> 0, unw |-> FALSE]
Node0 == [blk |-> 0, depth |-> 0, recs |-> <<>>, next |-> 0]
Dinode0 == [depth |-> 0, recs |-> <<>>, last |-> 0, clusters |-> 0, size |-> 0]

MinOf(S) == CHOOSE x \in S : \A y \in S : x <= y
\* F(x), with x computed once: LET for a value that is used many times.
With(x, F(_)) == F(x)
LastOf(q) == q[Len(q)]
PutLast(q, x) == [q EXCEPT ![Len(q)] = x]
U32(n) == n % Wide
EndOf(r) == U32(r.cpos + r.len)
Covers(r, c) == r.cpos <= c /\ c < EndOf(r)

---------------------------------------------------------------------------
(* The device.                                                             *)

Going(s) == s.err = ""
Fail(s, e) == IF Going(s) THEN [s EXCEPT !.err = e] ELSE s
Odd(s, what) == [s EXCEPT !.odd = s.odd \cup {what}]
Written(s, d) == IF Going(s) THEN [s EXCEPT !.d = d, !.log = Append(s.log, d)] ELSE s

\* A list longer than its array is an assertion of the code that failed.
ocfs2_write_extent_block(s, n) ==
    IF Len(n.recs) > EbRecs THEN Fail(s, "assert")
    ELSE IF n.blk = 0 THEN Fail(s, "corrupt")
    ELSE Written(s, [s.d EXCEPT !.eb[n.blk] = n])

ocfs2_write_inode(s) ==
    IF Len(s.di.recs) > RootRecs THEN Fail(s, "assert")
    ELSE Written(s, [s.d EXCEPT !.ino = s.di])

\* The block given is the lowest free one; 0 when there is none.
ocfs2_new_extent_block(s) ==
    LET free == Blocks \ s.d.used
        b == MinOf(free)
        s1 == Written(s, [s.d EXCEPT !.used = s.d.used \cup {b}])
    IN  IF free = {} THEN [s |-> Fail(s, "nospace"), blk |-> 0]
        ELSE [s |-> ocfs2_write_extent_block(s1, [Node0 EXCEPT !.blk = b]), blk |-> b]

ocfs2_delete_extent_block(s, b) ==
    IF b \notin s.d.used THEN Fail(s, "unallocated")
    ELSE Written(s, [s.d EXCEPT !.used = s.d.used \ {b}])

---------------------------------------------------------------------------
(* Paths.  l and r of t are the left and the right path of a rotation.     *)

ocfs2_search_extent_list(recs, c) ==
    LET hit == {i \in DOMAIN recs : Covers(recs[i], c)}
    IN  IF hit = {} THEN 0 ELSE MinOf(hit)

\* __ocfs2_find_path: past the tree it ends in the rightmost leaf.
RECURSIVE PathBelow(_, _, _)
PathBelow(s, el, c) ==
    LET hit == {i \in 1..(Len(el.recs) - 1) : Covers(el.recs[i], c)}
        i == IF hit = {} THEN Len(el.recs) ELSE MinOf(hit) IN
    With(IF el.recs = <<>> THEN 0 ELSE el.recs[i].blk, LAMBDA b :
    With(IF b = 0 \/ s.d.eb[b].depth >= el.depth THEN Node0 ELSE s.d.eb[b], LAMBDA n :
        IF el.depth = 0 THEN <<>> ELSE <<n>> \o PathBelow(s, n, c)))
ocfs2_find_path(s, c) == PathBelow(s, s.di, c)
Broken(p) == \E i \in DOMAIN p : p[i].blk = 0

LeafRecs(s, p) == IF p = <<>> THEN s.di.recs ELSE LastOf(p).recs
FirstEmpty(recs) == recs = <<>> \/ recs[1].len = 0
OnlyEmpty(recs) == Len(recs) <= 1 /\ FirstEmpty(recs)

El(t, side, i) == IF i = 0 THEN t.s.di ELSE t[side][i]
SetRecs(t, side, i, recs) ==
    IF i = 0 THEN [t EXCEPT !.s.di.recs = recs] ELSE [t EXCEPT ![side][i].recs = recs]
TFail(t, e) == [t EXCEPT !.s = Fail(t.s, e)]

\* The index of the lowest node that two adjacent paths share; 0 is the root.
ocfs2_find_subtree_root(l, r) ==
    LET apart == {i \in DOMAIN l : l[i].blk # r[i].blk}
    IN  IF apart = {} THEN Len(l) ELSE MinOf(apart) - 1

\* A cpos in the leaf to the left, or the first one of the leaf to the right,
\* 0 when there is none, -1 when the tree does not hold together.
RECURSIVE Neighbour(_, _, _, _)
Neighbour(t, i, blk, left) ==
    LET recs == El(t, "r", i).recs
        at == {j \in DOMAIN recs : recs[j].blk = blk}
        j == MinOf(at) IN
    With(IF left THEN j = 1 ELSE j = Len(recs), LAMBDA edge :
        IF at = {} THEN 0 - 1
        ELSE IF edge /\ i = 0 THEN 0
        ELSE IF edge THEN Neighbour(t, i - 1, t.r[i].blk, left)
        ELSE IF left THEN U32(EndOf(recs[j - 1]) - 1)
        ELSE recs[j + 1].cpos)
ocfs2_find_cpos_for_left_leaf(s, p) ==
    Neighbour([s |-> s, r |-> p], Len(p) - 1, LastOf(p).blk, TRUE)
ocfs2_find_cpos_for_right_leaf(s, p) ==
    IF p = <<>> THEN 0 ELSE Neighbour([s |-> s, r |-> p], Len(p) - 1, LastOf(p).blk, FALSE)

\* ocfs2_sync_path_to_disk; <<>> is no path.
RECURSIVE WritePath(_, _, _, _)
WritePath(s, p, i, sub) ==
    IF i <= sub THEN s ELSE WritePath(ocfs2_write_extent_block(s, p[i]), p, i - 1, sub)
ocfs2_sync_path_to_disk(s, l, r, sub) ==
    LET s1 == WritePath(s, l, Len(l), sub) IN
    With(WritePath(s1, r, Len(r), sub), LAMBDA s2 :
        IF sub = 0 THEN s2 ELSE ocfs2_write_extent_block(s2, IF r = <<>> THEN l[sub] ELSE r[sub]))

---------------------------------------------------------------------------
(* The records of one list.                                                *)

ocfs2_create_empty_extent(recs) ==
    IF recs # <<>> /\ FirstEmpty(recs) THEN recs ELSE <<Rec0>> \o recs
ocfs2_remove_empty_extent(recs) ==
    IF recs # <<>> /\ FirstEmpty(recs) THEN Tail(recs) ELSE recs
\* Mutant: the empty record is not taken for the new one.
rotate_keeps_empty(recs, rec) ==
    LET after == {i \in DOMAIN recs : rec.cpos < recs[i].cpos}
        k == IF after = {} THEN Len(recs) + 1 ELSE MinOf(after)
    IN  SubSeq(recs, 1, k - 1) \o <<rec>> \o SubSeq(recs, k, Len(recs))
ocfs2_rotate_leaf(recs, rec) ==
    LET old == ocfs2_remove_empty_extent(recs) IN
    With({i \in DOMAIN old : rec.cpos < old[i].cpos}, LAMBDA after :
    With(IF after = {} THEN Len(old) + 1 ELSE MinOf(after), LAMBDA k :
        SubSeq(old, 1, k - 1) \o <<rec>> \o SubSeq(old, k, Len(old))))

ocfs2_extent_contig(ext, ins) ==
    IF ext.unw # ins.unw THEN "none"
    ELSE IF U32(ext.cpos + ext.len) = ins.cpos /\ ext.blk + ext.len = ins.blk THEN "right"
    ELSE IF U32(ins.cpos + ins.len) = ext.cpos /\ ins.blk + ins.len = ext.blk THEN "left"
    ELSE "none"

\* ocfs2_adjust_adjacent_records: the two records above two lists, once the
\* right list begins somewhere else.
FirstCpos(recs) == IF FirstEmpty(recs) THEN recs[2].cpos ELSE recs[1].cpos
\* Mutant: the right record keeps its place.
adjust_left_only(left, right, child) ==
    <<[left EXCEPT !.len = U32(FirstCpos(child) - left.cpos)], right>>
ocfs2_adjust_adjacent_records(left, right, child) ==
    LET c == FirstCpos(child)
    IN  <<[left EXCEPT !.len = U32(c - left.cpos)],
          [right EXCEPT !.cpos = c, !.len = U32(EndOf(right) - c)]>>

\* Mutant: e_blkno is not moved when the left part goes.
subtract_keeps_blkno(split, rec, sub) ==
    IF split = "left" THEN [rec EXCEPT !.cpos = rec.cpos + sub.len, !.len = rec.len - sub.len]
    ELSE [rec EXCEPT !.len = rec.len - sub.len]
ocfs2_subtract_from_rec(split, rec, sub) ==
    IF split = "left"
    THEN [rec EXCEPT !.cpos = rec.cpos + sub.len, !.blk = rec.blk + sub.len,
                     !.len = rec.len - sub.len]
    ELSE [rec EXCEPT !.len = rec.len - sub.len]

---------------------------------------------------------------------------
(* Rotation to the right: room for one record at a place of the tree.      *)

\* ocfs2_adjust_root_records: the records of the lowest shared node.
ocfs2_adjust_root_records(t, sub) ==
    LET recs == El(t, "l", sub).recs
        at == {i \in 1..(Len(recs) - 1) : recs[i].blk = t.l[sub + 1].blk} IN
    With(MinOf(at), LAMBDA i :
    With(ocfs2_adjust_adjacent_records(recs[i], recs[i + 1], t.r[sub + 1].recs), LAMBDA two :
    With(SetRecs(t, "l", sub, [recs EXCEPT ![i] = two[1], ![i + 1] = two[2]]), LAMBDA t1 :
        IF at = {} \/ OnlyEmpty(t.r[sub + 1].recs) THEN TFail(t, "assert")
        ELSE IF sub = 0 THEN t1 ELSE [t1 EXCEPT !.r[sub] = t1.l[sub]])))

\* Below the shared node the left record is found with the length of the
\* list under it: beyond its own list the write falls on an unused slot.
RECURSIVE EdgeBelow(_, _, _)
EdgeBelow(t, i, sub) ==
    LET idx == Len(t.l[i + 1].recs)
        used == idx <= Len(t.l[i].recs)
        left == IF used THEN t.l[i].recs[idx] ELSE Rec0 IN
    With(ocfs2_adjust_adjacent_records(left, t.r[i].recs[1], t.r[i + 1].recs), LAMBDA two :
    LET t1 == IF used THEN [t EXCEPT !.l[i].recs[idx] = two[1]] ELSE t IN
        IF i <= sub THEN t
        ELSE IF OnlyEmpty(t.r[i + 1].recs) THEN TFail(t, "assert")
        ELSE EdgeBelow([t1 EXCEPT !.r[i].recs[1] = two[2]], i - 1, sub))
ocfs2_complete_edge_insert(t, sub) ==
    ocfs2_adjust_root_records(EdgeBelow(t, Len(t.l) - 1, sub), sub)

SyncBoth(t, sub) == [t EXCEPT !.s = ocfs2_sync_path_to_disk(t.s, t.l, t.r, sub)]

ocfs2_rotate_subtree_right(t, sub) ==
    LET left == LastOf(t.l).recs
        right == LastOf(t.r).recs
        n == Len(t.l)
        t1 == [t EXCEPT
            !.l[n].recs = <<Rec0>> \o SubSeq(left, 1, Len(left) - 1),
            !.r[n].recs = [ocfs2_create_empty_extent(right) EXCEPT ![1] = LastOf(left)]]
    IN  IF Len(left) # EbRecs THEN TFail(t, "corrupt")
        ELSE IF FirstEmpty(left) THEN t
        ELSE SyncBoth(ocfs2_complete_edge_insert(t1, sub), sub)

ocfs2_leftmost_rec_contains(recs, c) ==
    ~OnlyEmpty(recs) /\ Covers(IF FirstEmpty(recs) THEN recs[2] ELSE recs[1], c)

\* ocfs2_rotate_tree_right: t.r ends in the leaf for the record, t.l is the
\* path to its left when that has to be set right after the insert.
RECURSIVE RotateRight(_, _, _, _)
RotateRight(t, split, ins, c) ==
    With(ocfs2_find_path(t.s, c), LAMBDA l :
    With([t EXCEPT !.l = l], LAMBDA t1 :
    With(ocfs2_rotate_subtree_right(t1, ocfs2_find_subtree_root(l, t.r)), LAMBDA t2 :
        IF ~Going(t.s) \/ c = 0 \/ (c > 0 /\ ins > c) THEN [t EXCEPT !.l = <<>>]
        ELSE IF c < 0 \/ Broken(l) THEN TFail(t, "corrupt")
        ELSE IF LastOf(l).blk = LastOf(t.r).blk THEN TFail(t, "assert")
        ELSE IF split = "none" /\ ins > LastOf(LastOf(l).recs).cpos THEN t1
        ELSE IF split # "none" /\ Going(t2.s)
                /\ ocfs2_leftmost_rec_contains(LastOf(t2.r).recs, ins) THEN t2
        ELSE RotateRight([t2 EXCEPT !.r = t2.l], split, ins,
                         ocfs2_find_cpos_for_left_leaf(t2.s, t2.l)))))
ocfs2_rotate_tree_right(s, split, ins, r) ==
    RotateRight([s |-> s, l |-> <<>>, r |-> r], split, ins, ocfs2_find_cpos_for_left_leaf(s, r))

---------------------------------------------------------------------------
(* Rotation to the left: an empty record is moved out at the right end.    *)

\* ocfs2_update_edge_lengths, on the left path that is now the last one.
RECURSIVE SetLengths(_, _, _)
SetLengths(t, i, end) ==
    LET recs == El(t, "l", i).recs
        rec == LastOf(recs)
    IN  IF i = Len(t.l) THEN t
        ELSE SetLengths(SetRecs(t, "l", i, PutLast(recs, [rec EXCEPT !.len = U32(end - rec.cpos)])),
                        i + 1, end)
ocfs2_update_edge_lengths(t) ==
    IF LastOf(t.l).next # 0 \/ LastOf(t.l).recs = <<>> THEN TFail(t, "assert")
    ELSE SetLengths(t, 0, EndOf(LastOf(LastOf(t.l).recs)))

RECURSIVE ocfs2_unlink_path(_, _, _)
ocfs2_unlink_path(s, p, i) ==
    IF i > Len(p) THEN s
    ELSE IF Len(p[i].recs) > 1 THEN Fail(s, "assert")
    ELSE ocfs2_unlink_path(ocfs2_delete_extent_block(s, p[i].blk), p, i + 1)

ocfs2_unlink_subtree(t, sub) ==
    LET recs == El(t, "l", sub).recs
        at == {i \in 2..Len(recs) : recs[i].blk = t.r[sub + 1].blk}
        t1 == SetRecs(t, "l", sub, SubSeq(recs, 1, Len(recs) - 1)) IN
    With([t1 EXCEPT !.l[Len(t.l)].next = 0], LAMBDA t2 :
        IF at = {} THEN TFail(t, "assert")
        ELSE [t2 EXCEPT !.s = ocfs2_unlink_path(t2.s, t.r, sub + 1)])

SameAbove(t, sub) == [t EXCEPT !.r = SubSeq(t.l, 1, sub) \o SubSeq(t.r, sub + 1, Len(t.r))]
DropRight(t, sub) ==
    With(ocfs2_update_edge_lengths(ocfs2_unlink_subtree(t, sub)), LAMBDA t1 :
        [SameAbove(t1, sub) EXCEPT !.s.di.last = LastOf(t1.l).blk])

\* ocfs2_rotate_subtree_left: how is "again" (EAGAIN), "deleted" or "moved".
ocfs2_rotate_subtree_left(t, sub) ==
    LET n == Len(t.l)
        last == LastOf(t.r).next = 0 IN
    With(IF FirstEmpty(t.r[n].recs) /\ Len(t.r[n].recs) > 1
         THEN ocfs2_remove_empty_extent(t.r[n].recs) ELSE t.r[n].recs, LAMBDA right :
    With(FirstEmpty(right), LAMBDA void :
    LET delete == last /\ Len(right) = 1 IN
    With(IF void THEN right ELSE [right EXCEPT ![1] = Rec0], LAMBDA rest :
    With([t EXCEPT
       !.l[n].recs = IF void THEN t.l[n].recs ELSE ocfs2_rotate_leaf(t.l[n].recs, right[1]),
       !.r[n].recs = IF last THEN ocfs2_remove_empty_extent(rest) ELSE rest], LAMBDA t1 :
    With(DropRight(t1, sub), LAMBDA t2 :
    With(IF void THEN [t2 EXCEPT !.l[n].recs = ocfs2_remove_empty_extent(t2.l[n].recs)] ELSE t2, LAMBDA t3 :
        IF ~FirstEmpty(t.l[n].recs) THEN [t |-> t, how |-> "moved"]
        ELSE IF FirstEmpty(t.r[n].recs) /\ ~last THEN [t |-> t, how |-> "again"]
        ELSE IF delete
        THEN [t |-> [t3 EXCEPT !.s = ocfs2_sync_path_to_disk(t3.s, t3.l, <<>>, sub)],
              how |-> "deleted"]
        ELSE [t |-> SyncBoth(ocfs2_complete_edge_insert(t1, sub), sub), how |-> "moved"]))))))

RECURSIVE RotateLeft(_, _)
RotateLeft(t, c) ==
    With(ocfs2_find_path(t.s, c), LAMBDA r :
    With(ocfs2_rotate_subtree_left([t EXCEPT !.r = r], ocfs2_find_subtree_root(t.l, r)), LAMBDA x :
        IF ~Going(t.s) \/ c = 0 THEN t.s
        ELSE IF c < 0 \/ Broken(r) THEN Fail(t.s, "corrupt")
        ELSE IF x.how \in {"again", "deleted"} THEN x.t.s
        ELSE RotateLeft([x.t EXCEPT !.l = x.t.r], ocfs2_find_cpos_for_right_leaf(x.t.s, x.t.r))))

\* __ocfs2_rotate_tree_left: the path is read again in the end, and the
\* result of that read takes the place of EAGAIN.
Reread(s, p) == <<>> \o [i \in DOMAIN p |-> s.d.eb[p[i].blk]]

ocfs2_remove_rightmost_path(s, p) ==
    With(ocfs2_find_cpos_for_left_leaf(s, p), LAMBDA c :
    With(ocfs2_find_path(s, c), LAMBDA l :
    With(ocfs2_find_subtree_root(l, p), LAMBDA sub :
    With(DropRight([s |-> s, l |-> l, r |-> p], sub), LAMBDA t1 :
    LET s2 == ocfs2_unlink_path(s, p, 1) IN
        IF c < 0 THEN Fail(s, "corrupt")
        ELSE IF c > 0 THEN ocfs2_sync_path_to_disk(t1.s, t1.l, <<>>, sub)
        ELSE [s2 EXCEPT !.di.depth = 0, !.di.recs = <<>>, !.di.last = 0]))))

\* The result is the state and the path, which is gone when the leaf is.
ocfs2_rotate_tree_left(s, p) ==
    LET n == Len(p)
        recs == LeafRecs(s, p) IN
    With([p EXCEPT ![n].recs = ocfs2_remove_empty_extent(recs)], LAMBDA cut :
    With(RotateLeft([s |-> s, l |-> p, r |-> <<>>], ocfs2_find_cpos_for_right_leaf(s, p)), LAMBDA s1 :
        IF ~FirstEmpty(recs) \/ ~Going(s) THEN [s |-> s, p |-> p]
        ELSE IF n = 0 THEN [s |-> [s EXCEPT !.di.recs = ocfs2_remove_empty_extent(recs)], p |-> p]
        ELSE IF p[n].next = 0 /\ Len(recs) > 1
        THEN [s |-> ocfs2_write_extent_block(s, cut[n]), p |-> cut]
        ELSE IF p[n].next = 0 /\ recs = <<>> THEN [s |-> Fail(s, "corrupt"), p |-> p]
        ELSE IF p[n].next = 0 THEN [s |-> ocfs2_remove_rightmost_path(s, p), p |-> p]
        ELSE [s |-> s1, p |-> Reread(s1, p)]))

---------------------------------------------------------------------------
(* Merging a part of a record with a neighbour.                            *)

\* A record used up leaves the empty extent in the first place; <<>> when
\* there is one already, which the code asserts never happens.
ocfs2_cleanup_merge(recs, i) ==
    IF recs[i].len # 0 THEN recs
    ELSE IF i > 1 /\ recs[1].len = 0 THEN <<>>
    ELSE <<Rec0>> \o SubSeq(recs, 1, i - 1) \o SubSeq(recs, i + 1, Len(recs))
ocfs2_merge_rec_right(recs, n, i) ==
    LET r == recs[i + 1]
    IN  ocfs2_cleanup_merge(
            [recs EXCEPT ![i].len = recs[i].len - n,
                         ![i + 1] = [r EXCEPT !.cpos = r.cpos - n, !.blk = r.blk - n,
                                              !.len = r.len + n]], i)
ocfs2_merge_rec_left(recs, split, i) ==
    LET l == recs[i - 1]
    IN  ocfs2_cleanup_merge(
            [recs EXCEPT ![i - 1] = IF i = 2 /\ l.len = 0 THEN split
                                    ELSE [l EXCEPT !.len = l.len + split.len],
                         ![i] = ocfs2_subtract_from_rec("left", recs[i], split)], i)

SetLeaf(x, recs) == IF recs = <<>> THEN [x EXCEPT !.s = Fail(x.s, "assert")]
                    ELSE IF x.p = <<>> THEN [x EXCEPT !.s.di.recs = recs]
                    ELSE [x EXCEPT !.p[Len(x.p)].recs = recs]
WriteLeaf(x) == IF x.p = <<>> THEN x
                ELSE [x EXCEPT !.s = ocfs2_write_extent_block(x.s, LastOf(x.p))]
RotateAway(x) == ocfs2_rotate_tree_left(x.s, x.p)

\* The last rotation of a merge may fail.
TryRotateAway(x) ==
    With(RotateAway(x), LAMBDA y :
        IF ~Going(x.s) \/ y.s.err = "assert" THEN y.s ELSE [y.s EXCEPT !.err = ""])

\* x is the state and the path; the record at i is to take the form split.
ocfs2_try_to_merge_extent(x, i0, split, contig, covers) ==
    LET first == covers /\ FirstEmpty(LeafRecs(x.s, x.p)) IN
    With(IF first THEN RotateAway(x) ELSE x, LAMBDA x1 :
    LET i == IF first THEN i0 - 1 ELSE i0 IN
    With(LeafRecs(x1.s, x1.p), LAMBDA recs :
    With(RotateAway(SetLeaf(x1, ocfs2_merge_rec_left(recs, split, i))), LAMBDA x2 :
    With(LeafRecs(x2.s, x2.p), LAMBDA recs2 :
    LET x3 == SetLeaf(x2, ocfs2_merge_rec_right(recs2, recs2[i - 1].len, i - 1)) IN
    With(WriteLeaf(SetLeaf(x1, IF contig = "right"
                               THEN ocfs2_merge_rec_left(recs, split, i)
                               ELSE ocfs2_merge_rec_right(recs, split.len, i))), LAMBDA x4 :
        IF ~Going(x1.s) THEN x1.s
        ELSE IF contig # "left" /\ i <= 1 THEN Fail(x1.s, "assert")
        ELSE IF contig = "leftright" THEN IF Going(x2.s) THEN TryRotateAway(x3) ELSE x2.s
        ELSE IF covers THEN TryRotateAway(x4) ELSE x4.s)))))

\* ocfs2_figure_merge_contig_type
ocfs2_figure_merge_contig_type(recs, i, split) ==
    With(IF i = 1 THEN "none"
         ELSE IF i = 2 /\ FirstEmpty(recs)
         THEN IF split.cpos = recs[i].cpos THEN "right" ELSE "none"
         ELSE ocfs2_extent_contig(recs[i - 1], split), LAMBDA before :
    With(IF i = Len(recs) THEN "none" ELSE ocfs2_extent_contig(recs[i + 1], split), LAMBDA after :
        IF after = "left" /\ before = "right" THEN "leftright"
        ELSE IF before = "none" THEN after ELSE before))

---------------------------------------------------------------------------
(* Growing the tree.  last is the caller's copy of the rightmost leaf.     *)

ocfs2_sum_rightmost_rec(recs) == EndOf(LastOf(recs))

\* shift_tree_depth: the list of the inode moves to a block of its own.
shift_tree_depth(s) ==
    With(ocfs2_new_extent_block(s), LAMBDA x :
    With([Node0 EXCEPT !.blk = x.blk, !.depth = s.di.depth, !.recs = s.di.recs], LAMBDA n :
    LET up == [Rec0 EXCEPT !.blk = x.blk, !.len = ocfs2_sum_rightmost_rec(s.di.recs)]
        s1 == [x.s EXCEPT !.di.depth = s.di.depth + 1, !.di.recs = <<up>>,
                          !.di.last = IF s.di.depth = 0 THEN x.blk ELSE s.di.last] IN
        IF Len(s.di.recs) # RootRecs THEN [s |-> Fail(s, "internal"), n |-> Node0]
        ELSE IF ~Going(x.s) THEN [s |-> x.s, n |-> Node0]
        ELSE [s |-> ocfs2_write_extent_block(s1, n), n |-> n]))

\* ocfs2_find_branch_target: the lowest block of the right edge with room;
\* the search reads every level into one buffer.
RECURSIVE RightEdge(_, _)
RightEdge(s, el) ==
    LET n == s.d.eb[LastOf(el.recs).blk]
    IN  IF el.depth <= 1 THEN <<>> ELSE <<n>> \o RightEdge(s, n)
ocfs2_find_branch_target(s) ==
    LET edge == RightEdge(s, s.di)
        room == {i \in DOMAIN edge : Len(edge[i].recs) < EbRecs}
    IN  IF room # {} THEN [how |-> "block", n |-> LastOf(edge)]
        ELSE IF Len(s.di.recs) = RootRecs THEN [how |-> "shift", n |-> Node0]
        ELSE [how |-> "root", n |-> Node0]

\* The new blocks of a branch, from the leaf up; empty when one is missing.
RECURSIVE NewBlocks(_, _)
NewBlocks(s, k) ==
    With(ocfs2_new_extent_block(s), LAMBDA x :
    With(NewBlocks(x.s, k - 1), LAMBDA y :
        IF k = 0 THEN [s |-> s, blks |-> <<>>]
        ELSE IF ~Going(x.s) THEN [s |-> x.s, blks |-> <<>>]
        ELSE [s |-> y.s, blks |-> <<x.blk>> \o y.blks]))

\* Deleting goes on after an error, which stays the result of the call.
RECURSIVE DeleteAll(_, _)
DeleteAll(s, blks) ==
    LET s1 == ocfs2_delete_extent_block([s EXCEPT !.err = ""], Head(blks))
    IN  IF blks = <<>> THEN s ELSE DeleteAll([s1 EXCEPT !.err = s.err], Tail(blks))

RECURSIVE WriteAll(_, _)
WriteAll(s, ns) == IF ns = <<>> THEN s ELSE WriteAll(ocfs2_write_extent_block(s, Head(ns)), Tail(ns))

\* target is Node0 when the branch goes under the inode.
ocfs2_add_branch(s, target, last) ==
    LET inroot == target.blk = 0
        k == IF inroot THEN s.di.depth ELSE target.depth IN
    With(NewBlocks(s, k), LAMBDA x :
    LET c == ocfs2_sum_rightmost_rec(last.recs)
        Up(b) == [Rec0 EXCEPT !.cpos = c, !.blk = b] IN
    With([i \in 1..k |->
      [Node0 EXCEPT !.blk = x.blks[i], !.depth = i - 1,
                    !.recs = <<Up(IF i = 1 THEN 0 ELSE x.blks[i - 1])>>]], LAMBDA new :
    LET s1 == [x.s EXCEPT !.di.last = x.blks[1],
                          !.di.recs = IF inroot THEN Append(s.di.recs, Up(x.blks[k])) ELSE s.di.recs] IN
    With(ocfs2_write_extent_block(WriteAll(s1, new), [last EXCEPT !.next = x.blks[1]]), LAMBDA s2 :
    LET s3 == ocfs2_write_extent_block(s2, [target EXCEPT !.recs = Append(target.recs, Up(x.blks[k]))]) IN
        IF Going(x.s) THEN [s |-> IF inroot THEN s2 ELSE s3, last |-> new[1]]
        ELSE [s |-> DeleteAll(x.s, x.blks), last |-> last])))

ocfs2_grow_tree(s, last) ==
    With(ocfs2_find_branch_target(s), LAMBDA to :
    With(shift_tree_depth(s), LAMBDA x :
        IF to.how # "shift" THEN ocfs2_add_branch(s, to.n, last)
        ELSE IF ~Going(x.s) THEN [s |-> x.s, last |-> last]
        ELSE IF s.di.depth = 0 THEN [s |-> x.s, last |-> x.n]
        ELSE ocfs2_add_branch(x.s, x.n, last)))

---------------------------------------------------------------------------
(* Inserting a record.                                                     *)

\* ocfs2_figure_contig_type, ocfs2_figure_appending_type
ContigAt(recs, rec) == {i \in DOMAIN recs : ocfs2_extent_contig(recs[i], rec) # "none"}
AppendsTo(recs, rec) == OnlyEmpty(recs) \/ rec.cpos >= EndOf(LastOf(recs))

LastLeaf(s) == IF s.di.depth = 0 THEN Node0 ELSE s.d.eb[s.di.last]
ocfs2_figure_insert_type(s, rec) ==
    With(ocfs2_find_path(s, rec.cpos), LAMBDA p :
    With(LeafRecs(s, p), LAMBDA recs :
    With(ContigAt(recs, rec), LAMBDA at :
    With(IF at = {} THEN 0 ELSE MinOf(at), LAMBDA i :
    With(IF at = {} THEN "none" ELSE ocfs2_extent_contig(recs[i], rec), LAMBDA c :
    With(p = <<>> \/ s.di.last = LastOf(p).blk, LAMBDA tail :
        [split |-> "none", at |-> i, ok |-> ~Broken(p),
         contig |-> IF p # <<>> /\ c = "left" /\ i = 1 THEN "none" ELSE c,
         tail |-> tail /\ AppendsTo(recs, rec)]))))))

ocfs2_insert_at_leaf(recs, rec, type) ==
    LET i == type.at
        r == recs[i]
    IN  IF type.split # "none"
        THEN LET k == ocfs2_search_extent_list(recs, rec.cpos)
             IN  ocfs2_rotate_leaf([recs EXCEPT ![k] =
                     ocfs2_subtract_from_rec(type.split, recs[k], rec)], rec)
        ELSE IF type.contig = "left"
        THEN [recs EXCEPT ![i] = [r EXCEPT !.blk = rec.blk, !.cpos = rec.cpos, !.len = r.len + rec.len]]
        ELSE IF type.contig = "right" THEN [recs EXCEPT ![i].len = r.len + rec.len]
        ELSE IF OnlyEmpty(recs) THEN <<rec>>
        ELSE IF type.tail THEN Append(recs, rec)
        ELSE ocfs2_rotate_leaf(recs, rec)

\* ocfs2_adjust_rightmost_records, on the right path.
RECURSIVE AdjustRight(_, _, _)
AdjustRight(t, i, rec) ==
    LET recs == El(t, "r", i).recs
        r == LastOf(recs)
    IN  IF i = Len(t.r) THEN t
        ELSE IF recs = <<>> THEN TFail(t, "corrupt")
        ELSE AdjustRight(SetRecs(t, "r", i, PutLast(recs, [r EXCEPT !.len = U32(EndOf(rec) - r.cpos)])),
                         i + 1, rec)
ocfs2_append_rec_to_path(s, rec, r) ==
    With(ocfs2_find_cpos_for_left_leaf(s, r), LAMBDA c :
    With(IF OnlyEmpty(LastOf(r).recs) /\ c > 0 THEN ocfs2_find_path(s, c) ELSE <<>>, LAMBDA l :
        IF (OnlyEmpty(LastOf(r).recs) /\ c < 0) \/ Broken(l)
        THEN [s |-> Fail(s, "corrupt"), l |-> <<>>, r |-> r]
        ELSE AdjustRight([s |-> s, l |-> l, r |-> r], 0, rec)))

\* The record that is split is in the right leaf or, when the rotation moved
\* the leaf's end, in the left one.
ocfs2_split_record(t, rec, split) ==
    LET n == Len(t.r)
        left == IF t.l = <<>> THEN <<>> ELSE t.l[n].recs
        right == t.r[n].recs IN
    With(ocfs2_search_extent_list(right, rec.cpos), LAMBDA i :
    LET Cut(recs) == LET k == ocfs2_search_extent_list(recs, rec.cpos)
                     IN  [recs EXCEPT ![k] = ocfs2_subtract_from_rec(split, recs[k], rec)] IN
        IF i = 1 /\ t.l # <<>> /\ split = "left"
        THEN [t EXCEPT !.r[n].recs = Cut(right), !.l[n].recs = ocfs2_rotate_leaf(left, rec)]
        ELSE IF i = 1 /\ t.l # <<>>
        THEN [t EXCEPT !.l[n].recs = Cut(ocfs2_rotate_leaf(left, right[1])),
                       !.r[n].recs = ocfs2_rotate_leaf([right EXCEPT ![1] = Rec0], rec)]
        ELSE IF i # 0 THEN [t EXCEPT !.r[n].recs = ocfs2_rotate_leaf(Cut(right), rec)]
        ELSE IF ~FirstEmpty(left) \/ ocfs2_search_extent_list(left, rec.cpos) = 0
        THEN TFail(t, "assert")
        ELSE [t EXCEPT !.l[n].recs = ocfs2_rotate_leaf(Cut(left), rec)])

ocfs2_insert_path(t, rec, type) ==
    LET n == Len(t.r) IN
    With(IF type.split # "none" THEN ocfs2_split_record(t, rec, type.split)
         ELSE [t EXCEPT !.r[n].recs = ocfs2_insert_at_leaf(t.r[n].recs, rec, type)], LAMBDA t1 :
    With(IF t.l = <<>> THEN 0 ELSE ocfs2_find_subtree_root(t.l, t.r), LAMBDA sub :
    LET t2 == IF t.l = <<>> THEN t1 ELSE ocfs2_complete_edge_insert(t1, sub) IN
        IF ~Going(t.s) THEN t.s
        ELSE IF ~Going(t1.s) THEN t1.s
        ELSE SyncBoth(t2, sub).s))

UINT_MAX == Wide - 1
ocfs2_do_insert_extent(s, rec, type) ==
    LET rotate == ~type.tail /\ type.contig = "none" IN
    With(ocfs2_find_path(s, IF rotate THEN UINT_MAX ELSE rec.cpos), LAMBDA r :
    With(IF rotate THEN ocfs2_rotate_tree_right(s, type.split, rec.cpos, r)
         ELSE IF type.tail /\ type.contig # "left" THEN ocfs2_append_rec_to_path(s, rec, r)
         ELSE [s |-> s, l |-> <<>>, r |-> r], LAMBDA t :
    With(IF s.di.depth = 0
         THEN [s EXCEPT !.di.recs = ocfs2_insert_at_leaf(s.di.recs, rec, type)]
         ELSE IF Broken(r) THEN Fail(s, "corrupt")
         ELSE ocfs2_insert_path(t, rec, type), LAMBDA s1 :
        IF ~Going(s) THEN s
        ELSE IF type.split = "none" /\ Going(s1)
        THEN [s1 EXCEPT !.di.clusters = s1.di.clusters + rec.len] ELSE s1)))

---------------------------------------------------------------------------
(* The copy of the extent blocks that an operation works on.               *)

\* duplicate_extent_block, from the last record to the first; a record of no
\* clusters is skipped.  What is missing when it fails is only what the
\* level at hand has got.
Blank(recs) == <<>> \o [i \in DOMAIN recs |-> Rec0]

RECURSIVE DupFrom(_, _, _)
DupFrom(x, recs, k) ==
    LET rec == recs[k]
        n == x.s.d.eb[rec.blk]
        sub == [s |-> x.s, recs |-> Blank(n.recs), nl |-> x.nl] IN
    With(IF n.depth = 0 THEN [sub EXCEPT !.recs = n.recs]
         ELSE IF n.recs = <<>> THEN [sub EXCEPT !.s = Fail(x.s, "corrupt")]
         ELSE DupFrom(sub, n.recs, Len(n.recs)), LAMBDA c :
    With(ocfs2_new_extent_block(c.s), LAMBDA a :
    LET new == [n EXCEPT !.blk = a.blk, !.recs = c.recs, !.next = IF n.depth = 0 THEN x.nl ELSE n.next] IN
    With(ocfs2_write_extent_block(a.s, new), LAMBDA s1 :
    LET s2 == [s1 EXCEPT !.di.last = IF s1.di.last = rec.blk THEN a.blk ELSE s1.di.last]
        got == SelectSeq([i \in DOMAIN x.recs |-> x.recs[i].blk], LAMBDA b : b # 0) IN
        IF k = 0 THEN x
        ELSE IF rec.len = 0 THEN DupFrom(x, recs, k - 1)
        ELSE IF ~Going(a.s) THEN [x EXCEPT !.s = DeleteAll(a.s, got)]
        ELSE DupFrom([s |-> s2, recs |-> [x.recs EXCEPT ![k] = [rec EXCEPT !.blk = a.blk]],
                      nl |-> IF n.depth = 0 THEN a.blk ELSE c.nl], recs, k - 1))))
duplicate_extent_block_dinode(s) ==
    LET recs == s.di.recs IN
    With(DupFrom([s |-> s, recs |-> Blank(recs), nl |-> 0], recs, Len(recs)), LAMBDA x :
        IF Going(x.s) /\ recs # <<>> THEN [s |-> [x.s EXCEPT !.di.recs = x.recs], ok |-> TRUE]
        ELSE [s |-> Odd([x.s EXCEPT !.di = s.di, !.err = ""], "in_place"), ok |-> FALSE])

\* free_duplicated_extent_block: the blocks of a tree, each after those below it.
RECURSIVE BlocksBelow(_, _, _)
BlocksBelow(d, el, k) ==
    LET rec == el.recs[k]
    IN  IF k > Len(el.recs) THEN <<>>
        ELSE IF rec.len = 0 \/ rec.blk = 0 THEN BlocksBelow(d, el, k + 1)
        ELSE (IF d.eb[rec.blk].depth > 0 THEN BlocksBelow(d, d.eb[rec.blk], 1) ELSE <<>>)
             \o <<rec.blk>> \o BlocksBelow(d, el, k + 1)
free_duplicated_extent_block_dinode(s, di) == DeleteAll(s, BlocksBelow(s.d, di, 1))

\* Mutant: the duplicates of a call that failed stay.
free_old_only(s, dup, old) ==
    IF ~dup.ok \/ old.depth = 0 \/ ~Going(s) THEN s
    ELSE free_duplicated_extent_block_dinode(s, old)
\* The old blocks go when the operation succeeded, the new ones when it failed.
FreeSpare(s, dup, old) ==
    IF ~dup.ok \/ old.depth = 0 \/ s.err = "assert" THEN s
    ELSE free_duplicated_extent_block_dinode(s, IF Going(s) THEN old ELSE s.di)
\* Mutant: the tree is never duplicated.
in_place(s) == [s |-> s, ok |-> FALSE]
Duplicated(s) == IF s.di.depth = 0 THEN [s |-> s, ok |-> TRUE] ELSE duplicate_extent_block_dinode(s)

ocfs2_cached_inode_insert_extent(s, rec) ==
    With(Duplicated(s), LAMBDA dup :
    With(dup.s, LAMBDA s1 :
    With(ocfs2_figure_insert_type(s1, rec), LAMBDA type :
    With(LastLeaf(s1), LAMBDA last :
    LET full == IF s1.di.depth = 0 THEN Len(s1.di.recs) >= RootRecs ELSE Len(last.recs) >= EbRecs
        s2 == IF type.contig = "none" /\ full THEN ocfs2_grow_tree(s1, last).s ELSE s1 IN
        IF ~Going(s) THEN s
        ELSE FreeSpare(IF type.ok THEN ocfs2_do_insert_extent(s2, rec, type) ELSE Fail(s1, "corrupt"),
                       dup, s.di)))))

---------------------------------------------------------------------------
(* Marking a part of an unwritten record written.                          *)

\* ocfs2_split_and_insert: a part in the middle is cut off on the right first
\* and on the left in a second round, with the copy of the last leaf of before.
\* Such a part takes two places of a last leaf that has one.
OnePlace(g, rec, split) ==
    /\ rec.cpos < split.cpos /\ EndOf(split) < EndOf(rec)
    /\ g.s.di.depth > 0 /\ Len(g.last.recs) = EbRecs - 1
RECURSIVE SplitAndInsert(_, _, _, _)
SplitAndInsert(x, rec, split, second) ==
    LET last == x.last
        full == IF x.s.di.depth = 0 THEN Len(x.s.di.recs) = RootRecs ELSE Len(last.recs) = EbRecs IN
    With(IF full THEN ocfs2_grow_tree(x.s, last) ELSE [s |-> x.s, last |-> last], LAMBDA grown :
    With(IF OnePlace(grown, rec, split) THEN [grown EXCEPT !.s = Odd(grown.s, "one_place")] ELSE grown, LAMBDA g :
    LET Type(how) == [split |-> how, at |-> 0, ok |-> TRUE, contig |-> "none", tail |-> FALSE]
        off == EndOf(split) - rec.cpos
        rest == [rec EXCEPT !.cpos = EndOf(split), !.len = rec.len - off, !.blk = rec.blk + off] IN
    With(ocfs2_do_insert_extent(g.s, rest, Type("right")), LAMBDA s1 :
    With(ocfs2_find_path(s1, split.cpos), LAMBDA p :
    With(LeafRecs(s1, p), LAMBDA recs :
    With(ocfs2_search_extent_list(recs, split.cpos), LAMBDA k :
        IF ~Going(g.s) THEN g.s
        ELSE IF split.cpos = rec.cpos THEN ocfs2_do_insert_extent(g.s, split, Type("left"))
        ELSE IF EndOf(split) = EndOf(rec) THEN ocfs2_do_insert_extent(g.s, split, Type("right"))
        ELSE IF ~Going(s1) THEN s1
        ELSE IF second \/ Broken(p) \/ k = 0 THEN Fail(s1, "assert")
        ELSE SplitAndInsert([s |-> s1, last |-> g.last], recs[k], split, TRUE)))))))

\* When the whole record changes and has no neighbour to join, the leaf is
\* changed in the path alone.
__ocfs2_mark_extent_written(s, p, i, split) ==
    LET recs == LeafRecs(s, p)
        rec == recs[i] IN
    With(ocfs2_figure_merge_contig_type(recs, i, split), LAMBDA contig :
    LET covers == rec.cpos = split.cpos /\ rec.len = split.len IN
        IF ~rec.unw \/ rec.cpos > split.cpos \/ EndOf(rec) < EndOf(split) THEN Fail(s, "invalid")
        ELSE IF contig # "none"
        THEN ocfs2_try_to_merge_extent([s |-> s, p |-> p], i, split, contig, covers)
        ELSE IF covers
        THEN SetLeaf([s |-> IF p = <<>> THEN s ELSE Odd(s, "unsynced"), p |-> p],
                     [recs EXCEPT ![i] = split]).s
        ELSE SplitAndInsert([s |-> s, last |-> LastLeaf(s)], rec, split, FALSE))

ocfs2_mark_extent_written(s, cpos, len, blk) ==
    With(Duplicated(s), LAMBDA dup :
    With(ocfs2_find_path(dup.s, cpos), LAMBDA p :
    With(ocfs2_search_extent_list(LeafRecs(dup.s, p), cpos), LAMBDA i :
    LET split == [Rec0 EXCEPT !.cpos = cpos, !.len = len, !.blk = blk]
        s1 == IF Broken(p) \/ i = 0 THEN Fail(dup.s, "corrupt")
              ELSE ocfs2_write_inode(__ocfs2_mark_extent_written(dup.s, p, i, split)) IN
        IF ~Going(s) THEN s ELSE FreeSpare(s1, dup, s.di))))

---------------------------------------------------------------------------
(* Truncation: an iteration that visits a block after what is below it.    *)

\* truncate_iterate, on the record rec of a list of the given depth.
truncate_iterate(x, rec, depth, new) ==
    LET keep == IF rec.cpos >= new THEN 0 ELSE new - rec.cpos
        cut == IF keep = 0 THEN Rec0 ELSE [rec EXCEPT !.len = keep]
        gone == {rec.blk + j : j \in keep..(rec.len - 1)}
        s1 == Written(x.s, [x.s.d EXCEPT !.clu = x.s.d.clu \ gone])
        void == keep = 0 \/ x.s.d.eb[rec.blk].recs = <<>>
    IN  IF EndOf(rec) <= new THEN [x EXCEPT !.rec = rec]
        ELSE IF depth = 0
        THEN [x EXCEPT !.s = s1, !.freed = x.freed + rec.len - keep, !.rec = cut, !.changed = TRUE]
        ELSE IF void
        THEN [x EXCEPT !.s = ocfs2_delete_extent_block(x.s, rec.blk), !.rec = Rec0, !.changed = TRUE]
        ELSE [x EXCEPT !.rec = cut, !.changed = TRUE]

\* extent_iterate_el and extent_iterate_eb; x.lc and x.lb follow the last leaf.
RECURSIVE IterateEl(_, _, _, _)
IterateEl(x, el, k, new) ==
    LET rec == el.recs[k]
        n == x.s.d.eb[rec.blk]
        below == IterateEl([x EXCEPT !.changed = FALSE, !.recs = n.recs], n, 1, new)
        b1 == IF below.changed
              THEN [below EXCEPT !.s = ocfs2_write_extent_block(below.s, [n EXCEPT !.recs = below.recs])]
              ELSE below IN
    With(truncate_iterate([b1 EXCEPT !.changed = x.changed], rec, el.depth, new), LAMBDA b2 :
    LET b3 == IF b2.rec.len # 0 /\ b2.rec.cpos >= b2.lc
              THEN [b2 EXCEPT !.lc = b2.rec.cpos, !.lb = IF el.depth = 1 THEN b2.rec.blk ELSE b2.lb]
              ELSE b2 IN
    With(IF el.depth > 0 THEN b3
         ELSE IF k = 1 /\ rec.len = 0 THEN [x EXCEPT !.rec = rec]
         ELSE truncate_iterate(x, rec, 0, new), LAMBDA y :
    LET void == {i \in DOMAIN x.recs : x.recs[i].len = 0} IN
        IF k > Len(el.recs) \/ ~Going(x.s)
        THEN IF x.changed /\ void # {} THEN [x EXCEPT !.recs = SubSeq(x.recs, 1, MinOf(void) - 1)] ELSE x
        ELSE IF el.depth > 0 /\ rec.blk = 0 THEN IterateEl(x, el, k + 1, new)
        ELSE IF el.depth > 0 /\ (n.depth # el.depth - 1 \/ n.blk # rec.blk)
        THEN [x EXCEPT !.s = Fail(x.s, "corrupt")]
        ELSE IterateEl([y EXCEPT !.recs = [x.recs EXCEPT ![k] = y.rec]], el, k + 1, new)))

\* The iteration over the inode, which is written when anything changed.
TruncateTree(s, new) ==
    With(IterateEl([s |-> s, rec |-> Rec0, recs |-> s.di.recs, changed |-> FALSE,
                    freed |-> 0, lc |-> 0, lb |-> 0], s.di, 1, new), LAMBDA x :
    LET s1 == [x.s EXCEPT !.di.recs = x.recs, !.di.last = x.lb] IN
        [s |-> IF x.changed \/ s.di.last # x.lb THEN ocfs2_write_inode(s1) ELSE x.s,
         freed |-> x.freed])

---------------------------------------------------------------------------
(* Looking a cluster up.                                                   *)

\* ocfs2_figure_hole_clusters: up to the next record, in this leaf or the next.
HoleIndex(recs, v) ==
    LET after == {i \in DOMAIN recs : v < recs[i].cpos}
    IN  IF after = {} THEN Len(recs) + 1 ELSE MinOf(after)
ocfs2_figure_hole_clusters(s, p, v) ==
    LET recs == LeafRecs(s, p) IN
    With(HoleIndex(recs, v), LAMBDA i :
    LET next == IF p = <<>> THEN 0 ELSE LastOf(p).next
        there == s.d.eb[next].recs IN
    With(HoleIndex(there, v), LAMBDA j :
        IF i <= Len(recs) THEN recs[i].cpos - v
        ELSE IF next = 0 THEN UINT_MAX - v
        ELSE IF j > 2 \/ (j = 2 /\ there[1].len # 0) THEN 0 - 1
        ELSE IF j > Len(there) THEN UINT_MAX - v ELSE there[j].cpos - v))

\* A place of 0 is a hole, an n of -1 an error.
ocfs2_get_clusters(s, v) ==
    With(ocfs2_find_path(s, v), LAMBDA p :
    With(LeafRecs(s, p), LAMBDA recs :
    With(ocfs2_search_extent_list(recs, v), LAMBDA i :
    With(recs[i], LAMBDA rec :
        IF Broken(p) \/ (p # <<>> /\ LastOf(p).depth # 0) THEN [blk |-> 0, n |-> 0 - 1, unw |-> FALSE]
        ELSE IF i = 0 THEN [blk |-> 0, n |-> ocfs2_figure_hole_clusters(s, p, v), unw |-> FALSE]
        ELSE IF rec.blk = 0 THEN [blk |-> 0, n |-> 0 - 1, unw |-> FALSE]
        ELSE [blk |-> rec.blk + (v - rec.cpos), n |-> rec.len - (v - rec.cpos), unw |-> rec.unw]))))
===========================================================================
