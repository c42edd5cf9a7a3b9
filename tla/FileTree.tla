----------------------------- MODULE FileTree -----------------------------
(***************************************************************************)
(* One file of a volume under libocfs2: reading and writing it             *)
(* (libocfs2/fileio.c), allocating unwritten extents to it and extending   *)
(* it (extend_file.c), truncating it (truncate.c), formatting it as a      *)
(* journal (mkjournal.c) and growing it as a directory (expanddir.c).      *)
(*                                                                         *)
(* Between two calls nothing is kept in memory: the state is the device.   *)
(* A call is one action, whose writes reach the device in the order of     *)
(* s.log; a crash leaves the device as it was after some of them.          *)
(* Sizes, offsets and lengths are counted in blocks.                       *)
(***************************************************************************)
EXTENDS ExtentTree

CONSTANTS NBlocks,      \* the blocks a file may have
          Clusters,     \* the clusters of the volume, 1..n
          Volumes,      \* blocks of a cluster, and the extent blocks and clusters
                        \* that other files hold: [bpc, eb, clu]
          MayCrash,
          MaxCalls      \* bound on the calls made

VARIABLES dev,          \* the device
          others,       \* what other files hold
          kind,         \* "file", "journal" or "directory"
          bpc,          \* blocks of a cluster
          shown,        \* what the file on the device reads as
          calls,        \* calls made so far
          op,           \* the last call: what, at which block, how many
          err,          \* the result of the last call
          odd,          \* the places and requests met that the code gets wrong
          torn          \* the file before and after a call a crash cut off, or NotTorn

vars == <<dev, others, kind, bpc, shown, calls, op, err, odd, torn>>
NoCall == [what |-> "", at |-> 0, n |-> 0]
Nobody == [eb |-> {}, clu |-> {}]
NotTorn == [cut |-> FALSE, old |-> <<>>, new |-> <<>>]

Garbage == 0 - 1                        \* what a cluster held before
Tag(v) == v + 1                         \* what the program writes at block v
PBlocks == 0..((Clusters + 1) * bpc - 1)

\* A call begins by reading the inode.
Begin == [d |-> dev, di |-> dev.ino, err |-> "", log |-> <<>>, odd |-> {}]

---------------------------------------------------------------------------
(* Clusters and data blocks.                                               *)

\* ocfs2_new_clusters: a run from the lowest free cluster, or one cluster
\* from the end of a volume whose free space is in pieces.
ocfs2_new_clusters(s, want, how) ==
    LET free == (1..Clusters) \ s.d.clu
        lo == MinOf(free)
        hi == CHOOSE c \in free : \A x \in free : x <= c IN
    With(CHOOSE k \in 1..want : /\ \A j \in 0..(k - 1) : (lo + j) \in free
                                /\ k = want \/ (lo + k) \notin free, LAMBDA n :
    With(IF how = "low" THEN lo..(lo + n - 1) ELSE {hi}, LAMBDA got :
        IF free = {} THEN [s |-> Fail(s, "nospace"), at |-> 0, n |-> 0]
        ELSE [s |-> Written(s, [s.d EXCEPT !.clu = s.d.clu \cup got]),
              at |-> MinOf(got), n |-> Cardinality(got)]))
ocfs2_free_clusters(s, at, n) ==
    Written(s, [s.d EXCEPT !.clu = s.d.clu \ (at..(at + n - 1))])

\* After a failed insert the clusters go back, and the error stays.
GiveBack(s, at, n) ==
    LET s1 == ocfs2_free_clusters([s EXCEPT !.err = ""], at, n)
    IN  IF Going(s) \/ s.err = "assert" THEN s ELSE [s1 EXCEPT !.err = s.err]

PutBlocks(s, p, n, F(_)) ==
    IF n = 0 THEN s
    ELSE Written(s, [s.d EXCEPT !.data =
            [b \in PBlocks |-> IF b \in p..(p + n - 1) THEN F(b - p) ELSE s.d.data[b]]])
empty_blocks(s, p, n) == PutBlocks(s, p, n, LAMBDA i : 0)

\* ocfs2_extent_map_get_blocks: blk is 0 in a hole, n is -1 after an error.
ocfs2_extent_map_get_blocks(s, v) ==
    With(ocfs2_get_clusters(s, v \div bpc), LAMBDA c :
        [blk |-> IF c.blk = 0 THEN 0 ELSE (c.blk * bpc) + (v % bpc),
         n |-> IF c.n < 0 THEN 0 - 1 ELSE (c.n * bpc) - (v % bpc), unw |-> c.unw])

\* ocfs2_file_read, a block at a time.
ReadBlock(d, v) ==
    With(ocfs2_extent_map_get_blocks([d |-> d, di |-> d.ino, err |-> "", log |-> <<>>, odd |-> {}], v), LAMBDA m :
        IF m.n < 0 THEN Garbage ELSE IF m.blk = 0 \/ m.unw THEN 0 ELSE d.data[m.blk])
ocfs2_file_read(d) == [v \in 0..(d.ino.size - 1) |-> ReadBlock(d, v)]

---------------------------------------------------------------------------
(* Writing.                                                                *)

\* ocfs2_file_block_write, one turn of its loop after another.
RECURSIVE BlockWrite(_, _, _, _)
BlockWrite(s, v, wanted, how) ==
    With(ocfs2_extent_map_get_blocks(s, v), LAMBDA m :
    With(IF m.n > wanted THEN wanted ELSE m.n, LAMBDA run :
    LET Data(i) == Tag(v + i)
        \* a hole
        head == v % bpc IN
    With(ocfs2_new_clusters(s, (v + run - 1) \div bpc - v \div bpc + 1, how), LAMBDA a :
    With(a.at * bpc + head, LAMBDA p :
    With(a.n * bpc - head, LAMBDA room :
    With(IF room > wanted THEN wanted ELSE room, LAMBDA cnt :
    LET h1 == PutBlocks(empty_blocks(empty_blocks(a.s, a.at * bpc, head), p + wanted, room - cnt),
                        p, cnt, Data)
        h2 == GiveBack(ocfs2_cached_inode_insert_extent(h1,
                  [Rec0 EXCEPT !.cpos = v \div bpc, !.blk = a.at, !.len = a.n]), a.at, a.n) IN
    With(ocfs2_write_inode(h2), LAMBDA h3 :
    LET found == ocfs2_extent_map_get_blocks(h3, v).blk = p IN
    \* an unwritten extent
    With(m.blk + wanted, LAMBDA end :
    With(empty_blocks(empty_blocks(s, m.blk - head, head), end, (0 - end) % bpc), LAMBDA u1 :
    LET u2 == PutBlocks(IF run < wanted /\ end % bpc # 0 THEN Odd(u1, "zeroed") ELSE u1,
                        m.blk, run, Data) IN
    With(ocfs2_mark_extent_written(u2, v \div bpc, (v + run - 1) \div bpc - v \div bpc + 1,
                                   m.blk \div bpc), LAMBDA u3 :
    LET u4 == IF Going(u3) THEN [u3 EXCEPT !.di = u3.d.ino] ELSE u3 IN
        IF wanted = 0 \/ ~Going(s) THEN s
        ELSE IF m.n < 0 THEN Fail(s, "corrupt")
        ELSE IF m.blk = 0
        THEN IF ~Going(h3) THEN h3
             ELSE IF ~found THEN Fail(h3, "internal")
             ELSE BlockWrite(h3, v + cnt, wanted - cnt, how)
        ELSE IF m.unw THEN BlockWrite(u4, v + run, wanted - run, how)
        ELSE BlockWrite(PutBlocks(s, m.blk, run, Data), v + run, wanted - run, how)))))))))))
ocfs2_file_write(s, v, count, how) ==
    LET num == s.di.size
    IN  IF v >= num THEN s
        ELSE BlockWrite(s, v, IF v + count > num THEN num - v ELSE count, how)

---------------------------------------------------------------------------
(* Allocating, extending, truncating.                                      *)

\* ocfs2_allocate_unwritten_extents: no space ends the loop, not the call
\* (the inode in memory then is the one on the device).
RECURSIVE AllocateFrom(_, _, _, _)
AllocateFrom(s, v, end, how) ==
    With(ocfs2_extent_map_get_blocks(s, v), LAMBDA m :
    LET wanted == IF m.n < end - v + 1 THEN m.n ELSE end - v + 1 IN
    With(ocfs2_new_clusters(s, (wanted + bpc - 1) \div bpc, how), LAMBDA a :
    LET s1 == GiveBack(ocfs2_cached_inode_insert_extent(a.s,
                  [Rec0 EXCEPT !.cpos = v \div bpc, !.blk = a.at, !.len = a.n, !.unw = TRUE]),
                  a.at, a.n) IN
        IF v > end \/ ~Going(s) THEN s
        ELSE IF m.blk # 0 THEN AllocateFrom(s, v + m.n, end, how)
        ELSE IF ~Going(a.s) THEN a.s
        ELSE AllocateFrom(ocfs2_write_inode(s1), (v \div bpc + a.n) * bpc, end, how)))
ocfs2_allocate_unwritten_extents(s, v, len, how) ==
    With(AllocateFrom(s, v, v + len - 1, how), LAMBDA s1 :
        IF s1.err \in {"", "nospace"} /\ s1.di = s1.d.ino /\ s1.di.size <= v + len
        THEN ocfs2_write_inode([s1 EXCEPT !.err = "", !.di.size = v + len]) ELSE s1)

\* ocfs2_extend_allocation: each insert reads the inode and writes it.
RECURSIVE ExtendFrom(_, _, _, _)
ExtendFrom(s, cpos, n, how) ==
    With(ocfs2_new_clusters(s, n, how), LAMBDA a :
    LET s1 == GiveBack(ocfs2_cached_inode_insert_extent([a.s EXCEPT !.di = s.d.ino],
                  [Rec0 EXCEPT !.cpos = cpos, !.blk = a.at, !.len = a.n]), a.at, a.n) IN
        IF n = 0 \/ ~Going(s) THEN s
        ELSE IF ~Going(a.s) THEN a.s
        ELSE ExtendFrom(ocfs2_write_inode(s1), cpos + a.n, n - a.n, how))
ocfs2_extend_allocation(s, n, how) == ExtendFrom(s, (s.di.size + bpc - 1) \div bpc, n, how)

ocfs2_zero_tail_for_truncate(s, size) ==
    With(ocfs2_extent_map_get_blocks(s, size), LAMBDA m :
        IF size = 0 \/ ~Going(s) THEN s
        ELSE IF m.n < 0 THEN Fail(s, "corrupt")
        ELSE IF m.blk = 0 THEN s
        ELSE empty_blocks(s, m.blk, bpc - (m.blk % bpc)))

ocfs2_truncate(s, size) ==
    With(TruncateTree(s, (size + bpc - 1) \div bpc), LAMBDA x :
    With(ocfs2_zero_tail_for_truncate(x.s, size), LAMBDA s1 :
    With(s.di.clusters - x.freed, LAMBDA left :
        IF s.di.size = size THEN s
        ELSE IF s.di.size < size THEN ocfs2_write_inode([s EXCEPT !.di.size = size])
        ELSE IF ~Going(s1) THEN s1
        ELSE ocfs2_write_inode([s1 EXCEPT !.di.clusters = left, !.di.size = size,
                                          !.di.depth = IF left = 0 THEN 0 ELSE s1.di.depth]))))

---------------------------------------------------------------------------
(* The callers that keep a system file without holes.                      *)

ocfs2_make_journal(s, clusters, how) ==
    With(IF clusters > s.di.clusters
         THEN LET x == ocfs2_extend_allocation(s, clusters - s.di.clusters, how)
              IN  ocfs2_write_inode([x EXCEPT !.di = x.d.ino,
                                              !.di.size = x.d.ino.clusters * bpc])
         ELSE IF clusters < s.di.clusters THEN ocfs2_truncate(s, clusters * bpc)
         ELSE s, LAMBDA s1 :
        IF Going(s1) THEN ocfs2_file_write([s1 EXCEPT !.di = s1.d.ino], 0, s1.d.ino.size, how)
        ELSE s1)
ocfs2_expand_dir(s, how) ==
    With(IF s.di.size >= s.di.clusters * bpc THEN ocfs2_extend_allocation(s, 1, how) ELSE s, LAMBDA s1 :
    With([s1 EXCEPT !.di = s1.d.ino], LAMBDA s2 :
    With(ocfs2_extent_map_get_blocks(s2, s.di.size), LAMBDA m :
    LET s3 == PutBlocks(s2, m.blk, 1, LAMBDA i : Tag(s.di.size)) IN
        IF ~Going(s1) THEN s1
        ELSE IF m.n < 0 THEN Fail(s2, "corrupt")
        ELSE ocfs2_write_inode([s3 EXCEPT !.di.size = s.di.size + 1]))))

---------------------------------------------------------------------------
\* The leaves of the tree from left to right, as lists of records.
RECURSIVE LeavesOf(_, _)
LeavesOf(d, el) ==
    IF el.depth = 0 THEN <<el>>
    ELSE LET RECURSIVE From(_)
             From(k) == IF k > Len(el.recs) THEN <<>> ELSE LeavesOf(d, d.eb[el.recs[k].blk]) \o From(k + 1)
         IN  From(1)
RECURSIVE RecsOf(_)
RecsOf(leaves) == IF leaves = <<>> THEN <<>>
                  ELSE SelectSeq(Head(leaves).recs, LAMBDA r : r.len # 0) \o RecsOf(Tail(leaves))

\* A truncation to a size below which no extent begins leaves a file of some
\* size whose tree has a depth and no record.
Emptied(size) ==
    /\ size \in 1..(dev.ino.size - 1) /\ dev.ino.depth > 0
    /\ \A k \in DOMAIN RecsOf(LeavesOf(dev, dev.ino)) :
           RecsOf(LeavesOf(dev, dev.ino))[k].cpos * bpc >= size

\* An extension of a journal that an earlier one, which ran out of space,
\* left with more clusters than its size says.
Behind(size) == dev.ino.size < dev.ino.clusters * bpc /\ dev.ino.clusters * bpc <= size

\* What is asked for that the code gets wrong.
Amiss(what, n) ==
    {c \in {"emptied", "behind"} :
        \/ c = "emptied" /\ what = "truncate" /\ Emptied(n)
        \/ c = "behind" /\ what = "journal" /\ Behind(n)}

Init ==
    /\ kind \in {"file", "journal", "directory"}
    /\ \E v \in Volumes : bpc = v.bpc /\ others = [eb |-> v.eb, clu |-> v.clu]
    /\ dev = [eb |-> [b \in Blocks |-> Node0], used |-> others.eb, ino |-> Dinode0,
              clu |-> others.clu, data |-> [b \in PBlocks |-> Garbage]]
    /\ shown = ocfs2_file_read(dev)
    /\ calls = 0 /\ op = NoCall /\ err = "" /\ odd = {} /\ torn = NotTorn

\* No call went wrong so far (working in place is only less safe).
Sane == odd \subseteq {"in_place"}

\* A call runs to its end, or a crash cuts its writes off.
Call(what, at, n, s) ==
    /\ torn = NotTorn /\ Sane /\ calls < MaxCalls
    /\ calls' = calls + 1 /\ odd' = s.odd \cup Amiss(what, n) /\ op' = [what |-> what, at |-> at, n |-> n]
    /\ \/ /\ dev' = s.d /\ err' = s.err
          /\ UNCHANGED torn
       \/ /\ MayCrash
          /\ \E k \in 1..(Len(s.log) - 1) : dev' = s.log[k]
          /\ torn' = [cut |-> TRUE, old |-> shown, new |-> ocfs2_file_read(s.d)]
          /\ UNCHANGED err
    /\ shown' = ocfs2_file_read(dev')
    /\ UNCHANGED <<others, kind, bpc>>

Hows == {"low", "high"}
AllocateUnwritten ==
    /\ kind = "file"
    /\ \E v \in 0..(NBlocks - 1), how \in Hows : \E len \in 1..(NBlocks - v) :
        Call("allocate", v, len, ocfs2_allocate_unwritten_extents(Begin, v, len, how))
Write ==
    /\ kind = "file"
    /\ \E v \in 0..(dev.ino.size - 1), how \in Hows : \E n \in 1..(dev.ino.size - v) :
        Call("write", v, n, ocfs2_file_write(Begin, v, n, how))
Truncate ==
    /\ kind = "file"
    /\ \E size \in 0..NBlocks : Call("truncate", 0, size, ocfs2_truncate(Begin, size))
MakeJournal ==
    /\ kind = "journal"
    /\ \E n \in 1..(NBlocks \div bpc), how \in Hows : Call("journal", 0, n * bpc, ocfs2_make_journal(Begin, n, how))
ExpandDir ==
    /\ kind = "directory" /\ dev.ino.size < NBlocks
    /\ \E how \in Hows : Call("expand", dev.ino.size, 1, ocfs2_expand_dir(Begin, how))

\* The other files are removed, and what they held is free again.
OthersGo ==
    /\ torn = NotTorn /\ Sane /\ calls < MaxCalls /\ others # Nobody
    /\ others' = Nobody
    /\ dev' = [dev EXCEPT !.used = dev.used \ others.eb, !.clu = dev.clu \ others.clu]
    /\ calls' = calls + 1 /\ op' = [NoCall EXCEPT !.what = "others"] /\ err' = ""
    /\ UNCHANGED <<kind, bpc, shown, odd, torn>>

Next == AllocateUnwritten \/ Write \/ Truncate \/ MakeJournal \/ ExpandDir \/ OthersGo
Spec == Init /\ [][Next]_vars

---------------------------------------------------------------------------
RECURSIVE NodesOf(_, _)
NodesOf(d, el) ==
    IF el.depth = 0 THEN {}
    ELSE {el.recs[k].blk : k \in DOMAIN el.recs}
         \cup UNION {NodesOf(d, d.eb[el.recs[k].blk]) : k \in DOMAIN el.recs}

\* Every record of an interior list spans what is below it.
RECURSIVE Spans(_, _)
Spans(d, el) ==
    \A k \in DOMAIN el.recs :
        \/ el.depth = 0
        \/ LET n == d.eb[el.recs[k].blk]
               full == SelectSeq(n.recs, LAMBDA r : r.len # 0)
           IN  /\ n.blk = el.recs[k].blk /\ n.depth = el.depth - 1
               /\ full # <<>>
               /\ el.recs[k].cpos <= full[1].cpos
               /\ EndOf(LastOf(full)) <= EndOf(el.recs[k])
               /\ k < Len(el.recs) => EndOf(el.recs[k]) <= el.recs[k + 1].cpos
               /\ Spans(d, n)
\* The extents of the file in order, none overlapping another, the leaves
\* chained in that order and the inode naming the last one.
IsTree(d) ==
    LET ino == d.ino IN
    With(LeavesOf(d, ino), LAMBDA leaves :
    With(RecsOf(leaves), LAMBDA recs :
        /\ Spans(d, ino)
        /\ \A k \in 1..(Len(recs) - 1) : EndOf(recs[k]) <= recs[k + 1].cpos
        /\ ino.depth > 0 =>
            /\ ino.last = LastOf(leaves).blk
            /\ \A k \in 1..(Len(leaves) - 1) : leaves[k].next = leaves[k + 1].blk
        /\ ino.depth = 0 => ino.last = 0))
InUse(recs) == UNION {recs[k].blk..(recs[k].blk + recs[k].len - 1) : k \in DOMAIN recs}

\* No call was cut off, none was asked for what Amiss lists and none passed
\* the places that are marked in BlockWrite and in ExtentTree.
Whole == torn = NotTorn /\ Sane

\* Whatever inserts, splits, merges, rotations and truncations a file went
\* through, and wherever the volume ran out of clusters or of extent blocks,
\* extend_file.c and truncate.c leave a tree that __ocfs2_find_path() can
\* descend: records in order, spans of the parents, leaf chain and
\* i_last_eb_blk agree.  (A journal left with i_size behind i_clusters for want
\* of space is extended from i_size, over its own extents: Behind.)
TreeSound == Whole => IsTree(dev)

\* The two bitmaps say exactly what the tree holds after every call, failed
\* ones included: the clusters of the extents, the extent blocks of the
\* tree (the duplicates of ocfs2_duplicate_extent_block_dinode() and the
\* blocks they replace are each freed once), and i_clusters.
Accounted ==
    Whole =>
        LET recs == RecsOf(LeavesOf(dev, dev.ino))
            nodes == NodesOf(dev, dev.ino)
        IN  /\ dev.clu = others.clu \cup InUse(recs) /\ others.clu \cap InUse(recs) = {}
            /\ dev.ino.clusters = Cardinality(InUse(recs))
            /\ dev.used = others.eb \cup nodes /\ others.eb \cap nodes = {}

\* The only error a call returns is a full volume, whatever calls came
\* before it, but for two requests.  A truncation that leaves a file with
\* extent blocks a size and no extent always fails in
\* ocfs2_zero_tail_for_truncate(), which looks its end up in the tree just
\* emptied (truncate.c:213), and a write into the middle of an unwritten
\* extent always overruns a last leaf with one free place, since the second
\* round of ocfs2_split_and_insert() looks at the leaf of before the first.
\* No other call finds a block corrupt or fails an assertion.
NoAlarm ==
    torn = NotTorn /\ "behind" \notin odd =>
        /\ err = "corrupt" <=> "emptied" \in odd
        /\ err = "assert" <=> "one_place" \in odd
        /\ err \in {"", "nospace", "corrupt", "assert"}

\* Seen through ocfs2_file_read(), every call is a step of PlainFile: a
\* write changes the blocks it names and no other, a new size neither
\* loses nor invents data, unwritten extents and holes read as zero.
Plain == INSTANCE PlainFile WITH Max <- NBlocks, blocks <- shown
Implements == Plain!Init /\ [][Whole' => Plain!Next]_vars

\* A crash in the middle of an allocation or of a write leaves a sound tree
\* and blocks that are each the old or the new ones: the calls work on a
\* duplicate of the tree and write the inode last (extend_file.c:3383).
\* When no blocks are left for a duplicate they work in place.
TornKeepsFile ==
    torn.cut /\ op.what \in {"allocate", "write"} /\ odd = {} =>
        /\ IsTree(dev)
        /\ \A v \in DOMAIN shown :
            \/ v \in DOMAIN torn.old /\ shown[v] = torn.old[v]
            \/ v \in DOMAIN torn.new /\ shown[v] = torn.new[v]

\* What the comment on __ocfs2_mark_extent_written() says: it "removes the
\* unwritten extent flag", so a write that succeeds can be read back.
WrittenIsRead ==
    [][op'.what = "write" /\ torn' = NotTorn /\ err' = "" => Plain!Write(op'.at, op'.n)]_vars
===========================================================================
