---------------------------- MODULE FsckVolume ----------------------------
(***************************************************************************)
(* A small OCFS2 volume, and the libocfs2 operations through which         *)
(* fsck.ocfs2 and fswreck change it.                                       *)
(*                                                                         *)
(* A cluster holds one block, so that sizes and cluster positions are in   *)
(* the same unit.  An inode is known by its number; block numbers order    *)
(* all the inodes before all the clusters.  The state the operations       *)
(* change is a record S of two parts: S.d, what is on the device, and      *)
(* S.m, what the program keeps in memory, of which S.m.lib is the          *)
(* library's own: the allocators it has loaded.                            *)
(***************************************************************************)
EXTENDS Integers, Sequences, FiniteSets, SequencesExt

CONSTANTS
    NSys,     \* inodes 1..NSys belong to the global inode allocator
    NI,       \* inodes NSys+1..NI to the inode allocator of slot 0
    NC,       \* clusters; cluster 0 holds the super block
    NE,       \* extent blocks
    RootRecs, \* extent records that fit in an inode
    EbRecs,   \* extent records that fit in an extent block
    DirMax    \* directory entries that fit in a directory block

ASSUME VolumeAssumption ==
    /\ {NSys, NI, NC, NE, RootRecs, EbRecs, DirMax} \subseteq Nat
    /\ NSys < NI /\ 1 < NC /\ 2 < DirMax /\ 0 < RootRecs /\ 0 < EbRecs

Inodes == 1 .. NI
SysInodes == 1 .. NSys
SlotInodes == NSys + 1 .. NI
Clusters == 1 .. NC - 1

\* The allocator of an inode is one of two; the library loads each of them,
\* and the global bitmap, at its first use, and keeps it.
AllocOf(i) == IF i \in SysInodes THEN "sys" ELSE "slot"
NotLoaded == {-1}
NoLib == [sys |-> NotLoaded, slot |-> NotLoaded, clus |-> NotLoaded]

NoRec == [cpos |-> 0, len |-> 0, start |-> 0, al |-> TRUE]
NoData == [ents |-> <<>>, tag |-> <<0, 0>>, str |-> 0]
Recs(n) == [k \in 1 .. n |-> NoRec]

\* A directory entry: name, inode, type and the state of its lengths.  Inline
\* data holds one entry less than a block.
NoEnt == [n |-> <<"", 0>>, i |-> 0, t |-> "unk", len |-> "ok"]
Ent(n, i, t) == [NoEnt EXCEPT !.n = n, !.i = i, !.t = t]
Dot == <<".", 0>>
DotDot == <<"..", 0>>

\* A free inode block, and the inode that ocfs2_init_inode writes.
FreeInode ==
    [sig |-> FALSE, gen |-> TRUE, valid |-> FALSE, bno |-> TRUE, dt |-> FALSE,
     mode |-> "none", links |-> 0, orph |-> FALSE, sys |-> FALSE, kind |-> "ext",
     size |-> 0, clusters |-> 0, depth |-> 0, count |-> RootRecs, nfree |-> 0,
     recs |-> Recs(RootRecs), ents |-> <<>>, icnt |-> TRUE, slot |-> TRUE]

ocfs2_init_inode(d, mode, sys) ==
    [FreeInode EXCEPT !.sig = TRUE, !.valid = TRUE, !.mode = mode, !.sys = sys,
        !.links = IF mode = "dir" THEN 2 ELSE 1,
        !.kind = IF mode = "dir" /\ d.inl THEN "inl" ELSE "ext"]

NoEb == [sig |-> FALSE, gen |-> TRUE, bno |-> TRUE, depth |-> 0,
         count |-> EbRecs, nfree |-> 0, recs |-> Recs(EbRecs)]

\* F(x), with x computed once: LET for a value that is used many times.
With(x, F(_)) == F(x)

\* The elements of a sequence applied to a state one after the other.
InTurn(Op(_, _), S, seq) ==
    LET RECURSIVE From(_, _)
        From(s, k) == IF k > Len(seq) THEN s ELSE From(Op(s, seq[k]), k + 1)
    IN  From(S, 1)

---------------------------------------------------------------------------
(* Writing, reading and walking the tree of an inode.                      *)

ocfs2_write_inode(S, i, di) == [S EXCEPT !.d.ino[i] = di]
ocfs2_read_inode_ok(d, i) == i \in Inodes /\ d.ino[i].sig

\* The leaf records in the order ocfs2_extent_iterate_inode meets them.  The
\* block of a record that points to an extent block is the block's number.
EbLeaves(d, e) == IF e = 0 THEN <<>> ELSE SubSeq(d.ebs[e].recs, 1, d.ebs[e].nfree)
ocfs2_extent_iterate(d, di) ==
    IF di.kind # "ext" THEN <<>>
    ELSE IF di.depth = 0 THEN SubSeq(di.recs, 1, di.nfree)
    ELSE FlattenSeq([k \in 1 .. di.nfree |-> EbLeaves(d, di.recs[k].start)])

\* The iteration fails at an extent block that is not where and what it says.
ExtentsReadable(d, di) ==
    di.kind = "ext" /\ di.depth > 0 =>
        \A k \in 1 .. di.nfree :
            LET e == di.recs[k].start IN
            \/ e = 0
            \/ /\ e \in 1 .. NE
               /\ d.ebs[e].sig /\ d.ebs[e].bno
               /\ d.ebs[e].nfree <= d.ebs[e].count
               /\ d.ebs[e].depth = di.depth - 1

\* The blocks in the order ocfs2_block_iterate_inode hands them out, as pairs
\* of logical and physical block.
ocfs2_block_iterate(d, di) ==
    FlattenSeq([k \in 1 .. Len(ocfs2_extent_iterate(d, di)) |->
        LET r == ocfs2_extent_iterate(d, di)[k]
        IN  [j \in 1 .. r.len |-> <<r.cpos + j - 1, r.start + j - 1>>]])

ClustersOf(d, di) == {p[2] : p \in ToSet(ocfs2_block_iterate(d, di))}

---------------------------------------------------------------------------
(* The allocators.                                                         *)

OnDisk(d, a) == IF a = "clus" THEN d.bits
                ELSE d.ibits \cap (IF a = "sys" THEN SysInodes ELSE SlotInodes)

\* ocfs2_load_allocator reads an allocator only when it is not loaded yet.
ocfs2_load_allocator(S, a) ==
    IF S.m.lib[a] = NotLoaded THEN [S EXCEPT !.m.lib[a] = OnDisk(S.d, a)] ELSE S

\* ocfs2_write_chain_allocator writes the dirty group: the loaded bits replace
\* those on disk.
ocfs2_write_chain_allocator(S, a) ==
    LET b == S.m.lib[a] IN
    IF a = "clus" THEN [S EXCEPT !.d.bits = b]
    ELSE [S EXCEPT !.d.ibits = b \cup
             (@ \ (IF a = "sys" THEN SysInodes ELSE SlotInodes))]

\* Both load the allocator, change it and write it; the range forms that the
\* clusters use do the same.
ocfs2_chain_alloc_with_io(S, a, bits) ==
    LET S1 == ocfs2_load_allocator(S, a) IN
    ocfs2_write_chain_allocator([S1 EXCEPT !.m.lib[a] = @ \cup bits], a)
ocfs2_chain_free_with_io(S, a, bits) ==
    LET S1 == ocfs2_load_allocator(S, a) IN
    ocfs2_write_chain_allocator([S1 EXCEPT !.m.lib[a] = @ \ bits], a)

\* alloc_range_func: the first run of clear bits that holds all that is
\* wanted, or else the first of the longest runs.
alloc_range_func(free, want) ==
    LET End(s) == CHOOSE e \in s + 1 .. NC :
                      e \notin free /\ \A k \in s .. e - 1 : k \in free
        Starts == {s \in free : s - 1 \notin free} IN
    With({s \in Starts : \A u \in Starts : End(u) - u <= End(s) - s}, LAMBDA Longest :
    LET Enough == {s \in Starts : End(s) - s >= want}
        First(X) == CHOOSE s \in X : \A u \in X : s <= u IN
        IF Starts = {} THEN {}
        ELSE IF Enough # {} THEN First(Enough) .. First(Enough) + want - 1
        ELSE First(Longest) .. End(First(Longest)) - 1)

ocfs2_new_clusters(S, want) ==
    LET S1 == ocfs2_load_allocator(S, "clus") IN
    With(alloc_range_func(Clusters \ S1.m.lib.clus, want), LAMBDA got :
        [s |-> IF got = {} THEN S1
               ELSE ocfs2_chain_alloc_with_io(S1, "clus", got),
         got |-> got])

ocfs2_free_clusters(S, cs) == ocfs2_chain_free_with_io(S, "clus", cs)

ocfs2_test_inode_allocated(S, i) ==
    LET S1 == ocfs2_load_allocator(S, "sys") IN
    With(IF i \in SysInodes THEN S1 ELSE ocfs2_load_allocator(S1, "slot"), LAMBDA S2 :
        [s |-> S2, v |-> i \in S2.m.lib[AllocOf(i)]])

\* ocfs2_new_inode and ocfs2_new_system_inode take the lowest clear bit of
\* their allocator and write the new inode; an allocator that is full (its
\* next group is not modelled) fails with ino = 0.
NewInode(S, a, mode) ==
    LET S1 == ocfs2_load_allocator(S, a) IN
    With((IF a = "sys" THEN SysInodes ELSE SlotInodes) \ S1.m.lib[a], LAMBDA free :
    With(CHOOSE n \in free : \A k \in free : n <= k, LAMBDA i :
        IF free = {} THEN [s |-> S1, ino |-> 0]
        ELSE [s |-> ocfs2_write_inode(ocfs2_chain_alloc_with_io(S1, a, {i}),
                                      i, ocfs2_init_inode(S.d, mode, a = "sys")),
              ino |-> i]))
ocfs2_new_inode(S, mode) == NewInode(S, "slot", mode)
ocfs2_new_system_inode(S, mode) == NewInode(S, "sys", mode)

\* The bit is freed first, then the inode is written without its valid flag.
ocfs2_delete_inode(S, i) ==
    [ocfs2_chain_free_with_io(S, AllocOf(i), {i}) EXCEPT !.d.ino[i].valid = FALSE]

---------------------------------------------------------------------------
(* Extending and truncating a file.                                        *)

\* ocfs2_insert_extent at the end of a file whose records are in the inode:
\* the new clusters extend the last record when they follow it.
InsertLast(di, cpos, got) ==
    LET s == CHOOSE c \in got : \A k \in got : c <= k
        last == di.recs[di.nfree]
        n == Cardinality(got)
    IN  IF di.nfree > 0 /\ last.cpos + last.len = cpos /\ last.start + last.len = s
        THEN [di EXCEPT !.recs[di.nfree].len = @ + n, !.clusters = @ + n]
        ELSE [di EXCEPT !.nfree = @ + 1, !.clusters = @ + n,
                 !.recs[di.nfree + 1] =
                     [cpos |-> cpos, len |-> n, start |-> s, al |-> TRUE]]

\* ocfs2_extend_allocation: as many rounds as the free runs make necessary; it
\* starts at the size of the file, and stops when there is no space.
RECURSIVE ExtendFrom(_, _, _, _)
ExtendFrom(S, i, cpos, want) ==
    IF want = 0 THEN [s |-> S, ok |-> TRUE]
    ELSE LET r == ocfs2_new_clusters(S, want)
             di == r.s.d.ino[i]
         IN  IF r.got = {} THEN [s |-> r.s, ok |-> FALSE]
             ELSE IF di.nfree = RootRecs
             THEN [s |-> ocfs2_free_clusters(r.s, r.got), ok |-> FALSE]
             ELSE ExtendFrom(ocfs2_write_inode(r.s, i, InsertLast(di, cpos, r.got)),
                             i, cpos + Cardinality(r.got), want - Cardinality(r.got))
ocfs2_extend_allocation(S, i, want) == ExtendFrom(S, i, S.d.ino[i].size, want)

\* The allocated leaf records in the order truncate_iterate frees them.
LeafRuns(d, di) ==
    SelectSeq(ocfs2_extent_iterate(d, di), LAMBDA r : r.start # 0)
RunOf(r) == r.start .. r.start + r.len - 1

\* ocfs2_truncate_full to nothing, where S1 is S after the caller's function
\* freed the leaf runs one by one: the extent blocks are deleted and the list
\* is emptied; a file whose size is already 0 is left alone, and so is one
\* whose tree cannot be read.
ocfs2_truncate_full(S, i, S1) ==
    LET di == S.d.ino[i]
        freed == InTurn(LAMBDA n, r : n + r.len, 0, LeafRuns(S.d, di))
        ebs == IF di.kind = "ext" /\ di.depth > 0
               THEN {di.recs[k].start : k \in 1 .. di.nfree} \ {0} ELSE {} IN
    With(di.clusters - freed, LAMBDA left :
        IF di.size = 0 \/ ~ExtentsReadable(S.d, di) THEN S
        ELSE [S1 EXCEPT
                 !.d.ebs = [e \in 1 .. NE |-> IF e \in ebs THEN NoEb ELSE S.d.ebs[e]],
                 !.d.ino[i] = [di EXCEPT !.size = 0, !.clusters = left,
                     !.nfree = IF di.kind = "ext" THEN 0 ELSE @,
                     !.recs = IF di.kind = "ext" THEN Recs(RootRecs) ELSE @,
                     !.depth = IF left = 0 THEN 0 ELSE @]])
ocfs2_truncate(S, i) ==
    ocfs2_truncate_full(S, i, InTurn(LAMBDA s, r : ocfs2_free_clusters(s, RunOf(r)),
                                     S, LeafRuns(S.d, S.d.ino[i])))

---------------------------------------------------------------------------
(* Directories.                                                            *)

\* The blocks of a directory as pairs of a place and the entries there; the
\* place of inline entries is 0.
DirBlocks(d, i) ==
    LET di == d.ino[i] IN
    IF di.kind = "inl" THEN <<<<0, di.ents>>>>
    ELSE [k \in 1 .. Len(ocfs2_block_iterate(d, di)) |->
             LET c == ocfs2_block_iterate(d, di)[k][2]
             IN  <<c, IF c \in Clusters THEN d.data[c].ents ELSE <<>>>>]
PutBlock(S, i, c, ents) ==
    IF c = 0 THEN [S EXCEPT !.d.ino[i].ents = ents]
    ELSE [S EXCEPT !.d.data[c].ents = ents]

DirEnts(d, i) == FlattenSeq([k \in 1 .. Len(DirBlocks(d, i)) |-> DirBlocks(d, i)[k][2]])

\* ocfs2_lookup: the inode of the first entry in use with that name, or 0.
ocfs2_lookup(d, dir, name) ==
    With(SelectSeq(DirEnts(d, dir), LAMBDA e : e.n = name /\ e.i # 0), LAMBDA es :
        IF es = <<>> \/ d.ino[dir].mode # "dir" THEN 0 ELSE es[1].i)

\* ocfs2_expand_dir: an inline directory is moved to a cluster, another one
\* gets one more cluster if its blocks are used up, and an empty block.
ocfs2_expand_dir(S, dir) ==
    LET di == S.d.ino[dir] IN
    With(ocfs2_new_clusters(S, 1), LAMBDA r :
    With(CHOOSE x \in r.got : TRUE, LAMBDA c :
        IF di.mode # "dir" THEN [s |-> S, ok |-> FALSE]
        ELSE IF di.kind = "inl"
        THEN IF r.got = {} THEN [s |-> r.s, ok |-> FALSE]
             ELSE [s |-> [r.s EXCEPT
                       !.d.data[c].ents = di.ents, !.d.data[c].tag = <<dir, 0>>,
                       !.d.ino[dir] = InsertLast([di EXCEPT !.kind = "ext",
                                          !.ents = <<>>, !.size = 1], 0, r.got)],
                   ok |-> TRUE]
        ELSE With(IF di.size >= di.clusters
                  THEN ocfs2_extend_allocation(S, dir, 1) ELSE [s |-> S, ok |-> TRUE], LAMBDA x :
             LET at == SelectSeq(ocfs2_block_iterate(x.s.d, x.s.d.ino[dir]),
                                 LAMBDA p : p[1] = di.size)
             IN  IF ~x.ok \/ at = <<>> THEN [s |-> x.s, ok |-> FALSE]
                 ELSE [s |-> [x.s EXCEPT
                           !.d.data[at[1][2]].ents = <<>>,
                           !.d.data[at[1][2]].tag = <<dir, di.size>>,
                           !.d.ino[dir].size = @ + 1],
                       ok |-> TRUE])))

\* ocfs2_init_dir: "." and "..", and one more link for the parent.
ocfs2_init_dir(S, dir, parent) ==
    LET first == <<Ent(Dot, dir, "dir"), Ent(DotDot, parent, "dir")>> IN
    With(IF S.d.ino[dir].kind = "inl" THEN [s |-> S, ok |-> TRUE]
         ELSE ocfs2_expand_dir(S, dir), LAMBDA x :
        IF ~x.ok THEN x
        ELSE [s |-> [PutBlock(x.s, dir, DirBlocks(x.s.d, dir)[1][1], first) EXCEPT
                  !.d.ino[parent].links = @ + 1, !.d.ino[dir].size = 1],
              ok |-> TRUE])

\* link_proc: the first entry that is free, or the slack after the last one of
\* a block; 0 when every block is full.
link_proc(S, dir, e) ==
    With(DirBlocks(S.d, dir), LAMBDA bs :
    LET Cap(k) == IF bs[k][1] = 0 THEN DirMax - 1 ELSE DirMax
        Room(k) == Len(bs[k][2]) < Cap(k) \/ \E e0 \in ToSet(bs[k][2]) : e0.i = 0 IN
    With({k \in 1 .. Len(bs) : Room(k)}, LAMBDA fit :
    With(CHOOSE k \in fit : \A j \in fit : k <= j, LAMBDA k0 :
    With(bs[k0][2], LAMBDA b :
    With({k \in 1 .. Len(b) : b[k].i = 0}, LAMBDA hole :
        IF fit = {} THEN [s |-> S, ok |-> FALSE]
        ELSE [s |-> PutBlock(S, dir, bs[k0][1],
                  IF hole = {} THEN Append(b, e)
                  ELSE [b EXCEPT ![CHOOSE k \in hole : \A j \in hole : k <= j] = e]),
              ok |-> TRUE])))))

\* ocfs2_link adds the entry, after expanding the directory when it is full.
ocfs2_link(S, dir, name, i, type) ==
    With(link_proc(S, dir, Ent(name, i, type)), LAMBDA x :
    With(ocfs2_expand_dir(S, dir), LAMBDA y :
        IF x.ok \/ S.d.ino[dir].mode # "dir" THEN x
        ELSE IF ~y.ok THEN y ELSE link_proc(y.s, dir, Ent(name, i, type))))
===========================================================================
