------------------------------ MODULE MCTunefs ------------------------------
(***************************************************************************)
(* Small volumes and command lines for Tunefs.                             *)
(***************************************************************************)
EXTENDS Tunefs

\* One operation of a command line.
Op(name, arg) == [name |-> name, arg |-> arg]
Features(off_, on_) == [name |-> "features", off |-> off_, on |-> on_]

Rec(head, total, free) == [head |-> head, total |-> total, free |-> free]
Desc(bits, used, chain, next) == [bits |-> bits, used |-> used, chain |-> chain, next |-> next]

\* The superblock of a volume.
Super(feat, slots, clusters) ==
    [feat |-> feat, mark |-> {}, slots |-> slots, clusters |-> clusters, uuid |-> "u1",
     label |-> "l1", stack |-> "classic"]

\* Fourteen clusters in two groups, or seven in one small group, with those in use.
Wide(used) ==
    LET first == {c \in used : c < 8}
        second == used \ first
    IN [bm |-> [clusters |-> 14, cpg |-> 8, total |-> 14, used |-> Cardinality(used),
                recs |-> <<Rec(1, 8, 8 - Cardinality(first)),
                           Rec(2, 6, 6 - Cardinality(second))>>],
        gd |-> <<Desc(8, first, 1, 0), Desc(6, second, 2, 0), NoGroup, NoGroup>>]
Narrow(used) ==
    [bm |-> [clusters |-> 7, cpg |-> 7, total |-> 7, used |-> Cardinality(used),
             recs |-> <<Rec(1, 7, 7 - Cardinality(used))>>],
     gd |-> <<Desc(7, used, 1, 0), NoGroup, NoGroup, NoGroup>>]

Alloc(heads) ==
    LET n == Len(heads)
        size == [i \in 1 .. n |-> heads[i][2]]
        sum == MapThenSumSet(LAMBDA i : size[i], 1 .. n)
    IN [recs |-> [i \in 1 .. n |-> Rec(heads[i][1], SubBits * size[i], SubFree * size[i])],
        total |-> SubBits * sum, used |-> (SubBits - SubFree) * sum]

Grp(slot, chain, next) == [parent |-> slot, owner |-> slot, chain |-> chain, next |-> next]

\* The clusters of the journal of a slot, and of its orphan directory, if that is not in
\* its inode.
JournalAt(s, len) == IF len = 1 THEN <<4 + s>> ELSE <<4 + s, 9 + s>>
OrphansAt(s, feat) == IF "inline" \in feat THEN <<>> ELSE <<2 + s>>

Journal(ext) == [ext |-> ext, clusters |-> Len(ext), size |-> Len(ext), super |-> Len(ext)]

\* The last slot has two chains of inode groups, one of them of two groups; slot 0 has
\* a group in each of its chains.
Slots(feat, n, len) ==
    [sysdir |-> [s \in Slot |-> IF s < n THEN SlotFile ELSE {}],
     orphans |-> [s \in Slot |-> IF s < n THEN [ready |-> TRUE, ext |-> OrphansAt(s, feat)]
                                 ELSE NoOrphanDir],
     journal |-> [s \in Slot |-> IF s < n THEN Journal(JournalAt(s, len)) ELSE NoJournal],
     pending |-> [s \in Slot |-> {}],
     alloc |-> [k \in AllocKind |-> [s \in Slot |->
                  IF k = "inode_alloc" /\ s = n - 1 THEN Alloc(<<<<1, 2>>, <<3, 1>>>>)
                  ELSE IF k = "extent_alloc" /\ s = n - 1 THEN Alloc(<<<<4, 1>>>>)
                  ELSE IF k = "inode_alloc" /\ s = 0 THEN Alloc(<<<<5, 1>>>>)
                  ELSE EmptyAlloc]],
     group |-> <<Grp(n - 1, 1, 2), Grp(n - 1, 1, 0), Grp(n - 1, 2, 0), Grp(n - 1, 1, 0),
                 Grp(0, 1, 0)>>]

Data(feat) ==
    [file |-> [f \in File |->
                [inline |-> f = 1 /\ "inline" \in feat,
                 hole |-> f = 2 /\ "sparse" \in feat, tail |-> f = 2, unwritten |-> f = 2 /\ "unwritten" \in feat,
                 ibody |-> f = 1 /\ "xattr" \in feat, xloc |-> f = 2 /\ "xattr" \in feat,
                 xblock |-> f = 2 /\ "xattr" \in feat]],
     dir |-> [d \in Dir |->
                [size |-> 2,
                 blocks |-> IF d = 3 THEN <<DirBlock({"a"}, {"b"}, FALSE), DirBlock({"c"}, {"d"}, FALSE)>>
                            ELSE <<DirBlock({"a", "b"}, {}, FALSE), DirBlock({"c", "d"}, {}, FALSE)>>]],
     ecc |-> {}]

\* In use are the two system clusters, those of the slots, of the backup superblocks and,
\* so that the free ones are not all in a row, some of the files.
Vol(feat, n, len, wide) ==
    LET bs == IF "backup_super" \in feat THEN BackupOffsets(14) ELSE {}
        sl == Slots(feat, n, len)
        slots == UNION {SeqSet(sl.journal[s].ext) \cup SeqSet(sl.orphans[s].ext) : s \in Slot}
        bits == IF wide THEN Wide({0, 1, 7, 8, 12} \cup slots \cup bs)
                ELSE Narrow({0, 1} \cup slots)
        sb == Super(feat, n, bits.bm.clusters)
        da == Data(feat)
    IN [super |-> sb, smap |-> FormattedSlotMap(sb), bm |-> bits.bm, gd |-> bits.gd,
        backup |-> [b \in BackupAt |-> IF b \in bs THEN BackupCopy(sb) ELSE NoCopy],
        sysdir |-> sl.sysdir, orphans |-> sl.orphans, journal |-> sl.journal,
        pending |-> sl.pending, alloc |-> sl.alloc, group |-> sl.group,
        file |-> da.file, dir |-> da.dir, ecc |-> da.ecc]

\* A volume as old tools made it, one with every feature, one of
\* a node on its own, one with an orphan in its last slot, and one of a userspace stack.
OldVolume == Vol({}, 2, 1, TRUE)
NewVolume == Vol({"extended_slotmap", "backup_super", "sparse", "unwritten", "inline", "xattr"},
                 3, 1, TRUE)
LocalVolume == Vol({"local", "sparse"}, 2, 1, FALSE)
BusyVolume == [OldVolume EXCEPT !.pending[1] = {"orphan_dir"}]
UserVolume == LET v == Vol({"extended_slotmap", "userspace_stack"}, 2, 1, FALSE) IN
              [v EXCEPT !.super.stack = "pcmk"]

MCVolume == {OldVolume, NewVolume, LocalVolume, BusyVolume, UserVolume}

Line ==
    {<<Op("slots", 3), Op("resize", 15)>>, <<Op("slots", 1)>>, <<Op("slots", 2)>>,
     <<Op("slots", 4)>>,
     <<Op("journals", 2), Op("label", "l2")>>, <<Op("uuid", "u2"), Op("label", "l2")>>,
     <<Op("cloned", "u3"), Op("slots", 1)>>, <<Op("stack", "none"), Op("journals", 2)>>,
     <<Op("uuid", "u2"), Op("mount", "local"), Op("resize", 15)>>,
     <<Op("backup_super", "none"), Op("resize", 0)>>,
     <<Features({}, {"unwritten", "inline", "xattr", "extended_slotmap"})>>,
     <<Features({"sparse", "inline", "xattr", "backup_super", "extended_slotmap"}, {}),
       Op("mount", "cluster")>>,
     <<Op("mount", "local"), Features({"local"}, {})>>,
     <<Op("mount", "local")>>}

\* Some of them are run once more, after whatever became of the first run; others are
\* followed by one that undoes it, or builds on it.
Repeated ==
    {l \in Line : \/ l[1].name \in {"uuid", "stack"}
                  \/ l[1].name = "slots" /\ l[1].arg \in {3, 4}}
Sequel ==
    {<<<<Op("slots", 1)>>, <<Op("slots", 2)>>>>,
     <<<<Op("journals", 2)>>, <<Op("journals", 1)>>>>,
     <<<<Op("journals", 2)>>, <<Op("slots", 3)>>>>,
     <<<<Features({}, {"metaecc"})>>, <<Features({"metaecc", "inline"}, {})>>>>}
MCSession == {IF l \in Repeated THEN <<l, l>> ELSE <<l>> : l \in Line} \cup Sequel
====
