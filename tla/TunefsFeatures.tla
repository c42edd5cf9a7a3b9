--------------------------- MODULE TunefsFeatures ---------------------------
(***************************************************************************)
(* tunefs.ocfs2 --fs-features: turning a feature on or off.  A feature     *)
(* that is turned off first has its traces removed from every inode; one   *)
(* that is turned on may first have to prepare the volume for it.  The     *)
(* superblock with the new feature set is written last.                    *)
(***************************************************************************)
EXTENDS TunefsVolume

CONSTANTS
    File,   \* the files, by number, in the order of the inode scan
    Dir,    \* the directories with blocks of their own, likewise
    Entry   \* the names in each of them

VARIABLES
    file,   \* what the inode of a file uses: see NoFile
    dir,    \* the blocks of a directory and how many of them i_size covers
    ecc     \* the metadata blocks that carry a valid checksum

dataVars == <<file, dir, ecc>>

\* inline: the data is in the inode; hole, tail, unwritten: the extents have a hole
\* before i_size, clusters past i_size, unwritten clusters before i_size; ibody, xloc:
\* attributes in the inode, and in a block i_xattr_loc names; xblock: that block is
\* allocated.
NoFile == [inline |-> FALSE, hole |-> FALSE, tail |-> FALSE, unwritten |-> FALSE,
           ibody |-> FALSE, xloc |-> FALSE, xblock |-> FALSE]

\* A directory block: the entries that end before the place of the trailer, those that
\* do not, and whether there is a trailer.
DirBlock(keep, move, trailer) == [keep |-> keep, move |-> move, trailer |-> trailer]

\* The metadata blocks: an inode is <<x, 0>>, a block of a directory <<d, i>>.  (The
\* allocators and their groups are written like them, from copies made last.)
Inode(x) == <<x, 0>>
BlocksOf(d) == {<<d, i>> : i \in DOMAIN dir[d].blocks}
MetaBlocks ==
    {Inode(x) : x \in File \cup Dir} \cup UNION {BlocksOf(d) : d \in Dir}

\* ocfs2_compute_meta_ecc, on every write of a metadata block: the checksum is right
\* only if the superblock in memory has the feature.
Written(b) == IF "metaecc" \in mem.feat THEN ecc \cup {b} ELSE ecc \ {b}

-----------------------------------------------------------------------------
(* The string after --fs-features.                                         *)

\* ocfs2_supported_features: what a feature needs, itself included.
FeatureDeps(f) == IF f = "unwritten" THEN {"sparse", "unwritten"} ELSE {f}

\* ocfs2_parse_feature: a feature asked for brings what it needs; one to be cleared
\* takes with it whatever needs it (ocfs2_feature_clear_deps).
FeatureSet(on) == UNION {FeatureDeps(f) : f \in on}

ReverseSet(off) == off \cup {f \in Feature : FeatureDeps(f) \cap off # {}}

Conflicting(on, off) == FeatureSet(on) \cap ReverseSet(off) # {}

\* The table, in its order.
Supported == <<"local", "sparse", "backup_super", "unwritten", "extended_slotmap",
               "inline", "metaecc", "xattr">>

\* ocfs2_feature_foreach: what is needed comes first; backwards for the features to
\* be cleared.
FeatureOrder(set) == SelectSeq(Supported, LAMBDA f : f \in set)

ReverseOrder(set) ==
    LET s == FeatureOrder(set) IN [i \in DOMAIN s |-> s[Len(s) + 1 - i]]

-----------------------------------------------------------------------------
(* Features that change the superblock alone, or that first visit inodes.  *)

\* The locals of a feature: the inodes or clusters still to visit, the features the
\* superblock will have, the directory at hand with its new block and the block to
\* write next, the sizes in the copies of the directories' inodes (e_buf), and the
\* global bitmap.
Visit(todo, feat) ==
    [todo |-> todo, feat |-> feat, dir |-> 0, new |-> 0, block |-> 0,
     size |-> [d \in Dir |-> dir[d].size], al |-> LoadAllocator]

\* The files whose data is in extents: what sparse and unwritten look at.
Extended == {f \in File : ~file[f].inline}

HasXattr(f) == file[f].ibody \/ file[f].xloc

Refuse == Return(1) /\ work' = NoWork /\ UNCHANGED <<super, mem>>

\* Enabled or disabled already, or the question was declined.
NothingToDo == Return(0) /\ work' = NoWork /\ UNCHANGED <<super, mem>>

SetFeatures(feat) == WriteSuper([mem EXCEPT !.feat = feat])

\* The inodes that the scan collected are visited one by one, and the superblock is
\* written when none is left.
VisitAll(step, todo, feat) ==
    /\ work' = Visit(todo, feat)
    /\ Continue(IF todo = {} THEN "feature_super" ELSE step)
    /\ UNCHANGED <<super, mem>>

\* The feature is in the superblock in memory before its other steps.
SetFirst(step, feat) ==
    /\ mem' = [mem EXCEPT !.feat = feat]
    /\ work' = Visit({}, feat)
    /\ Continue(step)
    /\ UNCHANGED super

\* check_backup_offsets: there are locations and none is in use.
CheckBackupOffsets ==
    LET offsets == BackupOffsets(mem.clusters) IN
      offsets # {} /\ \A b \in offsets : ~InUse(b)

\* find_holes_in_file: what disabling sparse has to change in a file.
FindHolesInFile(f) == file[f].hole \/ file[f].tail

SparseFiles == {f \in Extended : FindHolesInFile(f)}

UnwrittenFiles == {f \in Extended : file[f].unwritten}

InlineFiles == {f \in File : file[f].inline}

EnableInlineData == SetFeatures(mem.feat \cup {"inline"})
EnableXattr == SetFeatures(mem.feat \cup {"xattr"})
EnableLocal == SetFeatures((mem.feat \cup {"local"}) \ {"userspace_stack"})
EnableUnwrittenExtents ==
    IF "sparse" \in mem.feat THEN SetFeatures(mem.feat \cup {"unwritten"}) ELSE Refuse
EnableSparseFiles ==
    VisitAll("trim_tail", {f \in Extended : file[f].tail}, mem.feat \cup {"sparse"})
EnableExtendedSlotmap == SetFirst("feature_slot_map", mem.feat \cup {"extended_slotmap"})
EnableBackupSuper ==
    IF CheckBackupOffsets
    THEN VisitAll("fill_backup", BackupOffsets(mem.clusters), mem.feat \cup {"backup_super"})
    ELSE Refuse
EnableMetaecc == VisitAll("mark_trailers", Dir, mem.feat \cup {"metaecc"})

DisableMetaecc == SetFeatures(mem.feat \ {"metaecc"})
DisableInlineData == VisitAll("expand_inline", InlineFiles, mem.feat \ {"inline"})
DisableXattr == VisitAll("free_xattr_block", {f \in File : HasXattr(f)}, mem.feat \ {"xattr"})
DisableUnwrittenExtents == VisitAll("write_unwritten", UnwrittenFiles, mem.feat \ {"unwritten"})
DisableSparseFiles ==
    IF "unwritten" \in mem.feat \/ UnwrittenFiles # {} THEN Refuse
    ELSE VisitAll("fill_hole", SparseFiles, mem.feat \ {"sparse"})
DisableBackupSuper ==
    VisitAll("free_backup", BackupOffsets(mem.clusters), mem.feat \ {"backup_super"})
DisableExtendedSlotmap == SetFirst("feature_slot_map", mem.feat \ {"extended_slotmap"})
DisableLocal == SetFirst("cluster_desc", mem.feat \ {"local"})

\* tunefs_feature_run calls the function of the feature.
Enable(f) ==
    \/ f = "inline" /\ EnableInlineData
    \/ f = "xattr" /\ EnableXattr
    \/ f = "local" /\ EnableLocal
    \/ f = "unwritten" /\ EnableUnwrittenExtents
    \/ f = "sparse" /\ EnableSparseFiles
    \/ f = "extended_slotmap" /\ EnableExtendedSlotmap
    \/ f = "backup_super" /\ EnableBackupSuper
    \/ f = "metaecc" /\ EnableMetaecc

Disable(f) ==
    \/ f = "inline" /\ DisableInlineData
    \/ f = "xattr" /\ DisableXattr
    \/ f = "local" /\ DisableLocal
    \/ f = "unwritten" /\ DisableUnwrittenExtents
    \/ f = "sparse" /\ DisableSparseFiles
    \/ f = "extended_slotmap" /\ DisableExtendedSlotmap
    \/ f = "backup_super" /\ DisableBackupSuper
    \/ f = "metaecc" /\ DisableMetaecc

EnableFeature(f) ==
    /\ at = "enable"
    /\ NothingToDo \/ (f \notin mem.feat /\ Enable(f))
    /\ UNCHANGED <<backup, smap, bm, gd, dataVars>>

DisableFeature(f) ==
    /\ at = "disable"
    /\ NothingToDo \/ (f \in mem.feat /\ Disable(f))
    /\ UNCHANGED <<backup, smap, bm, gd, dataVars>>

WriteFeatures ==
    /\ at = "feature_super"
    /\ SetFeatures(work.feat)
    /\ UNCHANGED <<backup, smap, bm, gd, dataVars>>

-----------------------------------------------------------------------------
(* The visits.                                                             *)

\* After the visit of an inode: the next one, or the superblock.
NextInode(step) ==
    LET rest == work.todo \ {Min(work.todo)} IN
      /\ work' = [work EXCEPT !.todo = rest]
      /\ Continue(IF rest = {} THEN "feature_super" ELSE step)

\* One write of the inode at hand, with its checksum.
WriteFile(new) ==
    LET f == Min(work.todo) IN
      /\ file' = [file EXCEPT ![f] = new]
      /\ ecc' = Written(Inode(f))
      /\ UNCHANGED <<diskVars, mem, dir>>

AtHand == file[Min(work.todo)]

\* truncate_to_i_size, when sparse is enabled.
TrimTail ==
    /\ at = "trim_tail"
    /\ WriteFile([AtHand EXCEPT !.tail = FALSE])
    /\ NextInode("trim_tail")

\* fill_sparse_file, when it is disabled: first the holes, then what is past the end.
FillHole ==
    /\ at = "fill_hole"
    /\ WriteFile([AtHand EXCEPT !.hole = FALSE])
    /\ Continue("truncate_tail")
    /\ UNCHANGED work

TruncateTail ==
    /\ at = "truncate_tail"
    /\ WriteFile([AtHand EXCEPT !.tail = FALSE])
    /\ NextInode("fill_hole")

\* ocfs2_mark_extent_written after zeroing the clusters.
WriteUnwritten ==
    /\ at = "write_unwritten"
    /\ WriteFile([AtHand EXCEPT !.unwritten = FALSE])
    /\ NextInode("write_unwritten")

\* ocfs2_convert_inline_data_to_extents.
ExpandInline ==
    /\ at = "expand_inline"
    /\ WriteFile([AtHand EXCEPT !.inline = FALSE])
    /\ NextInode("expand_inline")

\* ocfs2_delete_xattr_block: back to the extent allocator of its slot.
DeleteXattrBlock(f) == file' = [file EXCEPT ![f].xblock = FALSE]

\* remove_xattr: the block with its values first; that this failed is forgotten.
FreeXattrBlock ==
    /\ at = "free_xattr_block"
    /\ \/ DeleteXattrBlock(Min(work.todo))
       \/ UNCHANGED file
    /\ Continue("write_xattr_inode")
    /\ UNCHANGED <<diskVars, mem, work, dir, ecc>>

\* ... then the inode, without its own attributes and without the block's number.
WriteXattrInode ==
    /\ at = "write_xattr_inode"
    /\ WriteFile([AtHand EXCEPT !.ibody = FALSE, !.xloc = FALSE])
    /\ NextInode("free_xattr_block")

-----------------------------------------------------------------------------
(* The slot map and the cluster stack.                                     *)

FeatureSlotMap ==
    /\ at = "feature_slot_map"
    /\ WriteSlotMap
    /\ Continue("feature_super")
    /\ UNCHANGED <<super, backup, bm, gd, mem, work, dataVars>>

\* ocfs2_set_cluster_desc, for the stack that is running on this node: a userspace
\* stack needs the extended slot map.
SetClusterDesc(running) ==
    /\ at = "cluster_desc"
    /\ LET user == running # "classic"
           feat == IF user THEN mem.feat \cup {"extended_slotmap", "userspace_stack"}
                   ELSE mem.feat \ {"userspace_stack"}
           sb == [mem EXCEPT !.feat = feat, !.stack = IF user THEN running ELSE @]
       IN IF user /\ "extended_slotmap" \notin mem.feat
          THEN /\ mem' = sb
               /\ work' = Visit({}, feat)
               /\ Continue("feature_slot_map")
               /\ UNCHANGED super
          ELSE WriteSuper(sb)
    /\ UNCHANGED <<backup, smap, bm, gd, dataVars>>

-----------------------------------------------------------------------------
(* The backup superblocks.                                                 *)

\* ocfs2_set_backup_super_list: every copy is written ...
FillBackup ==
    /\ at = "fill_backup"
    /\ LET b == Min(work.todo) IN
         /\ backup' = [backup EXCEPT ![b] = BackupCopy(mem)]
         /\ IF work.todo = {b}
            THEN /\ work' = [work EXCEPT !.todo = BackupOffsets(mem.clusters)]
                 /\ Continue("reserve_backup")
            ELSE work' = [work EXCEPT !.todo = @ \ {b}] /\ Continue("fill_backup")
    /\ UNCHANGED <<super, smap, bm, gd, mem, dataVars>>

\* The cluster of the backup at hand changes in the bitmap, which is written; then the
\* next one, or the superblock.
ChangeCluster(al, step) ==
    LET rest == work.todo \ {Min(work.todo)}
        then == IF rest = {} THEN "feature_super" ELSE step
    IN /\ work' = [work EXCEPT !.todo = rest, !.al = [al EXCEPT !.then = then]]
       /\ Continue(IF al.dirty = {} THEN then ELSE "bitmap_group")

\* ... and then its cluster is taken, unless it is already.  What
\* ocfs2_new_specific_cluster returns is ignored.
ReserveBackup ==
    /\ at = "reserve_backup"
    /\ LET b == Min(work.todo) IN
         IF b \in FreeClusters(work.al)
         THEN ChangeCluster([WithBits(work.al, {b}, {}) EXCEPT !.undo = b], "reserve_backup")
         ELSE NextInode("reserve_backup")
    /\ UNCHANGED <<diskVars, mem, dataVars>>

\* ocfs2_clear_backup_super_list frees the clusters before the feature is gone.
FreeBackup ==
    /\ at = "free_backup"
    /\ ChangeCluster(WithBits(work.al, {}, {Min(work.todo)}), "free_backup")
    /\ UNCHANGED <<diskVars, mem, dataVars>>

-----------------------------------------------------------------------------
(* enable_metaecc.                                                         *)

MarkTrailers ==
    /\ at = "mark_trailers"
    /\ SetInProgress("dir_trailer")
    /\ Continue("new_dirblocks")
    /\ UNCHANGED <<backup, smap, bm, gd, work, dataVars>>

\* What does not fit beside a trailer has to leave the blocks of a directory.
Moved(d) == UNION {dir[d].blocks[i].move : i \in 1 .. dir[d].size}

\* tunefs_install_dir_trailer.  First the new block with the entries that move: past
\* i_size, so nobody sees it yet.  (It is in a cluster the directory has.)
NewDirblocks ==
    /\ at = "new_dirblocks"
    /\ LET d == Max(work.todo)
           needed == Moved(d) # {}
       IN /\ work' = [work EXCEPT !.dir = d, !.block = 1, !.new = IF needed THEN 1 ELSE 0]
          /\ IF needed
             THEN /\ dir' = [dir EXCEPT ![d].blocks =
                               Append(@, DirBlock(Moved(d), {}, TRUE))]
                  /\ Continue("dir_size")
             ELSE Continue("old_dirblocks") /\ UNCHANGED dir
    /\ UNCHANGED <<diskVars, mem, file, ecc>>

\* Then i_size, in the copy of the inode that the scan kept, and on disk.
WriteDirSize ==
    /\ at = "dir_size"
    /\ LET size == work.size[work.dir] + work.new IN
         /\ work' = [work EXCEPT !.size[work.dir] = size]
         /\ dir' = [dir EXCEPT ![work.dir].size = size]
         /\ ecc' = Written(Inode(work.dir))
    /\ Continue("old_dirblocks")
    /\ UNCHANGED <<diskVars, mem, file>>

\* write_dirblocks: the old blocks, without those entries and with a trailer.
OldDirblocks ==
    /\ at = "old_dirblocks"
    /\ LET d == work.dir
           last == work.block + work.new = dir[d].size
           rest == work.todo \ {d}
       IN /\ dir' = [dir EXCEPT ![d].blocks[work.block] = DirBlock(@.keep, {}, TRUE)]
          /\ ecc' = Written(<<d, work.block>>)
          /\ IF ~last
             THEN work' = [work EXCEPT !.block = @ + 1] /\ Continue("old_dirblocks")
             ELSE /\ work' = [work EXCEPT !.todo = rest]
                  /\ Continue(IF rest = {} THEN "unmark_trailers" ELSE "new_dirblocks")
    /\ UNCHANGED <<diskVars, mem, file>>

\* The mark goes; the feature is now in the superblock in memory, and every block that
\* was collected is written once more.
UnmarkTrailers ==
    /\ at = "unmark_trailers"
    /\ super' = [mem EXCEPT !.mark = @ \ {"dir_trailer"}]
    /\ mem' = [super' EXCEPT !.feat = work.feat]
    /\ work' = [work EXCEPT !.todo = MetaBlocks]
    /\ Continue("ecc_block")
    /\ UNCHANGED <<backup, smap, bm, gd, dataVars>>

\* The blocks are in a tree by their number.
FirstBlock(bs) ==
    CHOOSE b \in bs : \A c \in bs : b[1] < c[1] \/ (b[1] = c[1] /\ b[2] <= c[2])

WriteEccBlock ==
    /\ at = "ecc_block"
    /\ LET b == FirstBlock(work.todo)
           rest == work.todo \ {b}
       IN /\ dir' = IF b[1] \in Dir /\ b[2] = 0
                    THEN [dir EXCEPT ![b[1]].size = work.size[b[1]]] ELSE dir
          /\ ecc' = Written(b)
          /\ work' = [work EXCEPT !.todo = rest]
          /\ Continue(IF rest = {} THEN "feature_super" ELSE "ecc_block")
    /\ UNCHANGED <<diskVars, mem, file>>

-----------------------------------------------------------------------------
(* The operations that change one field of the superblock.                 *)

\* -L, -U and --cloned-volume.
SetLabel(label) ==
    /\ at = "label"
    /\ NothingToDo \/ WriteSuper([mem EXCEPT !.label = label])
    /\ UNCHANGED <<backup, smap, bm, gd, dataVars>>

ResetUuid(uuid) ==
    /\ at = "uuid"
    /\ NothingToDo \/ WriteSuper([mem EXCEPT !.uuid = uuid])
    /\ UNCHANGED <<backup, smap, bm, gd, dataVars>>

ClonedVolume(uuid, label) ==
    /\ at = "cloned"
    /\ NothingToDo \/ WriteSuper([mem EXCEPT !.uuid = uuid, !.label = label])
    /\ UNCHANGED <<backup, smap, bm, gd, dataVars>>

FeatureStep ==
    \/ WriteFeatures
    \/ TrimTail \/ FillHole \/ TruncateTail \/ WriteUnwritten \/ ExpandInline
    \/ FreeXattrBlock \/ WriteXattrInode
    \/ FeatureSlotMap \/ FillBackup \/ ReserveBackup \/ FreeBackup
    \/ MarkTrailers \/ NewDirblocks \/ WriteDirSize \/ OldDirblocks
    \/ UnmarkTrailers \/ WriteEccBlock
=============================================================================
