---------------------------- MODULE TunefsVolume ----------------------------
(***************************************************************************)
(* What every operation of tunefs.ocfs2 shares: the superblock on disk,    *)
(* its backups, the copy of it in the ocfs2_filesys that the running       *)
(* operation opened, the slot map file and the global bitmap.              *)
(*                                                                         *)
(* An operation is a sequence of steps, one per write that changes what    *)
(* the model has of the disk: "at" names the next one, "work" holds its    *)
(* local variables.  A crash may come between any two steps, and any step  *)
(* may fail.                                                               *)
(***************************************************************************)
EXTENDS Naturals, Sequences, FiniteSets, FiniteSetsExt

CONSTANTS
    Cpg,        \* clusters a full cluster group holds (8 * bg_size)
    ChainCount, \* chain records a chain list has room for (cl_count)
    BackupAt    \* the clusters of the backup superblocks

VARIABLES
    super,  \* the primary superblock, on disk
    backup, \* the backup superblock at each location, or NoCopy
    smap,   \* the slot map file: its format and the slots it has room for
    bm,     \* the global bitmap's inode
    gd,     \* the descriptor of each cluster group
    mem,    \* fs->fs_super of the ocfs2_filesys of the running operation
    at,     \* the next step of the running operation
    work,   \* its local variables
    rc      \* what it returned: 0 for success

diskVars == <<super, backup, smap, bm, gd>>
opVars == <<mem, at, work, rc>>

NoCopy == [none |-> TRUE]
NoWork == [none |-> TRUE]

Feature == {"local", "extended_slotmap", "userspace_stack", "backup_super", "sparse",
            "unwritten", "inline", "xattr", "metaecc"}

\* The in-progress marks that keep a volume from being mounted or tuned.
Mark == {"resize", "remove_slot", "dir_trailer"}

-----------------------------------------------------------------------------
(* How a step ends.                                                        *)

Continue(step) == at' = step /\ UNCHANGED rc

Return(code) == at' = "return" /\ rc' = code

-----------------------------------------------------------------------------
(* The superblock.                                                         *)

\* ocfs2_write_primary_super: block 2 becomes the superblock in memory.
WritePrimarySuper(sb) == mem' = sb /\ super' = sb

\* The flag is in the superblock on disk before the work it announces.
SetInProgress(flag) == WritePrimarySuper([mem EXCEPT !.mark = @ \cup {flag}])

ClearInProgress(flag) == WritePrimarySuper([mem EXCEPT !.mark = @ \ {flag}])

\* The backup locations that lie inside a volume of that many clusters.
BackupOffsets(clusters) == {b \in BackupAt : b < clusters}

\* A superblock written without its backups.
PrimaryOnly(sb) == WritePrimarySuper(sb) /\ Return(0) /\ work' = NoWork

\* ocfs2_write_super: the primary first, then every backup, if the feature is on.
WriteSuper(sb) ==
    /\ WritePrimarySuper(sb)
    /\ IF "backup_super" \in sb.feat /\ BackupOffsets(sb.clusters) # {}
       THEN /\ Continue("refresh")
            /\ work' = [todo |-> BackupOffsets(sb.clusters)]
       ELSE Return(0) /\ work' = NoWork

\* A backup says of itself that backups are enabled.
BackupCopy(sb) == [sb EXCEPT !.feat = @ \cup {"backup_super"}]

\* ocfs2_refresh_backup_supers: one location after the other.
RefreshBackup ==
    /\ at = "refresh"
    /\ LET b == Min(work.todo) IN
         /\ backup' = [backup EXCEPT ![b] = BackupCopy(mem)]
         /\ IF work.todo = {b}
            THEN Return(0) /\ work' = NoWork
            ELSE Continue("refresh") /\ work' = [work EXCEPT !.todo = @ \ {b}]
    /\ UNCHANGED <<super, smap, bm, gd, mem>>

-----------------------------------------------------------------------------
(* The slot map file.                                                      *)

\* ocfs2_size_slot_map: the file grows or shrinks to what the slots need.
SizeSlotMap(sb) == sb.slots

\* ocfs2_format_slot_map: an empty map in the format the superblock in memory names.
FormattedSlotMap(sb) ==
    [extended |-> "extended_slotmap" \in sb.feat, slots |-> SizeSlotMap(sb)]

WriteSlotMap == smap' = FormattedSlotMap(mem)

-----------------------------------------------------------------------------
(* The global bitmap: a chain allocator whose groups are ranges of Cpg     *)
(* clusters.  The first cluster of a group holds its descriptor.           *)

Group == DOMAIN gd
NoGroup == [bits |-> 0, used |-> {}, chain |-> 0, next |-> 0]

\* ocfs2_which_cluster_group; groups are numbered from 1, 0 is "no block".
WhichGroup(cluster) == cluster \div Cpg + 1

FirstCluster(g) == (g - 1) * Cpg

FreeBits(desc) == desc.bits - Cardinality(desc.used)

InUse(cluster) == cluster \in gd[WhichGroup(cluster)].used

\* The groups on a chain, from its head along bg_next_group.
ChainFrom(head, next) ==
    LET walk[n \in 0..Cardinality(DOMAIN next)] ==
          IF n = 0 THEN <<head>>
          ELSE LET w == walk[n - 1] IN
               IF w[Len(w)] = 0 THEN w ELSE Append(w, next[w[Len(w)]])
        all == walk[Cardinality(DOMAIN next)]
    IN SelectSeq(all, LAMBDA g : g # 0)

BitmapChain(c) == ChainFrom(bm.recs[c].head, [g \in Group |-> gd[g].next])

SeqSet(s) == {s[i] : i \in DOMAIN s}

\* tunefs_global_bitmap_check: what tunefs_open and tunefs_close verify of every
\* chain of the global bitmap.  First its groups and their sizes ...
ChainTotals(c) ==
    LET groups == SeqSet(BitmapChain(c)) IN
      /\ \A g \in groups : gd[g].chain = c /\ FreeBits(gd[g]) < gd[g].bits
      /\ bm.recs[c].total = MapThenSumSet(LAMBDA g : gd[g].bits, groups)

\* ... and the clusters that are free in them.
ChainIsValid(c) ==
    /\ ChainTotals(c)
    /\ bm.recs[c].free = MapThenSumSet(LAMBDA g : FreeBits(gd[g]), SeqSet(BitmapChain(c)))

GlobalBitmapCheck == \A c \in DOMAIN bm.recs : ChainIsValid(c)

-----------------------------------------------------------------------------
(* Clusters taken and given back.  Each opening of the filesystem loads    *)
(* the global bitmap (fs_cluster_alloc); a change is made there and then   *)
(* written: the descriptors of the groups that changed, and last the       *)
(* inode with the counts of the chains.  No mark announces it.             *)

\* The bitmap in memory, the groups that are not written yet, and the step after the
\* last write.  undo is the cluster to give back when a write fails, 0 if the failure
\* is returned instead; forget says that the next failure has no consequence.
LoadAllocator ==
    [bm |-> bm, gd |-> gd, dirty |-> {}, then |-> "return", undo |-> 0, forget |-> FALSE]

\* chainalloc_bit_change_notify, for every bit that becomes set or clear.
WithBits(al, taken, freed) ==
    LET Used(g) == (al.gd[g].used \cup {b \in taken : WhichGroup(b) = g}) \ freed
        Gain(g) == Cardinality(al.gd[g].used) - Cardinality(Used(g))
        changed == {g \in Group : Used(g) # al.gd[g].used}
        OnChain(c) == {g \in changed : al.gd[g].chain = c}
    IN [al EXCEPT
          !.gd = [g \in Group |-> [al.gd[g] EXCEPT !.used = Used(g)]],
          !.dirty = @ \cup changed,
          !.bm.used = @ - MapThenSumSet(Gain, changed),
          !.bm.recs = [c \in DOMAIN al.bm.recs |->
                         [al.bm.recs[c] EXCEPT !.free = @ + MapThenSumSet(Gain, OnChain(c))]]]

\* ocfs2_write_chain_allocator, up to the step that follows.
WriteAllocator(al, then) ==
    /\ work' = [work EXCEPT !.al = [al EXCEPT !.then = then]]
    /\ Continue(IF al.dirty = {} THEN then ELSE "bitmap_group")

\* The clusters that are free, and the runs of up to n in the first group that has any:
\* each with its first cluster and its length.
FreeClusters(al) ==
    {b \in 0 .. al.bm.clusters - 1 : b \notin al.gd[WhichGroup(b)].used}

FreeRuns(al, n) ==
    LET g == WhichGroup(Min(FreeClusters(al)))
        free == {b \in FreeClusters(al) : WhichGroup(b) = g}
    IN {r \in free \X (1 .. n) : r[1] .. r[1] + r[2] - 1 \subseteq free}

\* ocfs2_chain_alloc_range: the longest of them, and of those the first.
BestRun(al, n) ==
    LET runs == FreeRuns(al, n)
        len == Max({r[2] : r \in runs})
        first == Min({r[1] : r \in {x \in runs : x[2] = len}})
    IN [i \in 1 .. len |-> first + i - 1]

\* chainalloc_write_group, for the groups that changed, in their order ...
WriteGroup ==
    /\ at = "bitmap_group"
    /\ LET g == Min(work.al.dirty)
           rest == work.al.dirty \ {g}
       IN /\ gd' = [gd EXCEPT ![g] = work.al.gd[g]]
          /\ work' = [work EXCEPT !.al.dirty = rest]
          /\ Continue(IF rest = {} THEN "bitmap_inode" ELSE "bitmap_group")
    /\ UNCHANGED <<super, backup, smap, bm, mem>>

\* ... and then the inode of the bitmap (chainalloc_write_bitmap).
WriteBitmapInode ==
    /\ at = "bitmap_inode"
    /\ bm' = work.al.bm
    /\ work' = [work EXCEPT !.al.undo = 0, !.al.forget = FALSE]
    /\ Continue(work.al.then)
    /\ UNCHANGED <<super, backup, smap, gd, mem>>

AllocatorStep == WriteGroup \/ WriteBitmapInode

InAllocator == at \in {"bitmap_group", "bitmap_inode"}

\* A write of the bitmap failed and the caller ignores it: ocfs2_new_specific_cluster
\* gives the cluster back, and what becomes of that is forgotten too.  (Clusters of one
\* block: line 598 takes the number of the cluster for that of a block.)
ForgetFailure ==
    IF work.al.undo # 0
    THEN LET al == WithBits(work.al, {}, {work.al.undo}) IN
         WriteAllocator([al EXCEPT !.undo = 0, !.forget = TRUE], al.then)
    ELSE /\ work' = [work EXCEPT !.al.forget = FALSE]
         /\ Continue(work.al.then)
=============================================================================
