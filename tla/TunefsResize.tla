---------------------------- MODULE TunefsResize ----------------------------
(***************************************************************************)
(* tunefs.ocfs2 -S: growing the volume.  Offline the tool rewrites the     *)
(* global bitmap itself, under an in-progress mark; online it prepares     *)
(* group descriptors and asks the kernel of this node to link them.        *)
(***************************************************************************)
EXTENDS TunefsVolume

CONSTANT Device \* the clusters the device has room for

VARIABLES
    rlock, \* whether this run holds the "tunefs-online-resize-lock"
    grown  \* history: the backup locations that an offline resize brought into the volume

resizeVars == <<rlock, grown>>

\* The locals of run_resize and init_new_gd: the bitmap's inode and its last group
\* in memory, the range still to add and the last chain used.
Growth(online, total) ==
    [online |-> online, total |-> total, di |-> bm, tail |-> NoGroup, lgd |-> 0,
     flush |-> FALSE, first |-> bm.clusters, left |-> total - bm.clusters, chain |-> 0,
     err |-> 0]

-----------------------------------------------------------------------------
(* update_volume_size.                                                     *)

\* check_new_size: zero asks for the whole device; the new size may be neither
\* larger than the device nor smaller than the volume.
WantedSize(size) == IF size = 0 THEN Device ELSE size

UpdateVolumeSize(size, online) ==
    /\ at = "resize"
    /\ LET total == WantedSize(size) IN
         \/ /\ \/ total > Device /\ Return(1)
               \/ total < mem.clusters /\ Return(1)
               \/ total \in mem.clusters .. Device /\ Return(0)
            /\ work' = NoWork
         \/ /\ total \in mem.clusters + 1 .. Device
            /\ work' = Growth(online, total)
            /\ Continue(IF online THEN "online_lock" ELSE "mark_resize")
    /\ UNCHANGED <<diskVars, mem, resizeVars>>

MarkResize ==
    /\ at = "mark_resize"
    /\ SetInProgress("resize")
    /\ Continue("read_bitmap")
    /\ UNCHANGED <<backup, smap, bm, gd, work, resizeVars>>

\* online_resize_lock; on a local volume tunefs_dlm_lock does nothing.
OnlineResizeLock ==
    /\ at = "online_lock"
    /\ rlock' = ("local" \notin mem.feat)
    /\ Continue("read_bitmap")
    /\ UNCHANGED <<diskVars, mem, work, grown>>

-----------------------------------------------------------------------------
(* run_resize.                                                             *)

\* With a single group the chain list may still have a small cl_cpg.
AdjustedCpg(di) == IF Len(di.recs) = 1 /\ di.cpg < Cpg THEN Cpg ELSE di.cpg

\* The clusters that round off the last group.
TailRoom(cpg, desc) == cpg - desc.bits

\* What comes after the last group has been extended.
AfterTail(w) ==
    IF w.left > 0 THEN "new_group"
    ELSE IF w.online THEN "online_unlock"
    ELSE IF w.flush THEN "flush_tail"
    ELSE "write_bitmap"

\* Reads the bitmap's inode and the last group, and extends both in memory.
ReadBitmap ==
    /\ at = "read_bitmap"
    /\ LET lgd == WhichGroup(bm.clusters - 1)
           desc == gd[lgd]
           cpg == AdjustedCpg(bm)
           left == work.total - bm.clusters
           chunk == Min({left, TailRoom(cpg, desc)})
           c == desc.chain
           w == [work EXCEPT
                   !.lgd = lgd, !.chain = c, !.flush = chunk > 0,
                   !.tail = [desc EXCEPT !.bits = @ + chunk],
                   !.first = bm.clusters + chunk, !.left = left - chunk,
                   !.di = [bm EXCEPT !.cpg = cpg,
                                     !.recs[c].total = @ + chunk,
                                     !.recs[c].free = @ + chunk,
                                     !.total = @ + chunk,
                                     !.clusters = work.total]]
       IN /\ work' = w
          /\ Continue(IF chunk > 0 /\ work.online THEN "group_extend" ELSE AfterTail(w))
    /\ UNCHANGED <<diskVars, mem, resizeVars>>

\* init_new_gd: the chain after the last one used, from the first again when the
\* list is full.
NextChain(c) == IF c >= ChainCount THEN 1 ELSE c + 1

\* The descriptor in the first cluster of the next group, and the chain record it
\* heads.  Online, the backup superblocks in the group are reserved in it
\* (reserve_backup_in_group).
NewDesc(w) ==
    LET g == WhichGroup(w.first)
        c == NextChain(w.chain)
        size == Min({w.left, w.di.cpg})
        reserved == IF w.online /\ "backup_super" \in mem.feat
                    THEN {b \in BackupAt : WhichGroup(b) = g /\ b < w.first + size}
                    ELSE {}
    IN [bits |-> size, used |-> {FirstCluster(g)} \cup reserved, chain |-> c,
        next |-> IF c > Len(w.di.recs) THEN 0 ELSE w.di.recs[c].head]

WithGroup(di, g, desc) ==
    LET c == desc.chain
        rec == IF c > Len(di.recs) THEN [head |-> 0, total |-> 0, free |-> 0] ELSE di.recs[c]
        new == [head |-> g, total |-> rec.total + desc.bits, free |-> rec.free + FreeBits(desc)]
    IN [di EXCEPT !.recs = IF c > Len(@) THEN Append(@, new) ELSE [@ EXCEPT ![c] = new],
                  !.total = @ + desc.bits,
                  !.used = @ + Cardinality(desc.used)]

\* init_new_gd, one group: its first cluster is zeroed and its descriptor written.
InitNewGd ==
    /\ at = "new_group"
    /\ LET g == WhichGroup(work.first)
           desc == NewDesc(work)
           w == [work EXCEPT !.di = WithGroup(@, g, desc), !.chain = desc.chain,
                             !.first = @ + desc.bits, !.left = @ - desc.bits]
       IN /\ gd' = [gd EXCEPT ![g] = desc]
          /\ work' = w
          /\ Continue(IF work.online THEN "group_add" ELSE AfterTail(w))
    /\ UNCHANGED <<super, backup, smap, bm, mem, resizeVars>>

-----------------------------------------------------------------------------
(* The kernel's side of an online resize.                                  *)

\* The kernel writes the superblock with its new size, and its backups.
KernelSuper(clusters) ==
    /\ super' = [super EXCEPT !.clusters = clusters]
    /\ backup' = IF "backup_super" \notin super.feat THEN backup
                 ELSE [b \in BackupAt |-> IF b \in BackupOffsets(clusters)
                                          THEN BackupCopy(super') ELSE backup[b]]

\* OCFS2_IOC_GROUP_EXTEND: the last group and the bitmap's inode grow, and the backups
\* in the new part are reserved.
GroupExtend ==
    /\ at = "group_extend"
    /\ LET chunk == work.tail.bits - gd[work.lgd].bits
           c == gd[work.lgd].chain
           clusters == bm.clusters + chunk
           reserved == IF "backup_super" \in super.feat
                       THEN BackupAt \cap (bm.clusters .. clusters - 1) ELSE {}
       IN /\ gd' = [gd EXCEPT ![work.lgd].bits = @ + chunk, ![work.lgd].used = @ \cup reserved]
          /\ bm' = [bm EXCEPT !.recs[c].total = @ + chunk,
                              !.recs[c].free = @ + chunk - Cardinality(reserved),
                              !.total = @ + chunk, !.used = @ + Cardinality(reserved),
                              !.clusters = clusters, !.cpg = AdjustedCpg(bm)]
          /\ KernelSuper(clusters)
    /\ Continue(AfterTail(work))
    /\ UNCHANGED <<smap, mem, work, resizeVars>>

\* OCFS2_IOC_GROUP_ADD: the kernel links the group at the head of its chain.
GroupAdd ==
    /\ at = "group_add"
    /\ LET g == WhichGroup(work.first - 1)
           c == gd[g].chain
           desc == [gd[g] EXCEPT !.next = IF c > Len(bm.recs) THEN 0 ELSE bm.recs[c].head]
       IN /\ gd' = [gd EXCEPT ![g] = desc]
          /\ bm' = [WithGroup(bm, g, desc) EXCEPT !.clusters = @ + desc.bits]
          /\ KernelSuper(bm.clusters + desc.bits)
    /\ Continue(AfterTail(work))
    /\ UNCHANGED <<smap, mem, work, resizeVars>>

\* The lock is released whether run_resize failed or not.
OnlineResizeUnlock ==
    /\ at = "online_unlock"
    /\ rlock' = FALSE
    /\ Return(work.err)
    /\ work' = NoWork
    /\ UNCHANGED <<diskVars, mem, grown>>

-----------------------------------------------------------------------------
(* update_global_bitmap and the end of update_volume_size_offline.         *)

FlushTail ==
    /\ at = "flush_tail"
    /\ gd' = [gd EXCEPT ![work.lgd] = work.tail]
    /\ Continue("write_bitmap")
    /\ UNCHANGED <<super, backup, smap, bm, mem, work, resizeVars>>

WriteBitmap ==
    /\ at = "write_bitmap"
    /\ bm' = work.di
    /\ mem' = [mem EXCEPT !.clusters = work.total]
    /\ grown' = grown \cup (BackupOffsets(work.total) \ BackupOffsets(mem.clusters))
    /\ Continue("clear_resize")
    /\ UNCHANGED <<super, backup, smap, gd, work, rlock>>

ClearResize ==
    /\ at = "clear_resize"
    /\ ClearInProgress("resize")
    /\ Continue("resize_super")
    /\ UNCHANGED <<backup, smap, bm, gd, work, resizeVars>>

WriteNewSize ==
    /\ at = "resize_super"
    /\ WriteSuper(mem)
    /\ UNCHANGED <<backup, smap, bm, gd, resizeVars>>

ResizeStep ==
    \/ MarkResize \/ OnlineResizeLock \/ ReadBitmap \/ InitNewGd
    \/ GroupExtend \/ GroupAdd \/ OnlineResizeUnlock
    \/ FlushTail \/ WriteBitmap \/ ClearResize \/ WriteNewSize

\* The steps whose failure has to release the online lock first.
OnlineStep ==
    \/ at \in {"group_extend", "group_add"}
    \/ at \in {"read_bitmap", "new_group"} /\ work.online
=============================================================================
