----------------------------- MODULE TunefsSlots -----------------------------
(***************************************************************************)
(* tunefs.ocfs2 -N and -J: the number of node slots, and the size of their *)
(* journals.  A slot has six system files; two of them are allocators,     *)
(* whose groups are handed to the slots that stay when the slot goes.      *)
(***************************************************************************)
EXTENDS TunefsVolume

CONSTANTS
    MaxSlots,  \* the most slots without the extended slot map (OCFS2_MAX_SLOTS)
    MoreSlots, \* the most slots with it (INT16_MAX)
    SubGroup,  \* the block groups of the extent and inode allocators
    LastEntry  \* the files of a slot whose entry is the slot's last in its directory block

VARIABLES
    sysdir,   \* the entries of the system directory, by slot
    sysinode, \* the system files of a slot whose inode is valid
    orphans,  \* the clusters of the slot's orphan directory, and whether it is ready
    journal,  \* the slot's journal: see NoJournal
    pending,  \* what a slot has in its orphan directory, local alloc, truncate log
    alloc,    \* the inodes of the allocators: [kind][slot]
    group,    \* the descriptors of their groups
    jseen,    \* ts_journal_clusters: the largest journal when the volume was opened
    resizing, \* history: the slots whose journal has a resize begun and not completed
    dangling  \* history: the entries that were left behind when their inode was deleted

dirVars == <<sysdir, sysinode, orphans, journal, pending, resizing, dangling>>
slotVars == <<dirVars, alloc, group>>

Slot == 0 .. MoreSlots - 1

\* The per-slot part of ocfs2_system_inodes, in its order.
SlotFiles == <<"orphan_dir", "extent_alloc", "inode_alloc", "journal", "local_alloc",
               "truncate_log">>
SlotFile == SeqSet(SlotFiles)
AllocKind == {"extent_alloc", "inode_alloc"}

EmptyAlloc == [recs |-> <<>>, total |-> 0, used |-> 0]
NoOrphanDir == [ready |-> FALSE, ext |-> <<>>]

\* The extents, i_clusters, i_size in clusters, and the length that the journal's
\* superblock gives, 0 if there is none.
NoJournal == [ext |-> <<>>, clusters |-> 0, size |-> 0, super |-> 0]

\* The bits of a group of an allocator (cl_cpg * cl_bpc), and those that are free.
SubBits == 4
SubFree == 1

\* The locals of update_slot_count and of what it calls.
Job(old, new) ==
    [old |-> old, new |-> new, todo |-> <<>>, want |-> 0, slot |-> 0, kind |-> "extent_alloc",
     chain |-> 0, to |-> 0, dst |-> EmptyAlloc, list |-> <<>>, took |-> <<>>, gone |-> {},
     err |-> 0, al |-> LoadAllocator]

AllocChain(k, s, c) ==
    ChainFrom(alloc[k][s].recs[c].head, [g \in SubGroup |-> group[g].next])

-----------------------------------------------------------------------------
(* update_slot_count.                                                      *)

\* add_slots walks the kinds of files, and for each the new slots.
NewFiles(old, n) ==
    [i \in 1 .. Len(SlotFiles) * (n - old) |->
        <<SlotFiles[(i - 1) \div (n - old) + 1], old + ((i - 1) % (n - old))>>]

SlotLimit == IF "extended_slotmap" \in mem.feat THEN MoreSlots ELSE MaxSlots

\* remove_slot_check: the slots to remove have no orphan, no local alloc window
\* and nothing in their truncate log.
OrphanDirCheck(s) == "orphan_dir" \notin pending[s]
LocalAllocCheck(s) == "local_alloc" \notin pending[s]
TruncateLogCheck(s) == "truncate_log" \notin pending[s]

RemoveSlotCheck(n) ==
    \A s \in n .. mem.slots - 1 : OrphanDirCheck(s) /\ LocalAllocCheck(s) /\ TruncateLogCheck(s)

\* Nothing to do, a declined question, a refusal, or the first step of the work.
UpdateSlotCount(n) ==
    /\ at = "slots"
    /\ \/ /\ Return(0)
          /\ work' = NoWork
       \/ /\ n > mem.slots
          /\ IF n > SlotLimit
             THEN Return(1) /\ work' = NoWork
             ELSE /\ Continue("add_file")
                  /\ work' = [Job(mem.slots, n) EXCEPT !.todo = NewFiles(mem.slots, n)]
       \/ /\ n < mem.slots
          /\ IF RemoveSlotCheck(n)
             THEN /\ Continue("mark_removal")
                  /\ work' = [Job(mem.slots, n) EXCEPT !.slot = mem.slots - 1]
             ELSE Return(1) /\ work' = NoWork
    /\ UNCHANGED <<diskVars, mem, slotVars, jseen>>

-----------------------------------------------------------------------------
(* add_slots.                                                              *)

NewFile == Head(work.todo)[1]
NewSlot == Head(work.todo)[2]

\* After the last file the journals of the new slots get their size.
AfterFile ==
    IF Len(work.todo) = 1
    THEN /\ mem' = [mem EXCEPT !.slots = work.new]
         /\ Continue("journal")
         /\ work' = [work EXCEPT !.todo = <<>>, !.want = jseen]
    ELSE /\ Continue("add_file")
         /\ work' = [work EXCEPT !.todo = Tail(@)]
         /\ UNCHANGED mem

\* A file that has an entry is kept as it is; another one gets a new inode first.
AddSystemFile ==
    /\ at = "add_file"
    /\ LET f == NewFile
           s == NewSlot
       IN IF f \in sysdir[s]
          THEN AfterFile /\ UNCHANGED <<sysinode, orphans, journal, alloc>>
          ELSE /\ sysinode' = [sysinode EXCEPT ![s] = @ \cup {f}]
               /\ orphans' = IF f = "orphan_dir" THEN [orphans EXCEPT ![s] = NoOrphanDir]
                             ELSE orphans
               /\ journal' = IF f = "journal" THEN [journal EXCEPT ![s] = NoJournal]
                             ELSE journal
               /\ alloc' = IF f \in AllocKind THEN [alloc EXCEPT ![f][s] = EmptyAlloc]
                           ELSE alloc
               /\ Continue(IF f = "orphan_dir" THEN "expand_dir" ELSE "link_file")
               /\ UNCHANGED <<mem, work>>
    /\ UNCHANGED <<diskVars, sysdir, pending, group, jseen, resizing, dangling>>

\* ocfs2_init_dir: a directory that is not in its inode needs a cluster ...  (When none is
\* free the allocation fails, which is Fail's business.)
ExpandDir ==
    /\ at = "expand_dir"
    /\ IF "inline" \in mem.feat
       THEN Continue("init_dir") /\ UNCHANGED work
       ELSE LET run == BestRun(work.al, 1) IN
            /\ FreeClusters(work.al) # {}
            /\ work' = [work EXCEPT !.took = run,
                           !.al = [WithBits(work.al, SeqSet(run), {}) EXCEPT !.then = "init_dir"]]
            /\ Continue("bitmap_group")
    /\ UNCHANGED <<diskVars, mem, slotVars, jseen>>

\* ... and then gets its first block.  (The writes of an inode that no entry names yet
\* are one step.)
InitDir ==
    /\ at = "init_dir"
    /\ orphans' = [orphans EXCEPT ![NewSlot] = [ready |-> TRUE, ext |-> work.took]]
    /\ Continue("link_file")
    /\ work' = [work EXCEPT !.took = <<>>]
    /\ UNCHANGED <<diskVars, mem, sysdir, sysinode, journal, pending, alloc, group, jseen,
                   resizing, dangling>>

\* Last comes the entry in the system directory.
LinkFile ==
    /\ at = "link_file"
    /\ sysdir' = [sysdir EXCEPT ![NewSlot] = @ \cup {NewFile}]
    /\ AfterFile
    /\ UNCHANGED <<diskVars, sysinode, orphans, journal, pending, alloc, group, jseen,
                   resizing, dangling>>

-----------------------------------------------------------------------------
(* tunefs_set_journal_size, for -J and for the journals of new slots.      *)

SetJournalSize(want) ==
    /\ at = "journals"
    /\ \/ /\ Return(0)
          /\ work' = NoWork
       \/ /\ Continue("journal")
          /\ work' = [Job(mem.slots, mem.slots) EXCEPT !.want = want]
    /\ UNCHANGED <<diskVars, mem, slotVars, jseen>>

\* After the last journal: -J is done, -N goes on with the slot map.
AfterJournal ==
    IF work.slot + 1 < mem.slots
    THEN Continue("journal") /\ work' = [work EXCEPT !.slot = @ + 1]
    ELSE IF work.old = work.new
    THEN Return(0) /\ work' = NoWork
    ELSE Continue("slot_map") /\ UNCHANGED work

\* ocfs2_make_journal, for a journal whose i_clusters is not the size wanted.
ResizeJournal ==
    /\ at = "journal"
    /\ LET s == work.slot IN
       IF "journal" \notin sysdir[s]
       THEN Return(1) /\ work' = NoWork /\ UNCHANGED resizing
       ELSE IF journal[s].clusters = work.want
       THEN AfterJournal /\ UNCHANGED resizing
       ELSE IF "journal" \notin sysinode[s]
       THEN Return(1) /\ work' = NoWork /\ UNCHANGED resizing
       ELSE /\ resizing' = resizing \cup {s}
            /\ Continue(IF journal[s].clusters < work.want THEN "extend_journal"
                        ELSE "shrink_journal")
            /\ UNCHANGED work
    /\ UNCHANGED <<diskVars, mem, sysdir, sysinode, orphans, journal, pending, alloc, group,
                   jseen, dangling>>

\* One write of the journal at hand.
WriteJournal(new) ==
    /\ journal' = [journal EXCEPT ![work.slot] = new]
    /\ UNCHANGED <<diskVars, mem, sysdir, sysinode, orphans, pending, alloc, group, jseen,
                   dangling>>

AtJournal == journal[work.slot]

\* ocfs2_extend_allocation: clusters are taken, as many in a row as there are, ...
\* (They go where i_size ends, even if extents are there: see FileTree.)
ExtendJournal ==
    /\ at = "extend_journal"
    /\ FreeClusters(work.al) # {}
    /\ LET run == BestRun(work.al, work.want - AtJournal.clusters) IN
         work' = [work EXCEPT !.took = run,
                    !.al = [WithBits(work.al, SeqSet(run), {}) EXCEPT !.then = "insert_extent"]]
    /\ Continue("bitmap_group")
    /\ UNCHANGED <<diskVars, mem, slotVars, jseen>>

\* ... and then inserted into the inode, until there are enough.  (When the insertion or
\* a write of the bitmap fails, what is taken back has to be written as well; that this
\* fails too is the worse outcome, and the one modelled.)
InsertExtent ==
    /\ at = "insert_extent"
    /\ LET n == AtJournal.clusters + Len(work.took) IN
         /\ WriteJournal([AtJournal EXCEPT !.ext = @ \o work.took, !.clusters = n])
         /\ Continue(IF n < work.want THEN "extend_journal" ELSE "journal_size")
    /\ work' = [work EXCEPT !.took = <<>>]
    /\ UNCHANGED resizing

\* A journal of another size is formatted; one of a slot that goes is not.
AfterResize == IF work.new < work.old THEN "drop_slot" ELSE "zero_journal"

\* ocfs2_truncate, which has nothing to do if i_size is small enough: the clusters go
\* back to the bitmap, ...
ShrinkJournal ==
    /\ at = "shrink_journal"
    /\ IF AtJournal.size <= work.want
       THEN Continue(AfterResize) /\ UNCHANGED work
       ELSE LET tail == SubSeq(AtJournal.ext, work.want + 1, Len(AtJournal.ext)) IN
            WriteAllocator(WithBits(work.al, {}, SeqSet(tail)), "cut_extents")
    /\ UNCHANGED <<diskVars, mem, slotVars, jseen>>

\* ... then ocfs2_extent_iterate writes the shorter list, ...
CutExtents ==
    /\ at = "cut_extents"
    /\ WriteJournal([AtJournal EXCEPT !.ext = SubSeq(@, 1, work.want)])
    /\ Continue("journal_size")
    /\ UNCHANGED <<work, resizing>>

\* ... and last, as after an extension, the sizes in the inode follow.
WriteJournalSize ==
    /\ at = "journal_size"
    /\ LET n == Len(AtJournal.ext) IN
         WriteJournal([AtJournal EXCEPT !.clusters = n, !.size = n])
    /\ Continue(AfterResize)
    /\ UNCHANGED <<work, resizing>>

\* ocfs2_format_journal: as far as i_size says the journal is zeroed ...
ZeroJournal ==
    /\ at = "zero_journal"
    /\ WriteJournal([AtJournal EXCEPT !.super = 0])
    /\ Continue("format_journal")
    /\ UNCHANGED <<work, resizing>>

\* The length is that of i_clusters.
JournalSuper(clusters) == clusters

\* ... and then its superblock is written.
FormatJournal ==
    /\ at = "format_journal"
    /\ WriteJournal([AtJournal EXCEPT !.super = JournalSuper(AtJournal.clusters)])
    /\ resizing' = resizing \ {work.slot}
    /\ AfterJournal

-----------------------------------------------------------------------------
(* remove_slots: one slot at a time, from the last.                        *)

\* A removal whose mark is set in memory only.
UnwrittenMark ==
    /\ at = "mark_removal"
    /\ mem' = [mem EXCEPT !.mark = @ \cup {"remove_slot"}]
    /\ Continue("relink")
    /\ UNCHANGED <<diskVars, work, slotVars, jseen>>

MarkRemoval ==
    /\ at = "mark_removal"
    /\ SetInProgress("remove_slot")
    /\ Continue("relink")
    /\ UNCHANGED <<backup, smap, bm, gd, work, slotVars, jseen>>

\* relink_system_alloc turns from one allocator of the slot to the other.
AfterRelink ==
    IF work.kind = "extent_alloc"
    THEN Continue("relink") /\ work' = [work EXCEPT !.kind = "inode_alloc"]
    ELSE Continue("truncate_orphans") /\ UNCHANGED work

\* An allocator without groups needs no relinking; the others give away their
\* chains from the last to the first.
RelinkSystemAlloc ==
    /\ at = "relink"
    /\ IF alloc[work.kind][work.slot].total = 0
       THEN AfterRelink
       ELSE /\ Continue("move_chain")
            /\ work' = [work EXCEPT !.chain = Len(alloc[work.kind][work.slot].recs)]
    /\ UNCHANGED <<diskVars, mem, slotVars, jseen>>

\* The groups of a chain from its head on: what a moved head points to is then lost.
HeadFirst(chain) == chain

\* The order in which move_chain_rec moves the groups of a chain: the last first.
MoveOrder(chain) == [i \in DOMAIN chain |-> chain[Len(chain) + 1 - i]]

\* move_chain_rec lists the groups of the chain; once no chain is left the emptied
\* allocator is written.
MoveChainRec ==
    /\ at = "move_chain"
    /\ IF work.chain = 0
       THEN /\ alloc' = [alloc EXCEPT ![work.kind][work.slot] = EmptyAlloc]
            /\ AfterRelink
       ELSE LET to == (work.chain - 1) % work.new IN
            /\ Continue("move_blocks")
            /\ work' = [work EXCEPT
                            !.to = to,
                            !.dst = alloc[work.kind][to],
                            !.list = MoveOrder(AllocChain(work.kind, work.slot, work.chain))]
            /\ UNCHANGED alloc
    /\ UNCHANGED <<diskVars, mem, dirVars, group, jseen>>

\* change_sub_alloc_slot: the blocks in use in the group name their new slot.
ChangeSubAllocSlot ==
    /\ at = "move_blocks"
    /\ group' = [group EXCEPT ![Head(work.list)].owner = work.to]
    /\ Continue("move_desc")
    /\ UNCHANGED <<diskVars, mem, work, dirVars, alloc, jseen>>

\* The chain record a moved group goes to: a new one, or, when all are in use, the
\* next in turn.
InsertAt(dst) ==
    IF Len(dst.recs) < ChainCount
    THEN Len(dst.recs) + 1
    ELSE ((dst.total \div SubBits) % ChainCount) + 1

\* move_group writes the descriptor, which points to the rest of its new chain ...
MoveGroupDesc ==
    /\ at = "move_desc"
    /\ LET pos == InsertAt(work.dst) IN
         group' = [group EXCEPT ![Head(work.list)] =
                      [parent |-> work.to, chain |-> pos, owner |-> @.owner,
                       next |-> IF pos > Len(work.dst.recs) THEN 0 ELSE work.dst.recs[pos].head]]
    /\ Continue("move_link")
    /\ UNCHANGED <<diskVars, mem, work, dirVars, alloc, jseen>>

\* The new owner's inode with the group at the head of its chain.
LinkedAlloc(dst, g) ==
    LET pos == InsertAt(dst)
        rec == IF pos > Len(dst.recs) THEN [head |-> 0, total |-> 0, free |-> 0]
               ELSE dst.recs[pos]
        new == [head |-> g, total |-> rec.total + SubBits, free |-> rec.free + SubFree]
    IN [recs |-> IF pos > Len(dst.recs) THEN Append(dst.recs, new)
                 ELSE [dst.recs EXCEPT ![pos] = new],
        total |-> dst.total + SubBits,
        used |-> dst.used + SubBits - SubFree]

\* ... and then the inode of its new allocator.
MoveGroupLink ==
    /\ at = "move_link"
    /\ LET new == LinkedAlloc(work.dst, Head(work.list)) IN
         /\ alloc' = [alloc EXCEPT ![work.kind][work.to] = new]
         /\ IF Len(work.list) = 1
            THEN /\ Continue("move_chain")
                 /\ work' = [work EXCEPT !.chain = @ - 1]
            ELSE /\ Continue("move_blocks")
                 /\ work' = [work EXCEPT !.list = Tail(@), !.dst = new]
    /\ UNCHANGED <<diskVars, mem, dirVars, group, jseen>>

\* truncate_orphan_dir: its cluster goes back to the bitmap, and then the inode is
\* written.  (From here on the mark covers what is between two writes.)
TruncateOrphanDir ==
    /\ at = "truncate_orphans"
    /\ WriteAllocator(WithBits(work.al, {}, SeqSet(orphans[work.slot].ext)), "cut_orphans")
    /\ UNCHANGED <<diskVars, mem, slotVars, jseen>>

CutOrphanDir ==
    /\ at = "cut_orphans"
    /\ orphans' = [orphans EXCEPT ![work.slot] = NoOrphanDir]
    /\ Continue("empty_journal")
    /\ UNCHANGED <<diskVars, mem, work, sysdir, sysinode, journal, pending, alloc, group, jseen,
                   resizing, dangling>>

\* empty_and_truncate_journal: zeroed, and then truncated to nothing.
EmptyAndTruncateJournal ==
    /\ at = "empty_journal"
    /\ WriteJournal([AtJournal EXCEPT !.super = 0])
    /\ Continue("shrink_journal")
    /\ UNCHANGED <<work, resizing>>

\* The entries of a slot in the order of the directory.
SlotEntries(s) == SelectSeq(SlotFiles, LAMBDA f : f \in sysdir[s])

\* The slot count goes down before the slot's files do.
DropSlot ==
    /\ at = "drop_slot"
    /\ WritePrimarySuper([mem EXCEPT !.slots = @ - 1])
    /\ Continue("delete_inode")
    /\ work' = [work EXCEPT !.list = SlotEntries(work.slot), !.gone = {}]
    /\ UNCHANGED <<backup, smap, bm, gd, slotVars, jseen>>

\* The next entry of the slot is in the same block of the directory, or the block ends.
NextEntry(w) ==
    /\ work' = w
    /\ Continue(IF w.list = <<>> \/ Head(work.list) \in LastEntry THEN "clear_entries"
                ELSE "delete_inode")

\* remove_slot_iterate: the inode of the next file is deleted and its entry cleared in
\* the block of the directory in memory.
DeleteSlotInode ==
    /\ at = "delete_inode"
    /\ LET f == Head(work.list) IN
         /\ sysinode' = [sysinode EXCEPT ![work.slot] = @ \ {f}]
         /\ NextEntry([work EXCEPT !.list = Tail(@), !.gone = @ \cup {f}])
    /\ UNCHANGED <<diskVars, mem, sysdir, orphans, journal, pending, alloc, group, jseen,
                   resizing, dangling>>

\* When the inode cannot be deleted the iteration goes on, and fails in the end.
KeepSlotInode == NextEntry([work EXCEPT !.list = Tail(@), !.err = 1])

\* The link count of the directory follows (not modelled), and the next slot.
AfterEntries ==
    IF work.err # 0
    THEN Return(1) /\ work' = NoWork
    ELSE IF work.slot = work.new
    THEN Continue("slot_map") /\ UNCHANGED work
    ELSE /\ Continue("relink")
         /\ work' = [work EXCEPT !.slot = @ - 1, !.kind = "extent_alloc"]

\* Then the block is written.  A failure ends the iteration: the blocks after it are not
\* visited.  But remove_slot_entry does not look at what ocfs2_dir_iterate returns.
RemoveSlotEntry ==
    /\ at = "clear_entries"
    /\ \/ /\ sysdir' = [sysdir EXCEPT ![work.slot] = @ \ work.gone]
          /\ IF work.list = <<>> THEN AfterEntries
             ELSE Continue("delete_inode") /\ work' = [work EXCEPT !.gone = {}]
          /\ UNCHANGED dangling
       \/ /\ work.gone # {}
          /\ dangling' = dangling \cup {<<work.slot, f>> : f \in work.gone}
          /\ AfterEntries
          /\ UNCHANGED sysdir
    /\ UNCHANGED <<diskVars, mem, sysinode, orphans, journal, pending, alloc, group, jseen,
                   resizing>>

-----------------------------------------------------------------------------
(* The end of update_slot_count.                                           *)

FormatSlotMap ==
    /\ at = "slot_map"
    /\ WriteSlotMap
    /\ Continue(IF work.new < work.old THEN "clear_removal" ELSE "slot_super")
    /\ UNCHANGED <<super, backup, bm, gd, mem, work, slotVars, jseen>>

ClearRemoval ==
    /\ at = "clear_removal"
    /\ ClearInProgress("remove_slot")
    /\ Continue("slot_super")
    /\ UNCHANGED <<backup, smap, bm, gd, work, slotVars, jseen>>

WriteSlotCount ==
    /\ at = "slot_super"
    /\ WriteSuper(mem)
    /\ UNCHANGED <<backup, smap, bm, gd, slotVars, jseen>>

SlotStep ==
    \/ AddSystemFile \/ ExpandDir \/ InitDir \/ LinkFile
    \/ ResizeJournal \/ ExtendJournal \/ InsertExtent \/ ShrinkJournal \/ CutExtents
    \/ WriteJournalSize \/ ZeroJournal \/ FormatJournal
    \/ MarkRemoval \/ RelinkSystemAlloc \/ MoveChainRec \/ ChangeSubAllocSlot
    \/ MoveGroupDesc \/ MoveGroupLink
    \/ TruncateOrphanDir \/ CutOrphanDir \/ EmptyAndTruncateJournal
    \/ DropSlot \/ DeleteSlotInode \/ RemoveSlotEntry
    \/ FormatSlotMap \/ ClearRemoval \/ WriteSlotCount
=============================================================================
