------------------------------- MODULE Tunefs -------------------------------
(***************************************************************************)
(* tunefs.ocfs2: one run of the tool, with the nodes that may mount the    *)
(* volume meanwhile.  The filesystem is opened up to three times, one      *)
(* inside the other: by run_operations (the master, level 0, which owns    *)
(* the locks), by the operation (level 1), and by a feature (level 2).     *)
(* Each opening reads the superblock again.                                *)
(***************************************************************************)
EXTENDS TunefsSlots, TunefsResize, TunefsFeatures

CONSTANTS
    Here, There, \* the node the tool runs on, and another one
    Session,     \* sequences of command lines, run one after the other
    Volume,      \* the volumes a run may start with
    Stack        \* the cluster stacks that may be running: "classic" or a userspace stack

VARIABLES
    run,     \* tunefs_run_list: the operations still to run
    cur,     \* the operation that is running
    off, on, \* the features that it still has to disable, and to enable
    lvl,     \* how many times the filesystem is open, less one
    pc,      \* what the tool does there: open, lock, check, run, close; or exit
    got,     \* how the opening at levels 0 and 1 went: see Special
    ts,      \* tunefs_filesystem_state
    failed,  \* whether a step ever failed
    mnt,     \* the slot and the lock domain a node has the volume mounted with
    dirty,   \* the slots whose journal is dirty
    running, \* the cluster stack that is running
    later    \* the command lines still to come

controlVars == <<run, cur, off, on, lvl, pc, got, ts, failed>>
nodeVars == <<mnt, dirty, running, later>>
vars == <<diskVars, opVars, slotVars, jseen, resizeVars, dataVars, controlVars, nodeVars>>

Node == {Here, There}
NotMounted == [slot |-> MoreSlots, domain |-> "none"]
NoOp == [name |-> "none"]
NoDomain == "none"

\* What tunefs_open returns besides success: the errors that let some operations run.
Special == {"skip", "nocluster", "online"}

\* The filesystem state before the master is open.  super is the master's superblock,
\* domain that of its dlm context, excl the device opened O_EXCL, online the mount
\* point's descriptor, allocation whether an operation that allocates was opened.
NoState == [super |-> NoCopy, domain |-> NoDomain, locked |-> FALSE, excl |-> FALSE,
            online |-> FALSE, allocation |-> FALSE]

-----------------------------------------------------------------------------
(* Operations.                                                             *)

FeatureFlags(f) == IF f = "local" THEN {} ELSE {"allocation"}

\* to_open_flags, apart from TUNEFS_FLAG_RW.  Those of the features are gathered by
\* check_supported_func.
OpFlags(op) ==
    CASE op.name = "resize" -> {"allocation", "online"}
      [] op.name \in {"slots", "journals"} -> {"allocation"}
      [] op.name = "cloned" -> {"skip"}
      [] op.name = "stack" -> {"nocluster"}
      [] op.name = "features" ->
            UNION {FeatureFlags(f) : f \in FeatureSet(op.on) \cup ReverseSet(op.off)}
      [] OTHER -> {}

\* The flags of the opening at hand.
OpenFlags ==
    CASE lvl = 0 -> UNION {OpFlags(run[i]) : i \in DOMAIN run}
      [] lvl = 1 -> OpFlags(cur)
      [] lvl = 2 -> FeatureFlags(IF off # <<>> THEN Head(off) ELSE Head(on))

-----------------------------------------------------------------------------
(* The command line: a sequence of options, each with its argument.        *)

\* The options that set or clear features, and the feature string each stands for.
FeatureOption == {"mount", "backup_super", "features"}

FeatureString(opt) ==
    CASE opt.name = "mount" ->
           IF opt.arg = "local" THEN [on |-> {"local"}, off |-> {}]
           ELSE [on |-> {}, off |-> {"local"}]
      [] opt.name = "backup_super" -> [on |-> {"backup_super"}, off |-> {}]
      [] opt.name = "features" -> [on |-> opt.on, off |-> opt.off]

\* parse_feature_strings: one operation for all of them.
ParseFeatureStrings(opts) ==
    LET strings == {FeatureString(opts[i]) :
                      i \in {j \in DOMAIN opts : opts[j].name \in FeatureOption}}
    IN IF strings = {} THEN <<>>
       ELSE <<[name |-> "features", on |-> UNION {f.on : f \in strings},
               off |-> UNION {f.off : f \in strings}]>>

\* parse_resize: -S goes to the front, so that the others have the space they need.
ParseResize(opts) == SelectSeq(opts, LAMBDA o : o.name = "resize")

\* The options with an operation of their own stay in their order.
PlainOptions(opts) == SelectSeq(opts, LAMBDA o : o.name \notin FeatureOption \cup {"resize"})

\* No option comes twice, and no feature is both asked for and refused.
IsCommand(opts) ==
    LET features == ParseFeatureStrings(opts) IN
      /\ \A i, j \in DOMAIN opts : i # j => opts[i].name # opts[j].name
      /\ \A i \in DOMAIN features : ~Conflicting(features[i].on, features[i].off)

\* parse_options: the operations to run.  After a mistake it prints the usage and exits.
ParseOptions(opts) ==
    IF IsCommand(opts)
    THEN ParseResize(opts) \o PlainOptions(opts) \o ParseFeatureStrings(opts)
    ELSE <<>>

-----------------------------------------------------------------------------
(* The locks.  Each operator is the set of what the lock function may      *)
(* return, with the state it leaves.                                       *)

Outcome(res, state) == [res |-> res, ts |-> state]

Mounted(n) == mnt[n] # NotMounted

\* tunefs_lock_local: O_EXCL keeps mount(8) on this node away, and the other way round.
LockLocal ==
    IF ts.excl THEN {Outcome("ok", ts)}
    ELSE IF ~Mounted(Here) THEN {Outcome("ok", [ts EXCEPT !.excl = TRUE])}
    ELSE {Outcome(IF "online" \in OpenFlags THEN "online" ELSE "fail", ts)}

\* A domain that is joined and whose locks are not taken.
JoinOnly(domain) == {Outcome("ok", [ts EXCEPT !.domain = domain])}

\* ocfs2_lock_down_cluster in the domain of the master: nobody who mounted the volume
\* in that domain is left.  (A child that fails shuts down its own dlm context, of
\* which it has none.)
LockDown(domain) ==
    LET state == [ts EXCEPT !.domain = domain] IN
    IF \A n \in Node : mnt[n].domain # domain
    THEN {Outcome("ok", [state EXCEPT !.locked = TRUE])}
    ELSE {Outcome(IF "online" \in OpenFlags THEN "online" ELSE "fail", state)}

StackOf(sb) == IF "userspace_stack" \in sb.feat THEN sb.stack ELSE "classic"

\* o2cb_validate_cluster_desc: the stack in the superblock is the one that is running.
ValidClusterDesc == StackOf(ts.super) = running

\* tunefs_lock_cluster.  ocfs2_initialize_dlm joins the domain that the master's
\* superblock names, if that names the stack that is running.
LockCluster ==
    IF ts.locked THEN {Outcome("ok", ts)}
    ELSE IF "skip" \in OpenFlags THEN {Outcome("skip", ts)}
    ELSE IF ts.domain # NoDomain THEN LockDown(ts.domain)
    ELSE {Outcome("fail", ts)}
         \cup IF ~ValidClusterDesc
              THEN {Outcome(IF "nocluster" \in OpenFlags THEN "nocluster" ELSE "fail", ts)}
              ELSE IF "nocluster" \in OpenFlags
              THEN {Outcome("ok", [ts EXCEPT !.domain = ts.super.uuid])}
              ELSE LockDown(ts.super.uuid)

\* tunefs_lock_filesystem trusts the superblock just read.
LockFilesystem == IF "local" \in mem.feat THEN LockLocal ELSE LockCluster

-----------------------------------------------------------------------------
(* tunefs_open and tunefs_close.                                           *)

\* The feature at hand is done with; after an error so is the rest of its loop.
FeatureDone(code) ==
    LET Rest(list) == IF code = 0 THEN Tail(list) ELSE <<>> IN
      IF off # <<>> THEN off' = Rest(off) /\ UNCHANGED on
      ELSE on' = Rest(on) /\ UNCHANGED off

\* tunefs_unlock_filesystem: the device, the cluster lock and the domain are let go, for
\* the volume may have been local when it was locked.
UnlockFilesystem == NoState

\* The state that the master's opening makes, and that the others share.
MasterState(sb) == [NoState EXCEPT !.super = sb]

\* Back to the level below, or, from the master, to run_operations.
Leave(code, state) ==
    /\ rc' = code
    /\ IF lvl = 0
       THEN /\ pc' = IF code # 0 \/ run = <<>> THEN "exit" ELSE "open"
            /\ ts' = UnlockFilesystem /\ jseen' = 0 /\ mem' = NoCopy
            /\ UNCHANGED <<lvl, at, off, on>>
       ELSE /\ lvl' = lvl - 1 /\ ts' = state
            /\ pc' = IF lvl = 1 /\ code # 0 THEN "close" ELSE "run"
            /\ IF lvl = 2 THEN at' = "features" /\ FeatureDone(code)
               ELSE at' = "idle" /\ UNCHANGED <<off, on>>
            /\ UNCHANGED <<jseen, mem>>
    /\ UNCHANGED <<diskVars, work, slotVars, resizeVars, dataVars, run, cur, got, failed, nodeVars>>

\* ocfs2_read_super: what is on disk now, whatever an outer opening has in memory.
ReadSuper == super

\* ocfs2_open: the library knows no more than MaxSlots slots, whatever the slot map.
Openable(sb) == sb.slots <= MaxSlots

\* The superblock as it is now, unless a mark says that a tunefs.ocfs2 did not finish.
Open ==
    /\ pc = "open"
    /\ IF ~Openable(ReadSuper) \/ ReadSuper.mark # {}
       THEN Leave(1, ts)
       ELSE /\ mem' = ReadSuper /\ rc' = 0 /\ pc' = "lock"
            /\ ts' = IF lvl = 0 THEN MasterState(ReadSuper) ELSE ts
            /\ UNCHANGED <<diskVars, at, work, slotVars, jseen, resizeVars, dataVars, run, cur,
                           off, on, lvl, got, failed, nodeVars>>

Lock ==
    /\ pc = "lock"
    /\ \E l \in LockFilesystem :
         IF l.res = "fail"
         THEN Leave(1, l.ts)
         ELSE /\ ts' = l.ts /\ got' = [got EXCEPT ![lvl] = l.res] /\ pc' = "check"
              /\ UNCHANGED <<diskVars, opVars, slotVars, jseen, resizeVars, dataVars, run, cur,
                             off, on, lvl, failed, nodeVars>>

\* tunefs_journal_check, once per master: every journal is there and clean, and its
\* superblock can be read.
JournalCheck ==
    jseen # 0 \/ \A s \in 0 .. mem.slots - 1 :
                   "journal" \in sysdir[s] /\ s \notin dirty /\ journal[s].super # 0

LargestJournal ==
    IF jseen # 0 THEN jseen
    ELSE IF "nocluster" \in OpenFlags THEN 0
    ELSE Max({journal[s].clusters : s \in 0 .. mem.slots - 1})

\* Where the body of an operation starts: with the step named after it.
Started ==
    /\ pc' = "run"
    /\ IF lvl = 0 THEN UNCHANGED <<at, off, on>>
       ELSE IF lvl = 1
       THEN /\ at' = cur.name
            /\ IF cur.name = "features"
               THEN /\ off' = ReverseOrder(ReverseSet(cur.off))
                    /\ on' = FeatureOrder(FeatureSet(cur.on))
               ELSE UNCHANGED <<off, on>>
       ELSE /\ at' = IF off # <<>> THEN "disable" ELSE "enable"
            /\ UNCHANGED <<off, on>>
    /\ UNCHANGED <<diskVars, mem, work, rc, slotVars, resizeVars, dataVars, run, cur, lvl, got,
                   failed, nodeVars>>

\* tunefs_open_online_descriptor, of the mount point on this node.
OpenOnlineDescriptor ==
    IF Mounted(Here)
    THEN Started /\ ts' = [ts EXCEPT !.online = TRUE] /\ UNCHANGED jseen
    ELSE Leave(1, ts)

\* Offline operations need clean journals and a sound bitmap, online ones the mount
\* point.
Check ==
    /\ pc = "check"
    /\ CASE got[lvl] = "skip" -> Started /\ UNCHANGED <<ts, jseen>>
         [] got[lvl] = "online" -> OpenOnlineDescriptor
         [] OTHER ->
              LET state == [ts EXCEPT !.allocation = @ \/ "allocation" \in OpenFlags] IN
              IF JournalCheck /\ ("allocation" \in OpenFlags => GlobalBitmapCheck)
              THEN Started /\ ts' = state /\ jseen' = LargestJournal
              ELSE Leave(1, state)

\* Only the master has the bitmap checked, if an operation may have allocated.
CloseBitmapCheck == lvl = 0 /\ ts.allocation => GlobalBitmapCheck

\* tunefs_close: only the master's releases the locks.
Close ==
    /\ pc = "close"
    /\ Leave(IF CloseBitmapCheck THEN rc ELSE 1, ts)

-----------------------------------------------------------------------------
(* run_operations and features_run.                                        *)

\* run_operation_filter: after a special error only the operations made for it.
Runnable(i) == got[0] = "ok" \/ got[0] \in OpFlags(run[i])

RunOperation ==
    /\ pc = "run" /\ lvl = 0
    /\ LET next == {i \in DOMAIN run : Runnable(i)} IN
         IF next = {}
         THEN pc' = "close" /\ UNCHANGED <<cur, run, lvl>>
         ELSE /\ cur' = run[Min(next)]
              /\ run' = [i \in 1 .. Len(run) - 1 |-> run[IF i < Min(next) THEN i ELSE i + 1]]
              /\ lvl' = 1 /\ pc' = "open"
    /\ UNCHANGED <<diskVars, opVars, slotVars, jseen, resizeVars, dataVars, off, on, got, ts,
                   failed, nodeVars>>

\* features_run: first what is to be disabled, then what is to be enabled.  rc_error
\* is never set, so the operation succeeds whatever its features did.
RunFeature ==
    /\ pc = "run" /\ lvl = 1 /\ at = "features"
    /\ IF off = <<>> /\ on = <<>>
       THEN Return(0) /\ UNCHANGED <<lvl, pc>>
       ELSE lvl' = 2 /\ pc' = "open" /\ UNCHANGED <<at, rc>>
    /\ UNCHANGED <<diskVars, mem, work, slotVars, jseen, resizeVars, dataVars, run, cur, off, on,
                   got, ts, failed, nodeVars>>

\* update_cluster_stack_run: nothing to do if the stack was the right one.
UpdateClusterStack ==
    /\ at = "stack"
    /\ \/ NothingToDo
       \/ /\ got[1] = "nocluster"
          /\ Continue("cluster_desc")
          /\ UNCHANGED <<super, mem, work>>
    /\ UNCHANGED <<backup, smap, bm, gd, dataVars>>

\* The body of an operation, up to its return.
Body ==
    /\ pc = "run" /\ lvl > 0
    /\ \/ /\ \/ cur.name = "slots" /\ UpdateSlotCount(cur.arg)
             \/ cur.name = "journals" /\ SetJournalSize(cur.arg)
             \/ SlotStep
          /\ UNCHANGED <<resizeVars, dataVars>>
       \/ /\ \/ cur.name = "resize" /\ UpdateVolumeSize(cur.arg, got[1] = "online")
             \/ ResizeStep
          /\ UNCHANGED <<slotVars, jseen, dataVars>>
       \/ /\ \/ cur.name = "label" /\ SetLabel(cur.arg)
             \/ cur.name = "uuid" /\ ResetUuid(cur.arg)
             \/ cur.name = "cloned" /\ ClonedVolume(cur.arg, cur.arg)
             \/ UpdateClusterStack
             \/ lvl = 2 /\ off # <<>> /\ DisableFeature(Head(off))
             \/ lvl = 2 /\ off = <<>> /\ EnableFeature(Head(on))
             \/ SetClusterDesc(running)
             \/ FeatureStep
          /\ UNCHANGED <<slotVars, jseen, resizeVars>>
       \/ (RefreshBackup \/ AllocatorStep) /\ UNCHANGED <<slotVars, jseen, resizeVars, dataVars>>
    /\ UNCHANGED <<controlVars, nodeVars>>

Returned ==
    /\ pc = "run" /\ at = "return"
    /\ pc' = "close"
    /\ UNCHANGED <<diskVars, opVars, slotVars, jseen, resizeVars, dataVars, run, cur, off, on, lvl,
                   got, ts, failed, nodeVars>>

\* The steps whose failure goes unnoticed model it themselves.
Unnoticed == {"clear_entries", "free_xattr_block", "online_unlock"}

InBody == pc = "run" /\ lvl > 0 /\ at \notin {"features", "return"}

\* A read, a write, a lock or an allocation in the body fails.
Fail ==
    /\ InBody /\ at \notin Unnoticed
    /\ failed' = TRUE
    /\ IF OnlineStep
       THEN Continue("online_unlock") /\ work' = [work EXCEPT !.err = 1]
       ELSE IF at = "delete_inode" THEN KeepSlotInode
       ELSE IF InAllocator /\ (work.al.undo # 0 \/ work.al.forget) THEN ForgetFailure
       ELSE Return(1) /\ work' = NoWork
    /\ UNCHANGED <<diskVars, mem, slotVars, jseen, resizeVars, dataVars, run, cur, off, on, lvl, pc,
                   got, ts, nodeVars>>

Tool == Open \/ Lock \/ Check \/ RunOperation \/ RunFeature \/ Body \/ Returned \/ Close

-----------------------------------------------------------------------------
(* What happens around the tool.                                           *)

\* The process is gone, and with it its locks.
ToolGone ==
    /\ pc' = "exit" /\ lvl' = 0 /\ at' = "idle" /\ rc' = 1 /\ failed' = TRUE
    /\ ts' = NoState /\ jseen' = 0 /\ rlock' = FALSE
    /\ mem' = NoCopy /\ work' = NoWork
    /\ run' = <<>> /\ cur' = NoOp /\ off' = <<>> /\ on' = <<>> /\ UNCHANGED <<got, grown>>

\* A signal (handle_signal closes everything and exits), a kill, a power failure.
Die ==
    /\ pc # "exit"
    /\ ToolGone
    /\ UNCHANGED <<diskVars, slotVars, dataVars, nodeVars>>

FreeSlot == {s \in 0 .. super.slots - 1 : \A n \in Node : mnt[n].slot # s}

\* A mount takes the super lock of the volume's domain, or, on a local volume, the
\* device; a mark keeps it away.  It replays the journals that were left dirty.
MountVolume(n) ==
    /\ ~Mounted(n) /\ super.mark = {} /\ FreeSlot # {}
    /\ n = Here => ~ts.excl
    /\ IF "local" \in super.feat THEN n = Here
       ELSE StackOf(super) = running /\ ~(ts.locked /\ ts.domain = super.uuid)
    /\ mnt' = [mnt EXCEPT ![n] =
                  [slot |-> Min(FreeSlot),
                   domain |-> IF "local" \in super.feat THEN "local" ELSE super.uuid]]
    /\ dirty' = {}
    /\ UNCHANGED <<diskVars, opVars, slotVars, jseen, resizeVars, dataVars, controlVars, running, later>>

\* The tool's descriptor of the mount point keeps the volume mounted.
Unmount(n) ==
    /\ Mounted(n)
    /\ ~(n = Here /\ ts.online)
    /\ mnt' = [mnt EXCEPT ![n] = NotMounted]
    /\ UNCHANGED <<diskVars, opVars, slotVars, jseen, resizeVars, dataVars, controlVars, dirty,
                   running, later>>

NodeCrash(n) ==
    /\ Mounted(n)
    /\ mnt' = [mnt EXCEPT ![n] = NotMounted]
    /\ dirty' = dirty \cup {mnt[n].slot}
    /\ IF n = Here THEN ToolGone ELSE UNCHANGED <<opVars, jseen, resizeVars, controlVars>>
    /\ UNCHANGED <<diskVars, slotVars, dataVars, running, later>>

\* The first command line, on a volume as mkfs.ocfs2 or an earlier run left it.
Init ==
    /\ \E v \in Volume :
         /\ super = v.super /\ backup = v.backup /\ smap = v.smap /\ bm = v.bm /\ gd = v.gd
         /\ sysdir = v.sysdir /\ sysinode = v.sysdir /\ orphans = v.orphans
         /\ journal = v.journal /\ pending = v.pending /\ alloc = v.alloc /\ group = v.group
         /\ file = v.file /\ dir = v.dir /\ ecc = v.ecc
    /\ mem = NoCopy /\ at = "idle" /\ work = NoWork /\ rc = 0
    /\ jseen = 0 /\ rlock = FALSE /\ grown = {} /\ resizing = {} /\ dangling = {}
    /\ \E session \in Session : run = ParseOptions(Head(session)) /\ later = Tail(session)
    /\ cur = NoOp /\ off = <<>> /\ on = <<>> /\ lvl = 0
    /\ pc = IF run = <<>> THEN "exit" ELSE "open"
    /\ got = [l \in 0 .. 2 |-> "ok"] /\ ts = NoState
    /\ failed = FALSE
    /\ mnt = [n \in Node |-> NotMounted] /\ dirty = {} /\ running \in Stack

\* The next command line of the session.
Again ==
    /\ pc = "exit" /\ later # <<>>
    /\ run' = ParseOptions(Head(later)) /\ later' = Tail(later)
    /\ pc' = IF run' = <<>> THEN "exit" ELSE "open"
    /\ cur' = NoOp /\ at' = "idle" /\ rc' = 0
    /\ got' = [l \in 0 .. 2 |-> "ok"]
    /\ UNCHANGED <<diskVars, mem, work, slotVars, jseen, resizeVars, dataVars, off, on, lvl, ts,
                   failed, mnt, dirty, running>>

Next ==
    \/ Tool
    \/ Fail
    \/ Die
    \/ \E n \in Node : MountVolume(n) \/ Unmount(n) \/ NodeCrash(n)
    \/ Again

Spec == Init /\ [][Next]_vars

-----------------------------------------------------------------------------
(* Properties.                                                             *)

\* The clusters of the files of a slot.
SlotClusters(s) == SeqSet(journal[s].ext) \cup SeqSet(orphans[s].ext)

\* A journal that a mount can use: its superblock claims no more than its extents have.
JournalUsable(s) == journal[s].super \in 1 .. Len(journal[s].ext)

\* The slots that the superblock has: all six files with valid inodes, an orphan
\* directory, a journal, room in the slot map, and clusters that nobody else may take.
\* Two things are excepted, by what caused them: a file whose entry outlived its inode
\* (dangling), because add_slots keeps a file that has an entry; and a journal whose
\* resize was cut off (resizing), because no mark announces one, and the next run leaves
\* it alone if it has its clusters already.
SlotsSound ==
    LET InService == 0 .. super.slots - 1
        Whole == InService \ resizing
    IN /\ \A s \in InService :
            /\ sysdir[s] = SlotFile
            /\ \A f \in SlotFile \ sysinode[s] : <<s, f>> \in dangling
            /\ orphans[s].ready \/ <<s, "orphan_dir">> \in dangling
       /\ \A s \in Whole :
            /\ JournalUsable(s)
            /\ \A c \in SlotClusters(s) : InUse(c)
            /\ \A t \in Whole \ {s} : SlotClusters(s) \cap SlotClusters(t) = {}
       /\ smap.slots >= super.slots

Chain == {<<k, s, c>> : k \in AllocKind, s \in 0 .. super.slots - 1, c \in 1 .. ChainCount}

\* The groups of the allocators, each with the chain it is on.
Linked ==
    UNION {{<<g, x>> : g \in SeqSet(AllocChain(x[1], x[2], x[3]))} :
              x \in {y \in Chain : y[3] \in DOMAIN alloc[y[1]][y[2]].recs}}

Reachable == {l[1] : l \in Linked}

\* Every group is on one chain of one slot, and it, its blocks and the counts of the
\* chain agree with that.
AllocatorsSound ==
    /\ Reachable = SubGroup /\ Cardinality(Linked) = Cardinality(SubGroup)
    /\ \A l \in Linked :
         LET g == l[1]
             s == l[2][2]
         IN group[g].parent = s /\ group[g].owner = s /\ group[g].chain = l[2][3]
    /\ \A k \in AllocKind, s \in 0 .. super.slots - 1 :
         LET recs == alloc[k][s].recs IN
           /\ \A c \in DOMAIN recs : recs[c].total = SubBits * Len(AllocChain(k, s, c))
           /\ alloc[k][s].total = MapThenSumSet(LAMBDA c : recs[c].total, DOMAIN recs)

\* The chains have the groups of the whole volume, and the bitmap's inode agrees with
\* itself.  Its count of free clusters may be behind the groups of one chain: they are
\* written first, and no mark says so (chainalloc_write_bitmap).
BitmapSound ==
    LET Chains == DOMAIN bm.recs IN
    /\ \A c \in Chains : ChainTotals(c)
    /\ Cardinality({c \in Chains : ~ChainIsValid(c)}) <= 1
    /\ bm.used = bm.total - MapThenSumSet(LAMBDA c : bm.recs[c].free, Chains)
    /\ super.clusters = bm.clusters
    /\ super.clusters = MapThenSumSet(LAMBDA c : bm.recs[c].total, Chains)

\* What the inodes use is in the feature set, and with metaecc every block is ready.
FeaturesSound ==
    /\ \A f \in File :
         /\ file[f].inline => "inline" \in super.feat
         /\ HasXattr(f) => "xattr" \in super.feat
         /\ ~file[f].inline /\ file[f].unwritten => "unwritten" \in super.feat
         /\ ~file[f].inline /\ file[f].hole => "sparse" \in super.feat
    /\ "metaecc" \in super.feat =>
         /\ MetaBlocks \subseteq ecc
         /\ \A d \in Dir : \A i \in 1 .. dir[d].size : dir[d].blocks[i].trailer

\* Whatever failed or died, and wherever: a volume without a mark, which the next mount
\* accepts, is one that a mount can work with.
UnmarkedIsSound ==
    super.mark = {} => SlotsSound /\ AllocatorsSound /\ BitmapSound /\ FeaturesSound

Visible(d) == UNION {dir[d].blocks[i].keep \cup dir[d].blocks[i].move : i \in 1 .. dir[d].size}

\* At no moment, marked or not, is an entry of a directory or a group of an allocator out
\* of reach: a crash leaves duplicates for fsck.ocfs2, but loses nothing.
NothingLost ==
    /\ \A d \in Dir : Visible(d) = Entry
    /\ Reachable = SubGroup

\* The lock or a mount is in a domain that the superblock no longer names: the uuid was
\* reset under the lock, or under a mount by an operation that skips the cluster.
Outdated ==
    \/ ts.locked /\ ts.domain # super.uuid
    \/ \E n \in Node : Mounted(n) /\
         mnt[n].domain # IF "local" \in super.feat THEN "local" ELSE super.uuid

\* An offline operation has the volume for itself, whatever earlier operations of the run
\* did to its locking mode and its stack; a reset of the uuid is where that ends, for
\* ts_cluster_locked then stands for a lock nobody else asks for.  (Backups are refreshed
\* last, when a change of the locking is already in the superblock.)
OfflineIsExclusive ==
    InBody /\ got[lvl] = "ok" /\ at # "refresh" /\ ~Outdated =>
      \A n \in Node : ~Mounted(n)

\* When nothing failed, the slot map, the journals (their size and their superblock) and
\* the backup superblocks are those of the superblock by the time the tool exits.  And the
\* clusters of the backups are taken: the comment of ocfs2_clear_backup_super_list, "If
\* backup superblocks are enabled, we know these blocks are backups", is wrong only of
\* those that an offline resize brought in, which reserve_backup_in_group passes over.
CompletedIsComplete ==
    pc = "exit" /\ ~failed =>
      /\ smap.extended = ("extended_slotmap" \in super.feat)
      /\ \A s \in 0 .. super.slots - 1 :
           LET j == journal[s] IN j.super = j.clusters /\ j.size = j.clusters
      /\ "backup_super" \in super.feat =>
           \A b \in BackupOffsets(super.clusters) :
             backup[b] = BackupCopy(super) /\ (InUse(b) \/ b \in grown)
=============================================================================
