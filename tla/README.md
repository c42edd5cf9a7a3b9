# A TLA+ model of ocfs2-tools

The tools of the OCFS2 cluster filesystem: a daemon that keeps every node's
mounts in step with the cluster's membership, the libraries and programs that
talk to it, and the programs that make, check and change a volume. This
directory models the parts whose correctness depends on the order in which
things happen or on where they are cut off, checks them with TLC on small
instances, and proves with TLAPS what holds for instances of every size.

Sections: 1 the system; 2 the modules and how they follow the code; 3 the runs,
their bounds and fairness; 4 where the code disagrees with its own comments;
5 what is proved and how; 6 what is only model-checked; 7 what is not modelled.

## 1. The system's parts

| Part | Source | State it keeps | What makes it hard | Modules |
|---|---|---|---|---|
| Mountgroups | `ocfs2_controld/mount.c`, `dlmcontrol.c` (registration) | the list `mounts`; per filesystem its services, the one in progress, the attached client | joins, registrations and leaves are asynchronous; slots and descriptors are reused | MountGroups |
| CPG groups and node-down | `ocfs2_controld/cpg.c`, `dlmcontrol.c` (notifications) | one cgroup per filesystem, `cg_nodes`, pending notifications | a death and a join of one node arrive on two connections, in no common order | CpgGroups |
| Protocol negotiation | `ocfs2_controld/main.c`, `ckpt.c` | node and global checkpoints, two protocol versions | daemons start, stop and die together and must agree | ProtocolNegotiation |
| libo2cb, user stacks; mount.ocfs2, ocfs2_hb_ctl | `libo2cb/`, `mount.ocfs2/`, `ocfs2_hb_ctl/` | a connection to the daemon | mount(2) happens between the two halves of a join | MountGroups |
| libo2cb, classic stack | `libo2cb/o2cb_abi.c` | a System V semaphore set and a configfs directory per region | processes die between any two system calls; removal races creation | RegionRefs |
| I/O cache | `libocfs2/unix_io.c` | lookup tree and LRU list of blocks | a partial write, a failed read and eviction must leave the cache equal to the disk | IoCache |
| Extents and files | `libocfs2/extend_file.c`, `extents.c`, `truncate.c`, `fileio.c`, ... | the extent tree of a file | a tree that is split, merged and rotated block by block | ExtentTree, FileTree |
| fsck.ocfs2 pass 0 | `fsck.ocfs2/pass0.c`, `fswreck/` | chains of group descriptors | one repair makes or hides the next damage; kills in between | FsckChains |
| fsck.ocfs2 slot recovery and passes 1 to 4 | `fsck.ocfs2/`, `fswreck/` | bitmaps and counts in memory against the device | a later pass relies on an earlier one; kills in between | FsckTree and the modules below it |
| tunefs.ocfs2 | `tunefs.ocfs2/`, `libocfs2/` (superblock, backups, slot map) | a superblock in memory for each of up to three nested openings, and one set of locks | any write may be the last; other nodes mount meanwhile; an operation may change what the lock depends on | Tunefs and the modules below it |

How they interact: `mount.ocfs2` calls libo2cb, which connects to
`ocfs2_controld` and sends MOUNT; the daemon joins a CPG group named after the
filesystem, registers the filesystem with `dlm_controld`, tells the client to
go ahead, and learns from MRESULT whether mount(2) worked. On the last umount(2)
the kernel runs `ocfs2_hb_ctl -K`, which sends UNMOUNT; the daemon unregisters
and leaves the group. With the classic stack there is no daemon: libo2cb starts
a heartbeat region and counts its users in a semaphore set. Tools that need the
cluster join in the same way with a service name of their own. The tools that
change a volume go through libocfs2: the I/O cache at the bottom, allocators and
extent trees above it.

## 2. The modules

A call of the code is one action unless something can come between two of its
steps (a crash, another process, a failed write); then each such step is one.
Inputs come from small sets. Where an operator needs a value several times, the
modules use `With(x, F)`, which is `F(x)` with `x` evaluated once.

### MountGroups, MountGroupsInv, MCMountGroups

One node: the daemon's mountgroups, the clients, CPG, dlm_controld, the kernel.

| Variable | In the code |
|---|---|
| `daemon` | the process: up, ended, or running on freed memory |
| `mounts` | the list `mounts`; the head is the greatest number, 0 is "not on the list" |
| `mg` | `struct mountgroup`, without strings and debug state |
| `cpg`, `orphan` | the cgroup of a mountgroup as CPG sees it; one whose `cg_user_data` is freed |
| `register_list`, `dlm_fs`, `results` | dlmcontrol.c's entry for the name; what dlm_controld has registered; its answers on the way |
| `client` | the client table, with the program at the other end of each connection |
| `kmounts`, `dismount`, `tools` | the kernel's mounts, its umount helper, and the tools that hold a service |

Each handler is one action with everything it calls: `StartMountAgain` and
`StartMountNew` are start_mount() with and without a mountgroup, `CompleteMount`
is complete_mount(), `RemoveMount` remove_mount(), `DeadClient` dead_client()
with dead_mounter(), `FinishJoin`, `CpgLeft` and `CpgDied` the callbacks through
mount_set_group(), `RegisterResult` process_dlmcontrol() with register_result().
The programs' actions follow user_begin_group_join(), user_complete_group_join()
and user_group_leave() in libo2cb and the calls around them.

Assumptions about what is outside the source: mount(2) of a filesystem waits
while the last umount(2) of it waits for its helper, and the helper is not killed
before its request has been read; dlm_controld refuses a name it has and answers
in order; group_join() fails before it has added a connection, or not at all.
`MaxOvertaken` bounds how many answers of dlm_controld for a filesystem are
unread when CPG delivers the next join of its group. Two events upset the
daemon's records, and both are steps of the model like any other: `SecondFails`,
a join beside another service that reports a failed mount, and `Overtaken`, a
join delivered before the answer to an earlier registration was read. The history
variable `mishap` remembers them; section 4 says what follows. What follows a use
of freed memory is undefined: the model stops in `daemon = "undefined"` and no
property speaks of that state.

### CpgGroups

One daemon (on node `Us`), CPG, dlm_controld on this node, and the other nodes by
what they do to the groups. CPG agrees on changes one after the other
(`members`), which reach each connection separately (`bus`, then `queue`); the
daemon polls (`Poll`), serves the ready connections in slot order (`Turn`,
`revents`) and reads one change per turn: `WeJoin`, `PeerJoined`, `PeerLeft`,
`WeLeave` are group_change() with what handle_node_join(), handle_node_leave()
and finalize_group() do, `DaemonChange` is daemon_change() with every
handle_node_down() and the notifications dlmcontrol_node_down() sends,
`NotifyResult` is notify_result().

Three orders of events make the daemon lose track of a node. They happen in the
model, and the history variable `raced` remembers that one has: `DeathInJoin` (a
member dies while a join of it, or ours, is unread), `DeathBehind` (a node is
back in a group, or we join it there, while its death is unread behind other news
of controld) and `LateAnswer` (dlm_controld sees a node back before the daemon
has read that it saw it go). Section 4 says what each does. A registration is
taken to be answered at once: `WeJoin` registers the filesystem or leaves the
group again, and MountGroups has the answers that come late. So `GroupLeave` is
the leave of a registered mountgroup.

### ProtocolNegotiation, AgreedProtocol, MCProtocolNegotiation

The start and the end of the daemons of several nodes: node checkpoint, joining
`controld`, installing or reading the global checkpoint, the two protocol
versions, retries while a name is taken. One step is one call of the checkpoint
service. AIS closes the handles of a dead process lazily and answers EEXIST for
a name that is still open. `AgreedProtocol` is what it promises: whoever runs,
runs the same versions, which change only while nobody runs.

### RegionRefs, MCRegionRefs

The classic stack on one node. A process that joins or leaves a region takes the
mutex of the region's semaphore set, looks at the number of references, creates
or removes the configfs directory, and gives the mutex back; every system call is
a step and a process may be killed before it. `Einval` lets semop() on an id
removed since semget() say EINVAL as well as EIDRM; a process that is killed
between the mkdir and the `dev` attribute leaves a region that is `"left"`: a
directory without a device; two regions may have one key, a 32-bit checksum. semget() may fail when it has to make a set; rmdir fails
only with ENOENT. `ocfs2_hb_ctl -S` follows the path of a tool's join and is not
separate.

### IoCache, BlockDevice, MCIoCache

unix_io.c: `ic_nr_blocks` buffers, an LRU list, reads and writes of several
blocks that go through the cache in hunks, with and without the cache; one
action is one system call or one iteration of a loop over blocks. A read or a
write may fail at any block or inside one, which is then `torn` on the disk; the
code rounds down to whole blocks and leaves the old block in the cache. `whole`
remembers what a torn block held before. `BlockDevice` is what a caller may rely
on: a disk without a cache, on which a failed write has done a part of its work,
and a torn block that may be read as it was before.

### ExtentTree, FileTree, PlainFile, MCFileTree

`ExtentTree` has the operations on the extent tree of a file as functions of the
state of a call: the device, the caller's inode, the error, and the device after
each write (`s.log`). `FileTree` makes each libocfs2 call on a file one action
and lets a crash leave any prefix of its writes. `PlainFile` is the promise: a
sequence of blocks that keep what was written last.

A volume has clusters of one or two blocks and, in some, other files that hold
clusters and extent blocks until they go (`OthersGo`). The object is a file, a
journal (mkjournal.c) or a directory (ocfs2_expand_dir()).

The code goes wrong in a few places. A place or a request is marked by what is
asked for and where the call passes, never by the error that comes of it, and
what follows a marked call is not judged:

| Mark | Where |
|---|---|
| `"unsynced"` | a whole extent of a leaf is marked written in a copy that is not written |
| `"one_place"` | a write into the middle of an unwritten extent, where the last leaf has one free place |
| `"emptied"` | a truncation that leaves a size, a tree with a depth and no extent |
| `"behind"` | an extension of a journal that an earlier, failed one left with more clusters than its size says |
| `"zeroed"` | zeroing up to the end of a cluster past the run at hand |
| `"in_place"` | no extent block for a duplicate: the call works in place, which only excuses a torn tree |

`NoAlarm` says what the second and the third of them lead to, and that nothing
else does. Inline data is not modelled. Block numbers wrap at `Wide`, which stands
for 2^32.

### FsckChains

Pass 0 on a volume with a global bitmap and suballocators: every check, prompt
and repair of pass0.c, with the kills between its writes and a second run. The
volumes are a good one and those chain.c and group.c of fswreck make of it,
one operator for each family of damages (`mess_up_chains`, `mess_up_sys_chains`,
`mess_up_cluster_group_desc`, ...).
Two things happen that pass 0 does not get over in one run, and two history
variables remember them: `rewalked`, a chain was moved into the place of an empty
one and walked again, and `cutoff`, a kill came after the bitmap's inode was
written with the groups found and before the missing ones were linked.

### FsckVolume, FsckInodes, FsckDups, FsckDirs, FsckTree, Fswreck

The rest of fsck. `FsckVolume` is the volume with the libocfs2 operations fsck
and fswreck use; `FsckInodes` slot recovery and pass 1; `FsckDups` passes 1b and
1d; `FsckDirs` passes 2 to 4; `Fswreck` the damages; `FsckTree` the program.
`S.d` is the device, `S.m` the program's memory, `S.m.lib` what the library has
loaded. A step is one inode, one directory block, one cluster with two owners, one
directory or one link count; within these the writes of one repair are together.
Where a repair depends on two writes they are two steps: the parts of slot
recovery (each free, then the record or bit it belongs to), the bitmaps at the end
of pass 1, and the two inodes that swap_clone() exchanges.

### TunefsVolume, TunefsSlots, TunefsResize, TunefsFeatures, Tunefs, MCTunefs

tunefs.ocfs2, write by write. An operation is a sequence of steps, one for each
write that a mount or a later run can tell from the next: `at` names the next one, `work` holds the local
variables of the function that is running, `mem` is the superblock of the
innermost opening.

| Module | Code | State |
|---|---|---|
| TunefsVolume | superblock, backups, slot map, global bitmap; in-progress marks | `super`, `backup`, `smap`, `bm`, `gd` |
| TunefsSlots | op_set_slot_count.c, op_set_journal_size.c | system files, orphan directories, journals, allocators and their groups, by slot |
| TunefsResize | op_resize_volume.c, online and offline | `rlock`, the lock of an online resize; `grown`, history: backup locations an offline resize brought in |
| TunefsFeatures | feature_*.c, op_features.c, label, uuid, clone, cluster stack | what each inode uses, directory blocks, blocks with a checksum |
| Tunefs | ocfs2ne.c, libocfs2ne.c: the command line, opening, locking, checking, running, closing | `run`, `cur`, `lvl`, `pc`, `got`, `ts`, and the nodes: `mnt`, `dirty`, `running` |

`Open`, `Lock`, `Check` and `Close` are the parts of tunefs_open() and
tunefs_close(), at level 0 for the master, 1 for an operation and 2 for a
feature; `Body` takes the next step of whatever runs inside; `Fail` makes that
step fail, `Die` ends the process, `NodeCrash` a node with its journal dirty.
`MountVolume` takes the lock that the superblock on the disk asks for at that
moment, which need not be the one the tool holds. A session is one or two
command lines, the second on whatever the first has left.

Abstractions: an inode that no entry names yet is written in one step with what
it needs, since nothing finds it (`AddSystemFile`; the entry is `LinkFile`, a step
of its own); the blocks of one log that is cleared or formatted are one step; the
groups of a chain are written before the bitmap's inode, and these are two steps
(chainalloc_write_bitmap()). A cluster comes from the first group with a free one
and the best run in it (`BestRun`). A file is the set of things that a feature cares
about (inline data, a hole, clusters past the end, unwritten ones, attributes);
files are taken in one order, as the inode scan does. Some results the code
ignores and the model ignores too: that of the iteration which clears the
entries of a slot (op_set_slot_count.c:666), and that of a feature inside
features_run(), whose `rc_error` is never set.

## 3. Runs

| Run | Instance | What it shows |
|---|---|---|
| `mounts` | one filesystem, a mount and a tool, two slots, two descriptors, two kernel mounts | `Inv` (with `TypeOK`), `MountedIsProtected`, `ToldIsProtected`, `NotifiedIsReady`, `AttachedIsRequester`; in the behaviours without the tool `RequestIsAnswered`, `BusyEnds` |
| `members` | two nodes, one group, two deaths, three unread changes | `NodesAreMembers`, `DeathIsPassedOn`, `NeverLost`, `DeadIsReported`, `NotificationEnds` |
| `agreement` | three nodes, three starts, two kernels, deaths and stops | `Agreement`, `WithinMax`, refinement of AgreedProtocol; `StartEnds` where none dies |
| `held_region` | two processes, two regions with one key, three starts, one death | `HeldIsLive`, `OneInside`, `ProcessEnds` |
| `block_cache` | three blocks, a cache and hunks of two | `CacheIsDisk`, `AssertsHold`, refinement of BlockDevice |
| `fsck_chains` | all volumes of fswreck's chain.c and group.c, `-y` and `-n`, three runs, one kill | `Repaired`, `SecondRunIsQuiet`, `MarkedAreGroups`, `PassEnds` |
| `fsck_tree` | the damages of fswreck's other files, a wrong bit of the cluster bitmap (fswreck's CLUSTER_ALLOC_BIT) and a ring of directories, on a volume of 15 inodes and 24 clusters; two `-y` runs, one kill, `-n` | `AllocatorsRepaired`, `TreeRepaired`, `QuietAfterRepair`, `YesEndsWell`, `DataKept` |
| `file_tree` | three calls on a file, a journal or a directory of four blocks, five volumes, a crash at any write | `NoAlarm`, `TreeSound`, `Accounted`, `TornKeepsFile`, refinement of PlainFile |
| `tunefs` | five volumes of up to three slots and fourteen clusters, eighteen sessions, two nodes, two stacks; any step fails, any process or node dies | `UnmarkedIsSound`, `OfflineIsExclusive`, `CompletedIsComplete`, `NothingLost` |
| `freed_mountgroup`, `stale_allocators`, `written_is_read` | see section 4 | a counterexample each |

Distinct states: `mounts` 371,656; `held_region` 140,846; `fsck_chains` 49,628;
`fsck_tree` 157,592; `file_tree` 241,650; `tunefs` 395,580.

Bounds. *mounts*: the daemon serves one message at a time and a mountgroup has
one client attached, so two connections have every race between two requests of
one mountgroup; two kernel mounts tell the last umount from another. *members*:
every property is about one group and one peer, and the daemon reads one change
at a time; three unread changes hold a leave, a join and a death at once.
*agreement*: three daemons are one that installs, one that reads and one that is
on its way out. *held_region*: a lookup, a removal and a creation need two
processes, a third start needs the set to be made anew; `MaxSets` ids are reused
only when nobody knows them. *block_cache*: the cache is smaller than a request,
so a request evicts its own blocks. *file_tree*: lists of two and three records
give trees of two levels within four blocks; the volumes that other files share
leave two, three or all extent blocks and clusters in pieces, so that a call runs
out of either in the middle. An append after a truncation that left a hole at the
end of a leaf (src/libocfs2/truncate.c:95) needs more calls than three. *fsck*:
each damage involves a handful of inodes, all of which the volume has; in
*fsck_chains* the third run is the one that must be quiet after a run that walked
a chain twice. *tunefs*: the last slot has a
chain of two groups and a second chain, which is what moving groups to other
slots can tell apart; the volume grows by a part of a group, by new groups, and
into a place of a backup superblock (`BackupAt`); `MaxSlots = 3` stands for
OCFS2_MAX_SLOTS and `MoreSlots = 4` for the limit of an extended slot map; two
directories, one with entries in the way of the trailer in both of its blocks.
A second command line is there where the first may leave the volume, the lock
domain or the stack changed: a slot is removed and added again, a journal grown
and shrunk, or grown halfway before slots are added, checksums turned on and off.
`LastEntry` says where a block of the system directory ends, since the entries
that remove_slot_iterate() clears are written block by block. Nothing bounds failures, deaths and mounts.

Fairness. The main loop polls every descriptor and serves what is ready, so each
connection is served in the end; CPG delivers, dlm_controld answers and sees
deaths, a program goes on when told, fsck takes its next step. Nothing is assumed
of deaths, signals or new requests. In *mounts* a tool that asks again and again
can keep the other client busy for ever, so liveness is stated for the
behaviours in which only the filesystem is mounted (`alone`); in *agreement* for
those in which no daemon dies (`calm`): a daemon that dies after it made the
name of the checkpoint and before it wrote it leaves the others waiting. In
*held_region* `ProcessEnds` needs that only finitely many programs start, since
a lookup begins again whenever the set was removed under it.

## 4. Where the code and its comments disagree

| Run | What TLC finds |
|---|---|
| `freed_mountgroup` | a MOUNT refused during a leave frees the mountgroup that the leave's callback will use |
| `stale_allocators` | slot recovery loads the bitmap into the library before pass 1 rewrites it, and the later passes use the old one |
| `written_is_read` | marking a whole extent of a leaf as written changes a copy of the leaf that is not written |

The code has other cases in which a promise is not kept. The models contain each
of them; the properties name the case by its cause, through a history variable or
a state, and claim the promise for all the rest:

| Case | What follows | Where it is named |
|---|---|---|
| a second service of a mountgroup reports a failed mount | its client stays attached with nothing in progress, and a later answer reaches the wrong client | `SecondFails`, `mishap` |
| a join is delivered before the answer to an earlier registration of the name | that answer is taken for the next mountgroup's | `Overtaken`, `mishap` |
| a member dies while its join, or ours, is unread | the death finds no node and the group's own report is ignored ("They will be handled at the daemon group level", src/ocfs2_controld/cpg.c:287), so the node stays in `cg_nodes` | `DeathInJoin`, `raced` |
| a node is back before its death was read | the death takes the newcomer out, or push_node() finds the dead one still listed and the daemon shuts down | `DeathBehind`, `raced` |
| dlm_controld sees a node back before its answer about the node's death was read | the answer completes the notification of a later death | `LateAnswer`, `raced` |
| a process is killed between mkdir and the `dev` attribute | the half-made region is taken for a heartbeat by the next one | region state `"left"` |
| a write fails inside a block | the cache keeps the old block ("If a block is in the cache, the same thing is on disk", src/libocfs2/unix_io.c:283, does not hold) | `torn`, `whole` |
| pass 0 moves a chain into the place of an empty one | its groups are counted twice; the next run repairs the bitmap | `rewalked` |
| fsck is killed before the missing groups of the bitmap are linked | the next run takes the smaller bitmap for the size of the volume | `cutoff` |
| a ring of directories | connect_directory() comes back to where it started and takes that for connected | damage `DIR_RING` |
| an entry whose inode no allocator covers | the directory block is left as it is, and nobody reads `dd->ret` | `m.dret` |
| the places of the extent tree listed under FileTree | an error, an assertion, lost or misplaced blocks | `odd` |
| the clearing of a slot's entries stops, unnoticed (src/tunefs.ocfs2/op_set_slot_count.c:666) | an entry of a deleted inode, which add_slots() keeps when the slot comes back | `dangling` |
| the resize of a journal is cut off | no mark announces it, and the next run leaves the journal alone if it has its clusters | `resizing` |
| an offline resize reaches a backup location | the backup is written into a cluster that is free in the bitmap, since only an online resize reserves it (src/tunefs.ocfs2/op_resize_volume.c:148); src/libocfs2/backup_super.c:69 counts on it: "If backup superblocks are enabled, we know these blocks are backups" | `grown` |
| an allocation is cut off between a group and the bitmap's inode | the count of one chain is behind its groups, without a mark | `BitmapSound` |
| the uuid is reset with another operation after it, or by `--cloned-volume` under a mount | the lock, or the mount, is in a domain the superblock no longer names | `Outdated` |

More than OCFS2_MAX_SLOTS slots: tunefs.ocfs2 allows them with an extended slot
map (src/tunefs.ocfs2/op_set_slot_count.c:67), and ocfs2_open() refuses the
volume from then on (src/libocfs2/openfs.c:410). The model has both; no property
forbids it.

## 5. What is proved

TLAPS checks every theorem below from nothing, for every value of the constants
that satisfies the named assumption of the component's module (finite sets,
natural bounds, distinct names). None switches an event off: the specification is
the one TLC checks, and where a theorem stops at a case of section 4 its statement
names the case. None needs a bound on the number of nodes, processes, filesystems,
deaths, unread messages or blocks: the bounds of the model are arbitrary naturals.

| Module | Theorem | Statement |
|---|---|---|
| MountGroupsFields | `TypeCorrect` | `Spec => []TypeOK` |
| MountGroupsSafety | `InvCorrect`, `MountsAreProtected`, `ToldAreProtected`, `NotifiedAreReady`, `AttachedAreRequesters` | the invariants of run `mounts`: nothing but the two mishaps parts the records |
| CpgProofs | `InvHolds`, `NodesFollowMembers`, `DeathsArePassedOn`, `DaemonIsNeverLost` | the invariants of run `members`: nothing but the three orders parts `cg_nodes` from the membership |
| ProtocolProofs | `DaemonsAgree`, `DaemonsWithinMax`, `DaemonsImplement` | the invariants of run `agreement`, and that the negotiation implements AgreedProtocol |
| RegionProofs | `MutexExcludes`, `HeldIsLiveAlways` | the invariants of run `held_region` |
| IoCacheProofs | `CacheIsDiskHolds`, `AssertsHoldAlways`, `CacheImplements` | the invariants of run `block_cache`, and that the cache implements BlockDevice |

The arguments, and why the properties are not inductive as they stand:

- **MountGroups.** Whether a service may go depends on what its client was told,
  on the answer dlm_controld still owes and on who is at the other end of a
  descriptor, none of which `MountedIsProtected` mentions. `Inv`
  (MountGroupsInv) says for each mountgroup how far its group, its registration
  and its client have come, and ties each program to the record it waits for.
  MountGroupsFields says what each helper of mount.c does to each field, and that
  a step concerns one filesystem (`LocalSafe`); MountGroupsSteps has the requests
  and deaths of clients, MountGroupsSafety the programs, the callbacks and the
  theorems. The step lemmas hold for every step that is not a mishap, and after
  one `mishap` is set for good; `TypeOK` holds throughout.
- **CpgGroups.** `NodesAreMembers` speaks only of the moment when everything is
  read. `CpgInv` (CpgChanges) says of each group and each peer what the unread
  changes of *both* connections will make of the peer, in whatever order they are
  read: a member is in `cg_nodes` to stay or a change that puts it there comes
  after its last death (`MemberAt`), a node that is gone has its leave or its
  death ahead (`OutsiderAt`), and no join finds its node present (`PushAt`); and,
  for our own place, how the join and the leave we asked for relate to what is
  unread (`PhaseAt`). The lemmas about one peer and two queues come first, for
  any set of members and any two queues; then one lemma for each action.
  CpgChanges has the changes CPG agrees on, CpgProofs the steps of dlm_controld
  and of the daemon. The three orders are exactly where the induction fails: the
  step lemmas assume that the step at hand is not one of them, and after one
  `raced` is set for good.
- **ProtocolNegotiation.** A daemon that serves has the global checkpoint open and
  runs what it says; nobody writes an open checkpoint but its creator, before it
  serves (`AgreeInv`). The refinement maps a daemon to its versions once it
  serves.
- **RegionRefs.** `RegionInv`: one set per key, one holder of its mutex, and the
  references of a set are never fewer than its holders, stated by an injection
  from holders to references so that no counting is needed. Who is inside finds
  the directory in the state the references say: there, with a device or left
  behind by its maker, or not there.
- **IoCache.** `CacheInv`: a buffer differs from the disk only while a write is
  being brought into the cache, and only for a block the loop has yet to come to;
  what a read has collected is on the disk. For a torn block "on the disk" reads
  "what the block held when it was last whole". Which buffer is stolen does not
  matter, so nothing is said of the order of the LRU list.

## 6. What is only model-checked

- Everything under fairness (`RequestIsAnswered`, `BusyEnds`, `DeadIsReported`,
  `NotificationEnds`, `StartEnds`, `ProcessEnds`, `PassEnds`): TLAPS does not
  prove liveness.
- tunefs.ocfs2. `OfflineIsExclusive` ends where the lock is out of date: `-U` with
  another operation goes on under the old uuid's lock, and `--cloned-volume`
  changes the uuid under a mount (`Outdated`). It leaves out the refresh of the backups, when a
  changed uuid or locking mode is already on the disk and another node may mount;
  `UnmarkedIsSound` asks the slot map for enough slots and not for its format,
  which is written before the superblock that names it. `CompletedIsComplete`
  speaks of the format, for runs in which nothing failed.
- The extent tree and fsck. Their operators walk lists, chains and trees of
  records; what such a walk computes for every input needs induction over data,
  which the provers cannot instantiate.

## 7. What is not modelled

Strings, sizes and wording of messages; debug dumps (dump_debug(),
send_mountgroups() read only); memory exhaustion; group_leave() failing, which
the code marks "what to do?" (src/ocfs2_controld/mount.c:249); inline data,
extended attributes in files (but for removing the feature) and quota; the glue to cman and pacemaker; journal
replay; mkfs.ocfs2, o2cb_ctl, debugfs.ocfs2, o2image,
mounted.ocfs2, the console and the extras. PROJECT.json lists each part with the
reason, and the hazards that no property covers.
