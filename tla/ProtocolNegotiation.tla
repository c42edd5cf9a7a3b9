------------------------ MODULE ProtocolNegotiation ------------------------
(***************************************************************************)
(* How the daemons of a cluster agree on the protocols they run: the       *)
(* start-up and the end of ocfs2_controld (main.c), with the checkpoints   *)
(* they go through (ckpt.c).                                               *)
(*                                                                         *)
(* A daemon creates a checkpoint for its node, joins the group "controld", *)
(* and then installs the global checkpoint if it is the group's only       *)
(* member, or reads it.  A checkpoint exists while anybody has it open;    *)
(* AIS closes the handles of a process that is gone "in a lazy fashion".   *)
(***************************************************************************)
EXTENDS Integers, Sequences, FiniteSets

CONSTANTS
  Nodes,
  DaemonProtos,   \* protocols daemons may have been built with
  FsProtos,       \* protocols kernels may support
  MaxStarts,      \* bound: how often a daemon is started
  MayDie,         \* may a daemon be killed
  MayStop         \* may a daemon end itself

Byte == 0..255
Version == Byte \X Byte      \* <<pv_major, pv_minor>>

ASSUME ProtocolAssumption ==
  /\ DaemonProtos \subseteq Version /\ FsProtos \subseteq Version
  /\ DaemonProtos # {} /\ FsProtos # {}
  /\ IsFiniteSet(Nodes) /\ MaxStarts \in Nat
  /\ MayDie \in BOOLEAN /\ MayStop \in BOOLEAN

VARIABLES
  pc,          \* where each node's daemon is
  max,         \* daemon_max_proto and fs_max_proto of each daemon
  run,         \* daemon_running_proto and fs_running_proto
  seen,        \* read_global_checkpoint() opened the checkpoint once
  group,       \* CPG: the members of controld
  node_ckpt,   \* the node's checkpoint: "none", "open" or "left"
  open,        \* daemons that have the global checkpoint open
  left,        \* nodes whose handle on it AIS has still to close
  section,     \* the sections of the global checkpoint
  starts       \* how often a daemon was started

vars == <<pc, max, run, seen, group, node_ckpt, open, left, section, starts>>

Sections == {"daemon_protocol", "fs_protocol"}
Missing == <<>>

(* proto_version_to_checkpoint(): "%02x %02x", and a NUL that is counted.  *)
(* A hex digit is its value; the separator and the NUL are 32 and 0 after  *)
(* the digits.                                                             *)
proto_version_to_checkpoint(v) ==
  <<v[1] \div 16, v[1] % 16, 32, v[2] \div 16, v[2] % 16, 0>>

(* checkpoint_to_proto_version() for data of that form.                    *)
checkpoint_to_proto_version(d) == <<16 * d[1] + d[2], 16 * d[4] + d[5]>>
valid(d) == Len(d) = 6 /\ d[3] = 32 /\ d[6] = 0

Digit == 0..15
Data == Digit \X Digit \X {32} \X Digit \X Digit \X {0}
Zero == [s \in Sections |-> <<0, 0>>]
NoSections == [s \in Sections |-> Missing]

Starting == {"node", "join", "install", "store_daemon", "store_fs", "open",
             "read_daemon", "read_fs"}
Places == Starting \cup {"off", "running", "leaving", "exiting"}

TypeOK ==
  /\ pc \in [Nodes -> Places]
  /\ max \in [Nodes -> [Sections -> Version]]
  /\ run \in [Nodes -> [Sections -> Version]]
  /\ seen \in [Nodes -> BOOLEAN]
  /\ group \subseteq Nodes
  /\ node_ckpt \in [Nodes -> {"none", "open", "left"}]
  /\ open \subseteq Nodes /\ left \subseteq Nodes
  /\ section \in [Sections -> Data \cup {Missing}]
  /\ starts \in 0..MaxStarts

-----------------------------------------------------------------------------
(* The global checkpoint. *)

exists == open \cup left # {}

(* It goes, with its sections, when the last handle is closed. *)
kept(o, l) == IF o \cup l = {} THEN NoSections ELSE section

goto(n, where) == pc' = [pc EXCEPT ![n] = where]

(* protocol_compatible().  (Mutant: only the major numbers are compared.) *)
protocol_compatible_major(cluster, our_max) == cluster[1] = our_max[1]

protocol_compatible(cluster, our_max) ==
  cluster[1] = our_max[1] /\ cluster[2] <= our_max[2]

-----------------------------------------------------------------------------
(* Start-up: loop() and cpg_joined(). *)

Start(n) ==
  /\ pc[n] = "off" /\ starts < MaxStarts
  /\ \E d \in DaemonProtos, f \in FsProtos :
       max' = [max EXCEPT ![n] =
                 [s \in Sections |-> IF s = "daemon_protocol" THEN d ELSE f]]
  /\ starts' = starts + 1
  /\ goto(n, "node")
  /\ UNCHANGED <<run, seen, group, node_ckpt, open, left, section>>

(* install_node_checkpoint(): call_ckpt_open() retries while the one of an *)
(* earlier daemon is there (EEXIST).                                       *)
install_node_checkpoint(n) ==
  /\ pc[n] = "node" /\ node_ckpt[n] = "none"
  /\ node_ckpt' = [node_ckpt EXCEPT ![n] = "open"]
  /\ goto(n, "join")
  /\ UNCHANGED <<max, run, seen, group, open, left, section, starts>>

(* setup_cpg(), and daemon_set_cgroup() once CPG has agreed on the join.   *)
(* (Mutant: nobody takes itself for the first.)                            *)
first_never(n) == FALSE

first(n) == group \ {n} = {}

setup_cpg(n) ==
  /\ pc[n] = "join"
  /\ group' = group \cup {n}
  /\ goto(n, IF first(n) THEN "install" ELSE "open")
  /\ UNCHANGED <<max, run, seen, node_ckpt, open, left, section, starts>>

(* install_global_checkpoint(): our maximum protocols become the running    *)
(* ones; EEXIST is retried here as well.  (Mutant: an existing checkpoint  *)
(* is taken over.)                                                         *)
OpenAnyway(n) ==
  /\ pc[n] = "install"
  /\ run' = [run EXCEPT ![n] = max[n]]
  /\ open' = open \cup {n}
  /\ goto(n, "store_daemon")
  /\ UNCHANGED <<max, seen, group, node_ckpt, left, section, starts>>

OpenToInstall(n) ==
  /\ pc[n] = "install" /\ ~exists
  /\ run' = [run EXCEPT ![n] = max[n]]
  /\ open' = open \cup {n}
  /\ goto(n, "store_daemon")
  /\ UNCHANGED <<max, seen, group, node_ckpt, left, section, starts>>

ckpt_global_store(n, s, next) ==
  /\ section' = [section EXCEPT ![s] = proto_version_to_checkpoint(run[n][s])]
  /\ goto(n, next)
  /\ UNCHANGED <<max, run, seen, group, node_ckpt, open, left, starts>>

StoreDaemon(n) ==
  pc[n] = "store_daemon" /\ ckpt_global_store(n, "daemon_protocol", "store_fs")

StoreFs(n) ==
  pc[n] = "store_fs" /\ ckpt_global_store(n, "fs_protocol", "running")

(* read_global_checkpoint().  ENOENT of the checkpoint: try again, unless  *)
(* it was seen before.                                                     *)
OpenToRead(n) ==
  /\ pc[n] = "open"
  /\ \/ /\ exists
        /\ open' = open \cup {n}
        /\ seen' = [seen EXCEPT ![n] = TRUE]
        /\ goto(n, "read_daemon")
     \/ /\ ~exists /\ seen[n]
        /\ goto(n, "leaving")
        /\ UNCHANGED <<open, seen>>
  /\ UNCHANGED <<max, run, group, node_ckpt, left, section, starts>>

(* One section of it.  ENOENT: close and try again from the start.  What   *)
(* was read is kept even if this daemon cannot run it.                     *)
ReadSection(n, s, next) ==
  \/ /\ section[s] = Missing
     /\ open' = open \ {n}
     /\ section' = kept(open \ {n}, left)
     /\ goto(n, "open")
     /\ UNCHANGED <<max, run, seen, group, node_ckpt, left, starts>>
  \/ /\ section[s] # Missing
     /\ run' = [run EXCEPT ![n][s] = checkpoint_to_proto_version(section[s])]
     /\ goto(n, IF valid(section[s]) /\ protocol_compatible(run'[n][s], max[n][s])
                THEN next ELSE "leaving")
     /\ UNCHANGED <<max, seen, group, node_ckpt, open, left, section, starts>>

ReadDaemon(n) ==
  pc[n] = "read_daemon" /\ ReadSection(n, "daemon_protocol", "read_fs")

ReadFs(n) ==
  pc[n] = "read_fs" /\ ReadSection(n, "fs_protocol", "running")

-----------------------------------------------------------------------------
(* The end: a signal, a failure of the stack, or an error in cpg_joined(). *)

shutdown_daemon(n) ==
  /\ MayStop
  /\ pc[n] \in {"install", "store_daemon", "store_fs", "open", "read_daemon",
               "read_fs", "running"}
  /\ goto(n, "leaving")
  /\ UNCHANGED <<max, run, seen, group, node_ckpt, open, left, section, starts>>

(* exit_cpg() first, the checkpoints after it. *)
exit_cpg(n) ==
  /\ pc[n] = "leaving"
  /\ group' = group \ {n}
  /\ goto(n, "exiting")
  /\ UNCHANGED <<max, run, seen, node_ckpt, open, left, section, starts>>

(* The process is gone: what it had in memory, and, once AIS gets to it,   *)
(* what it had open.                                                       *)
gone(n) ==
  /\ node_ckpt' = [node_ckpt EXCEPT ![n] = IF @ = "open" THEN "left" ELSE @]
  /\ open' = open \ {n}
  /\ left' = IF n \in open THEN left \cup {n} ELSE left
  /\ max' = [max EXCEPT ![n] = Zero] /\ run' = [run EXCEPT ![n] = Zero]
  /\ seen' = [seen EXCEPT ![n] = FALSE]
  /\ goto(n, "off")
  /\ UNCHANGED <<section, starts>>

(* drop_node_checkpoint() and exit_ckpt(), which leaves the global handle  *)
(* to AIS.                                                                 *)
exit_ckpt(n) ==
  /\ pc[n] = "exiting"
  /\ gone(n)
  /\ UNCHANGED group

(* The process is killed. *)
Die(n) ==
  /\ MayDie
  /\ pc[n] # "off"
  /\ group' = group \ {n}
  /\ gone(n)

(* AIS gets to the handles of a process that is gone. *)
CleanNode(n) ==
  /\ node_ckpt[n] = "left"
  /\ node_ckpt' = [node_ckpt EXCEPT ![n] = "none"]
  /\ UNCHANGED <<pc, max, run, seen, group, open, left, section, starts>>

CleanGlobal(n) ==
  /\ n \in left
  /\ left' = left \ {n}
  /\ section' = kept(open, left \ {n})
  /\ UNCHANGED <<pc, max, run, seen, group, node_ckpt, open, starts>>
-----------------------------------------------------------------------------
Init ==
  /\ pc = [n \in Nodes |-> "off"]
  /\ max = [n \in Nodes |-> Zero] /\ run = [n \in Nodes |-> Zero]
  /\ seen = [n \in Nodes |-> FALSE]
  /\ group = {}
  /\ node_ckpt = [n \in Nodes |-> "none"]
  /\ open = {} /\ left = {}
  /\ section = NoSections
  /\ starts = 0

Goes(n) ==
  \/ install_node_checkpoint(n) \/ setup_cpg(n)
  \/ OpenToInstall(n) \/ StoreDaemon(n) \/ StoreFs(n)
  \/ OpenToRead(n) \/ ReadDaemon(n) \/ ReadFs(n)
  \/ exit_cpg(n) \/ exit_ckpt(n)

Next == \E n \in Nodes :
          Start(n) \/ Goes(n) \/ shutdown_daemon(n) \/ Die(n)
          \/ CleanNode(n) \/ CleanGlobal(n)

Spec == Init /\ [][Next]_vars

-----------------------------------------------------------------------------
Running == {n \in Nodes : pc[n] = "running"}

(* All daemons that serve mounts run the same daemon protocol and the same *)
(* filesystem protocol, whoever installed them and whoever has died since. *)
Agreement == \A m, n \in Running : run[m] = run[n]

(* and no daemon runs a protocol it does not support.                      *)
WithinMax ==
  \A n \in Running, s \in Sections :
    run[n][s][1] = max[n][s][1] /\ run[n][s][2] <= max[n][s][2]

(* Together: the daemons implement AgreedProtocol, in which the protocols  *)
(* can only change while nobody runs.                                      *)
AbstractRun ==
  IF Running = {} THEN <<>> ELSE run[CHOOSE n \in Running : TRUE]

Abstract == INSTANCE AgreedProtocol WITH
  running <- Running, agreed <- AbstractRun,
  Protocols <- [Sections -> Version], Nobody <- <<>>

Implements == Abstract!Spec

=============================================================================
