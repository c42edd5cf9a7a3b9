--------------------------- MODULE ProtocolProofs ---------------------------
(***************************************************************************)
(* Proofs about ProtocolNegotiation: the daemons agree, for any number of  *)
(* nodes, of starts and of versions, and implement AgreedProtocol.         *)
(*                                                                         *)
(* The argument: a daemon that serves mounts has the global checkpoint     *)
(* open and what it runs is what the checkpoint says; what it says cannot  *)
(* change while it is open by such a daemon, for it is only written by the *)
(* daemon that created it, before that one serves.                         *)
(***************************************************************************)
EXTENDS ProtocolNegotiation, TLAPS

Storing(n) == pc[n] \in {"store_daemon", "store_fs"}

(* What daemon n runs in section s is what the checkpoint has there. *)
Follows(n, s) ==
  section[s] # Missing /\ run[n][s] = checkpoint_to_proto_version(section[s])

(* The inductive invariant. *)
HasOpen ==
  \A n \in Nodes :
    pc[n] \in {"store_daemon", "store_fs", "read_daemon", "read_fs", "running"}
      => n \in open
OneStores ==
  \A m, n \in Nodes : Storing(m) /\ (Storing(n) \/ pc[n] = "running") => m = n
Progress ==
  \A n \in Nodes :
    /\ pc[n] = "store_daemon" => section = NoSections
    /\ pc[n] = "store_fs" =>
         section["fs_protocol"] = Missing /\ Follows(n, "daemon_protocol")
    /\ pc[n] = "read_fs" => Follows(n, "daemon_protocol")
    /\ pc[n] = "running" => \A s \in Sections : Follows(n, s)
Vanishes == ~exists => section = NoSections

AgreeInv == TypeOK /\ HasOpen /\ OneStores /\ Progress /\ Vanishes

(* What proto_version_to_checkpoint() writes, checkpoint_to_proto_version() *)
(* accepts and reads back, for every pair of bytes.                        *)
LEMMA RoundTrip ==
  ASSUME NEW v \in Version
  PROVE  LET d == proto_version_to_checkpoint(v) IN
         valid(d) /\ d # Missing /\ checkpoint_to_proto_version(d) = v
<1>1. PICK a \in Byte, b \in Byte : v = <<a, b>>
  BY DEF Version
<1>2. proto_version_to_checkpoint(v) = <<a \div 16, a % 16, 32, b \div 16, b % 16, 0>>
  BY <1>1 DEF proto_version_to_checkpoint
<1>3. 16 * (a \div 16) + (a % 16) = a /\ 16 * (b \div 16) + (b % 16) = b
  BY <1>1 DEF Byte
<1> QED
  BY <1>1, <1>2, <1>3 DEF checkpoint_to_proto_version, valid, Missing

LEMMA SectionNames ==
  Sections = {"daemon_protocol", "fs_protocol"} /\ "daemon_protocol" # "fs_protocol"
BY DEF Sections

LEMMA DataVersion ==
  /\ \A d \in Data : checkpoint_to_proto_version(d) \in Version
  /\ \A v \in Version : proto_version_to_checkpoint(v) \in Data
<1>1. ASSUME NEW d \in Data PROVE checkpoint_to_proto_version(d) \in Version
  <2>1. d[1] \in Digit /\ d[2] \in Digit /\ d[4] \in Digit /\ d[5] \in Digit
    BY DEF Data
  <2> QED
    BY <2>1 DEF checkpoint_to_proto_version, Version, Byte, Digit
<1>2. ASSUME NEW v \in Version PROVE proto_version_to_checkpoint(v) \in Data
  <2>1. v[1] \in Byte /\ v[2] \in Byte
    BY DEF Version
  <2>2. \A b \in Byte : b \div 16 \in Digit /\ b % 16 \in Digit
    BY DEF Byte, Digit
  <2> QED
    BY <2>1, <2>2 DEF proto_version_to_checkpoint, Data
<1> QED
  BY <1>1, <1>2
-----------------------------------------------------------------------------
LEMMA InitAgrees == Init => AgreeInv
<1> SUFFICES ASSUME Init PROVE AgreeInv
  OBVIOUS
<1>1. Zero \in [Sections -> Version]
  BY DEF Zero, Version, Byte
<1>2. NoSections \in [Sections -> Data \cup {Missing}]
  BY DEF NoSections
<1>3. TypeOK
  <2>1. pc \in [Nodes -> Places] /\ node_ckpt \in [Nodes -> {"none", "open", "left"}]
    BY DEF Init, Places
  <2> QED
    BY <1>1, <1>2, <2>1, ProtocolAssumption DEF Init, TypeOK
<1> QED
  BY <1>3 DEF Init, AgreeInv, HasOpen, OneStores, Progress, Vanishes, Storing

LEMMA TypeStep == TypeOK /\ [Next]_vars => TypeOK'
<1> SUFFICES ASSUME TypeOK, [Next]_vars PROVE TypeOK'
  OBVIOUS
<1>0. Zero \in [Sections -> Version] /\ NoSections \in [Sections -> Data \cup {Missing}]
  BY DEF Zero, Version, Byte, NoSections
<1>1. CASE UNCHANGED vars
  BY <1>1 DEF TypeOK, vars
<1>2. ASSUME NEW n \in Nodes, NEW p \in Places, goto(n, p)
      PROVE  pc' \in [Nodes -> Places]
  BY <1>2 DEF goto, TypeOK
<1>3. ASSUME NEW n \in Nodes, Start(n) PROVE TypeOK'
  <2>1. PICK d \in DaemonProtos, f \in FsProtos :
          max' = [max EXCEPT ![n] =
                    [s \in Sections |-> IF s = "daemon_protocol" THEN d ELSE f]]
    BY <1>3 DEF Start
  <2>2. d \in Version /\ f \in Version
    BY <2>1, ProtocolAssumption
  <2>3. max' \in [Nodes -> [Sections -> Version]]
    BY <2>1, <2>2 DEF TypeOK
  <2>4. pc' \in [Nodes -> Places]
    BY <1>2, <1>3 DEF Start, Places, Starting
  <2> QED
    BY <1>3, <2>3, <2>4, ProtocolAssumption DEF Start, TypeOK
<1>4. ASSUME NEW n \in Nodes,
             \/ install_node_checkpoint(n) \/ setup_cpg(n) \/ OpenToInstall(n)
             \/ OpenToRead(n) \/ shutdown_daemon(n) \/ exit_cpg(n)
      PROVE  TypeOK'
  <2>1. pc' \in [Nodes -> Places]
    BY <1>2, <1>4 DEF install_node_checkpoint, setup_cpg, OpenToInstall, OpenToRead,
       shutdown_daemon, exit_cpg, Places, Starting
  <2>2. CASE install_node_checkpoint(n) \/ setup_cpg(n)
    BY <2>1, <2>2 DEF install_node_checkpoint, setup_cpg, TypeOK
  <2>3. CASE OpenToInstall(n)
    BY <2>1, <2>3 DEF OpenToInstall, TypeOK
  <2>4. CASE OpenToRead(n)
    BY Zenon, <2>1, <2>4 DEF OpenToRead, TypeOK
  <2>5. CASE shutdown_daemon(n) \/ exit_cpg(n)
    BY <2>1, <2>5 DEF shutdown_daemon, exit_cpg, TypeOK
  <2> QED
    BY <1>4, <2>2, <2>3, <2>4, <2>5
<1>5. ASSUME NEW n \in Nodes, NEW s \in Sections, NEW p \in Places,
             ckpt_global_store(n, s, p)
      PROVE  TypeOK'
  <2>1. proto_version_to_checkpoint(run[n][s]) \in Data
    BY DataVersion DEF TypeOK
  <2> QED
    BY <1>2, <1>5, <2>1 DEF ckpt_global_store, TypeOK
<1>6. ASSUME NEW n \in Nodes, NEW s \in Sections, NEW p \in Places,
             ReadSection(n, s, p)
      PROVE  TypeOK'
  <2>1. "open" \in Places /\ "leaving" \in Places
    BY DEF Places, Starting
  <2>2. CASE section[s] = Missing
    <3>1. section' \in [Sections -> Data \cup {Missing}]
      BY <1>0, <1>6, <2>2 DEF ReadSection, kept, TypeOK
    <3> QED
      BY Zenon, <1>2, <1>6, <2>1, <2>2, <3>1 DEF ReadSection, TypeOK
  <2>3. CASE section[s] # Missing
    <3>1. checkpoint_to_proto_version(section[s]) \in Version
      BY <2>3, DataVersion DEF TypeOK
    <3>2. pc' \in [Nodes -> Places]
      BY <1>2, <1>6, <2>1, <2>3 DEF ReadSection
    <3>3. run' = [run EXCEPT ![n][s] = checkpoint_to_proto_version(section[s])]
          /\ UNCHANGED <<max, seen, group, node_ckpt, open, left, section, starts>>
      BY <1>6, <2>3 DEF ReadSection
    <3>4. run' \in [Nodes -> [Sections -> Version]]
      BY <3>1, <3>3 DEF TypeOK
    <3> QED
      BY <3>2, <3>3, <3>4 DEF TypeOK
  <2> QED
    BY <2>2, <2>3
<1>7. ASSUME NEW n \in Nodes,
             StoreDaemon(n) \/ StoreFs(n) \/ ReadDaemon(n) \/ ReadFs(n)
      PROVE  TypeOK'
  BY <1>5, <1>6, <1>7, SectionNames
     DEF StoreDaemon, StoreFs, ReadDaemon, ReadFs, Places, Starting
<1>8. ASSUME NEW n \in Nodes, exit_ckpt(n) \/ Die(n) PROVE TypeOK'
  <2>1. gone(n) /\ group' \subseteq Nodes
    BY <1>8 DEF exit_ckpt, Die, TypeOK
  <2>2. pc' \in [Nodes -> Places]
    BY <1>2, <2>1 DEF gone, Places
  <2> QED
    BY Zenon, <1>0, <2>1, <2>2 DEF gone, TypeOK
<1>9. ASSUME NEW n \in Nodes, CleanNode(n) \/ CleanGlobal(n) PROVE TypeOK'
  <2>1. section' \in [Sections -> Data \cup {Missing}]
    BY <1>0, <1>9 DEF CleanNode, CleanGlobal, kept, TypeOK
  <2> QED
    BY <1>9, <2>1 DEF CleanNode, CleanGlobal, TypeOK
<1> QED
  BY <1>1, <1>3, <1>4, <1>7, <1>8, <1>9 DEF Next, Goes

-----------------------------------------------------------------------------
(* The steps of one daemon that neither write the checkpoint nor touch what *)
(* the daemon runs leave the invariant alone, wherever they go.            *)
LEMMA QuietStep ==
  ASSUME AgreeInv, NEW n \in Nodes, NEW p \in Places,
         goto(n, p), UNCHANGED <<run, open, left, section>>,
         p \notin {"store_daemon", "store_fs", "read_daemon", "read_fs", "running"}
  PROVE  HasOpen' /\ OneStores' /\ Progress' /\ Vanishes'
<1>1. \A m \in Nodes : pc'[m] = pc[m] \/ pc'[m] = p
  BY DEF goto, AgreeInv, TypeOK
<1>2. HasOpen'
  BY <1>1 DEF AgreeInv, HasOpen
<1>3. OneStores'
  BY <1>1 DEF AgreeInv, OneStores, Storing
<1>4. Progress'
  BY <1>1 DEF AgreeInv, Progress, Follows
<1>5. Vanishes'
  BY DEF AgreeInv, Vanishes, exists
<1> QED
  BY <1>2, <1>3, <1>4, <1>5

LEMMA InstallStep ==
  ASSUME AgreeInv, NEW n \in Nodes, OpenToInstall(n)
  PROVE  HasOpen' /\ OneStores' /\ Progress' /\ Vanishes'
<1>1. /\ \A m \in Nodes : m # n => pc'[m] = pc[m]
      /\ pc'[n] = "store_daemon" /\ n \in open' /\ section' = section
  BY DEF OpenToInstall, goto, AgreeInv, TypeOK
<1>2. open = {} /\ section = NoSections
  BY DEF OpenToInstall, exists, AgreeInv, Vanishes
<1>3. \A m \in Nodes : m # n =>
        pc'[m] \notin {"store_daemon", "store_fs", "read_daemon", "read_fs", "running"}
  BY <1>1, <1>2 DEF AgreeInv, HasOpen
<1>4. HasOpen'
  BY <1>1, <1>3 DEF HasOpen
<1>5. OneStores'
  BY <1>1, <1>3 DEF OneStores, Storing
<1>6. Progress'
  BY <1>1, <1>2, <1>3 DEF Progress
<1>7. Vanishes'
  BY <1>1 DEF Vanishes, exists
<1> QED
  BY <1>4, <1>5, <1>6, <1>7

LEMMA StoreDaemonStep ==
  ASSUME AgreeInv, NEW n \in Nodes, StoreDaemon(n)
  PROVE  HasOpen' /\ OneStores' /\ Progress' /\ Vanishes'
<1>1. /\ \A m \in Nodes : m # n => pc'[m] = pc[m]
      /\ pc[n] = "store_daemon" /\ pc'[n] = "store_fs"
      /\ open' = open /\ left' = left /\ run' = run
  BY DEF StoreDaemon, ckpt_global_store, goto, AgreeInv, TypeOK
<1>2. section = NoSections /\ n \in open
  BY <1>1 DEF AgreeInv, HasOpen, Progress
<1>3. \A m \in Nodes : m # n =>
        pc'[m] \notin {"store_daemon", "store_fs", "read_fs", "running"}
  <2>1. \A m \in Nodes : pc[m] # "read_fs"
    BY <1>2, SectionNames DEF AgreeInv, Progress, Follows, NoSections
  <2> QED
    BY <1>1, <2>1 DEF AgreeInv, OneStores, Storing
<1>4. HasOpen'
  BY <1>1, <1>2 DEF AgreeInv, HasOpen
<1>5. OneStores'
  BY <1>1, <1>3 DEF OneStores, Storing
<1>6. section'["fs_protocol"] = Missing
      /\ section'["daemon_protocol"] = proto_version_to_checkpoint(run[n]["daemon_protocol"])
  BY <1>2, SectionNames DEF StoreDaemon, ckpt_global_store, NoSections
<1>7. Follows(n, "daemon_protocol")'
  <2>1. run[n]["daemon_protocol"] \in Version
    BY SectionNames DEF AgreeInv, TypeOK
  <2> QED
    BY <1>1, <1>6, <2>1, RoundTrip DEF Follows
<1>8. Progress'
  BY <1>1, <1>3, <1>6, <1>7 DEF Progress
<1>9. Vanishes'
  BY <1>1, <1>2 DEF Vanishes, exists
<1> QED
  BY <1>4, <1>5, <1>8, <1>9

LEMMA StoreFsStep ==
  ASSUME AgreeInv, NEW n \in Nodes, StoreFs(n)
  PROVE  HasOpen' /\ OneStores' /\ Progress' /\ Vanishes'
<1>1. /\ \A m \in Nodes : m # n => pc'[m] = pc[m]
      /\ pc[n] = "store_fs" /\ pc'[n] = "running"
      /\ open' = open /\ left' = left /\ run' = run
  BY DEF StoreFs, ckpt_global_store, goto, AgreeInv, TypeOK
<1>2. n \in open /\ Follows(n, "daemon_protocol")
  BY <1>1 DEF AgreeInv, HasOpen, Progress
<1>3. \A m \in Nodes : m # n =>
        pc'[m] \notin {"store_daemon", "store_fs", "running"}
  BY <1>1 DEF AgreeInv, OneStores, Storing
<1>4. HasOpen'
  BY <1>1, <1>2 DEF AgreeInv, HasOpen
<1>5. OneStores'
  BY <1>1, <1>3 DEF OneStores, Storing
<1>6. section'["daemon_protocol"] = section["daemon_protocol"]
      /\ section'["fs_protocol"] = proto_version_to_checkpoint(run[n]["fs_protocol"])
  BY SectionNames DEF StoreFs, ckpt_global_store, AgreeInv, TypeOK
<1>7. Follows(n, "fs_protocol")'
  <2>1. run[n]["fs_protocol"] \in Version
    BY SectionNames DEF AgreeInv, TypeOK
  <2> QED
    BY <1>1, <1>6, <2>1, RoundTrip DEF Follows
<1>8. \A m \in Nodes : Follows(m, "daemon_protocol") => Follows(m, "daemon_protocol")'
  BY <1>1, <1>6 DEF Follows
<1>9. \A s \in Sections : Follows(n, s)'
  BY <1>2, <1>7, <1>8, SectionNames
<1>10. Progress'
  <2>1. ASSUME NEW m \in Nodes, pc'[m] = "read_fs" PROVE Follows(m, "daemon_protocol")'
    BY <1>1, <1>8, <2>1 DEF AgreeInv, Progress
  <2> QED
    BY <1>1, <1>3, <1>9, <2>1 DEF Progress
<1>11. Vanishes'
  BY <1>1, <1>2 DEF Vanishes, exists
<1> QED
  BY <1>4, <1>5, <1>10, <1>11

(* A handle is closed: the checkpoint stays as it is, or nobody has it.    *)
LEMMA CloseStep ==
  ASSUME AgreeInv, NEW n \in Nodes, run' = run,
         \/ pc' = pc /\ open' = open
         \/ goto(n, "open") /\ open' = open \ {n},
         section' = kept(open', left')
  PROVE  HasOpen' /\ OneStores' /\ Progress' /\ Vanishes'
<1>1. \A m \in Nodes : pc'[m] = pc[m] \/ (m = n /\ pc'[m] = "open")
  BY DEF goto, AgreeInv, TypeOK
<1>2. \A m \in Nodes : pc'[m] # "open" /\ m \in open => m \in open'
  <2>1. CASE pc' = pc /\ open' = open
    BY <2>1
  <2>2. CASE goto(n, "open") /\ open' = open \ {n}
    BY <2>2 DEF goto, AgreeInv, TypeOK
  <2> QED
    BY <2>1, <2>2
<1>3. HasOpen'
  BY <1>1, <1>2 DEF AgreeInv, HasOpen
<1>4. OneStores'
  BY <1>1 DEF AgreeInv, OneStores, Storing
<1>5. Vanishes'
  BY DEF Vanishes, exists, kept
<1>6. CASE open' \cup left' = {}
  <2>1. \A m \in Nodes :
          pc'[m] \notin {"store_daemon", "store_fs", "read_daemon", "read_fs", "running"}
    BY <1>3, <1>6 DEF HasOpen
  <2>2. Progress'
    BY <2>1 DEF Progress
  <2> QED
    BY <1>3, <1>4, <1>5, <2>2
<1>7. CASE open' \cup left' # {}
  <2>1. section' = section
    BY <1>7 DEF kept
  <2>2. Progress'
    BY <1>1, <2>1 DEF AgreeInv, Progress, Follows
  <2> QED
    BY <1>3, <1>4, <1>5, <2>2
<1> QED
  BY <1>6, <1>7

LEMMA ReadStep ==
  ASSUME AgreeInv, NEW n \in Nodes, ReadDaemon(n) \/ ReadFs(n)
  PROVE  HasOpen' /\ OneStores' /\ Progress' /\ Vanishes'
<1>1. PICK s \in Sections, next \in {"read_fs", "running"} :
        /\ ReadSection(n, s, next) /\ n \in open
        /\ \/ s = "daemon_protocol" /\ next = "read_fs"
           \/ s = "fs_protocol" /\ next = "running" /\ Follows(n, "daemon_protocol")
  <2>1. CASE ReadDaemon(n)
    BY <2>1, SectionNames DEF ReadDaemon, AgreeInv, HasOpen
  <2>2. CASE ReadFs(n)
    BY <2>2, SectionNames DEF ReadFs, AgreeInv, HasOpen, Progress
  <2> QED
    BY <2>1, <2>2
<1>2. CASE section[s] = Missing
  BY <1>1, <1>2, CloseStep DEF ReadSection
<1>3. CASE section[s] # Missing
  <2>1. /\ \A m \in Nodes : m # n => pc'[m] = pc[m] /\ run'[m] = run[m]
        /\ pc'[n] \in {next, "leaving"}
        /\ open' = open /\ left' = left /\ section' = section
    BY <1>1, <1>3 DEF ReadSection, goto, AgreeInv, TypeOK
  <2>2. Follows(n, s)' /\ \A r \in Sections : r # s => run'[n][r] = run[n][r]
    BY <1>1, <1>3, <2>1 DEF ReadSection, Follows, AgreeInv, TypeOK
  <2>3. \A m \in Nodes : pc[m] # "store_daemon"
    BY <1>3 DEF AgreeInv, Progress, NoSections
  <2>4. s = "fs_protocol" => \A m \in Nodes : pc[m] # "store_fs"
    BY <1>3 DEF AgreeInv, Progress
  <2>5. HasOpen'
    BY <1>1, <2>1 DEF AgreeInv, HasOpen
  <2>6. OneStores'
    BY <1>1, <2>1, <2>3, <2>4 DEF AgreeInv, OneStores, Storing
  <2>7. pc'[n] = "read_fs" => Follows(n, "daemon_protocol")'
    BY <1>1, <2>1, <2>2
  <2>8. pc'[n] = "running" => \A r \in Sections : Follows(n, r)'
    BY <1>1, <2>1, <2>2, SectionNames DEF Follows
  <2>9. \A m \in Nodes, r \in Sections : m # n /\ Follows(m, r) => Follows(m, r)'
    BY <2>1 DEF Follows
  <2>10. pc'[n] \notin {"store_daemon", "store_fs"}
    BY <2>1
  <2>11. Progress'
    BY <2>1, <2>7, <2>8, <2>9, <2>10, SectionNames DEF AgreeInv, Progress
  <2>12. Vanishes'
    BY <2>1 DEF AgreeInv, Vanishes, exists
  <2> QED
    BY <2>5, <2>6, <2>11, <2>12
<1> QED
  BY <1>2, <1>3

LEMMA OpenStep ==
  ASSUME AgreeInv, NEW n \in Nodes, OpenToRead(n)
  PROVE  HasOpen' /\ OneStores' /\ Progress' /\ Vanishes'
<1>1. CASE exists /\ goto(n, "read_daemon") /\ open' = open \cup {n}
  <2>1. /\ \A m \in Nodes : m # n => pc'[m] = pc[m]
        /\ pc'[n] = "read_daemon"
        /\ run' = run /\ left' = left /\ section' = section
    BY <1>1 DEF OpenToRead, goto, AgreeInv, TypeOK
  <2>2. HasOpen'
    BY <1>1, <2>1 DEF AgreeInv, HasOpen
  <2>3. OneStores'
    BY <2>1 DEF AgreeInv, OneStores, Storing
  <2>4. Progress'
    BY <2>1 DEF AgreeInv, Progress, Follows
  <2>5. Vanishes'
    BY <1>1 DEF Vanishes, exists
  <2> QED
    BY <2>2, <2>3, <2>4, <2>5
<1>2. CASE goto(n, "leaving") /\ open' = open
  BY <1>2, QuietStep DEF OpenToRead, Places
<1> QED
  BY <1>1, <1>2 DEF OpenToRead

(* The end of a daemon leaves its handle, and so the checkpoint, to AIS.   *)
LEMMA GoneStep ==
  ASSUME AgreeInv, NEW n \in Nodes, gone(n)
  PROVE  HasOpen' /\ OneStores' /\ Progress' /\ Vanishes'
<1>1. /\ \A m \in Nodes : m # n => pc'[m] = pc[m] /\ run'[m] = run[m]
      /\ pc'[n] = "off" /\ open' = open \ {n} /\ section' = section
  BY DEF gone, goto, AgreeInv, TypeOK
<1>2. HasOpen'
  BY <1>1 DEF AgreeInv, HasOpen
<1>3. OneStores'
  BY <1>1 DEF AgreeInv, OneStores, Storing
<1>4. Progress'
  BY <1>1 DEF AgreeInv, Progress, Follows
<1>5. Vanishes'
  BY <1>1 DEF AgreeInv, Vanishes, exists, gone
<1> QED
  BY <1>2, <1>3, <1>4, <1>5

LEMMA AgreeStep == AgreeInv /\ [Next]_vars => AgreeInv'
<1> SUFFICES ASSUME AgreeInv, [Next]_vars
             PROVE  HasOpen' /\ OneStores' /\ Progress' /\ Vanishes'
  BY TypeStep DEF AgreeInv
<1>1. CASE UNCHANGED vars
  <2>1. pc' = pc /\ run' = run /\ open' = open /\ left' = left /\ section' = section
    BY <1>1 DEF vars
  <2> QED
    BY <2>1 DEF AgreeInv, HasOpen, OneStores, Progress, Vanishes, Storing, Follows, exists
<1>2. ASSUME NEW n \in Nodes,
             \/ Start(n) \/ install_node_checkpoint(n) \/ setup_cpg(n)
             \/ shutdown_daemon(n) \/ exit_cpg(n)
      PROVE  HasOpen' /\ OneStores' /\ Progress' /\ Vanishes'
  <2>1. PICK p \in {"node", "join", "install", "open", "leaving", "exiting"} : goto(n, p)
    BY <1>2 DEF Start, install_node_checkpoint, setup_cpg, shutdown_daemon, exit_cpg
  <2>2. UNCHANGED <<run, open, left, section>>
    BY <1>2 DEF Start, install_node_checkpoint, setup_cpg, shutdown_daemon, exit_cpg
  <2>3. p \in Places
        /\ p \notin {"store_daemon", "store_fs", "read_daemon", "read_fs", "running"}
    BY <2>1 DEF Places, Starting
  <2> QED
    BY <2>1, <2>2, <2>3, QuietStep
<1>3. ASSUME NEW n \in Nodes, exit_ckpt(n) \/ Die(n)
      PROVE  HasOpen' /\ OneStores' /\ Progress' /\ Vanishes'
  BY <1>3, GoneStep DEF exit_ckpt, Die
<1>4. ASSUME NEW n \in Nodes, CleanNode(n)
      PROVE  HasOpen' /\ OneStores' /\ Progress' /\ Vanishes'
  <2>1. pc' = pc /\ run' = run /\ open' = open /\ left' = left /\ section' = section
    BY <1>4 DEF CleanNode
  <2> QED
    BY <2>1 DEF AgreeInv, HasOpen, OneStores, Progress, Vanishes, Storing, Follows, exists
<1>5. ASSUME NEW n \in Nodes, CleanGlobal(n)
      PROVE  HasOpen' /\ OneStores' /\ Progress' /\ Vanishes'
  <2>1. pc' = pc /\ run' = run /\ open' = open /\ section' = kept(open', left')
    BY <1>5 DEF CleanGlobal
  <2> QED
    BY <2>1, CloseStep
<1> QED
  BY <1>1, <1>2, <1>3, <1>4, <1>5, InstallStep, StoreDaemonStep, StoreFsStep,
     OpenStep, ReadStep DEF Next, Goes
-----------------------------------------------------------------------------
LEMMA InvAgrees == AgreeInv => Agreement
<1> SUFFICES ASSUME AgreeInv, NEW m \in Running, NEW n \in Running
             PROVE  run[m] = run[n]
  BY DEF Agreement
<1>1. m \in Nodes /\ n \in Nodes /\ pc[m] = "running" /\ pc[n] = "running"
  BY DEF Running
<1>2. \A s \in Sections : run[m][s] = run[n][s]
  BY <1>1 DEF AgreeInv, Progress, Follows
<1>3. run[m] \in [Sections -> Version] /\ run[n] \in [Sections -> Version]
  BY <1>1 DEF AgreeInv, TypeOK
<1> QED
  BY <1>2, <1>3

(* The invariant of the negotiation holds of every execution: a daemon     *)
(* that stores, reads or serves has the global checkpoint open, only one   *)
(* stores and nobody serves beside it, and what has been stored or read is *)
(* what the checkpoint says.                                               *)
THEOREM NegotiationInvariant == Spec => []AgreeInv
<1>1. Init => AgreeInv
  BY InitAgrees
<1>2. AgreeInv /\ [Next]_vars => AgreeInv'
  BY AgreeStep
<1> QED
  BY <1>1, <1>2, PTL DEF Spec

(* The daemons' protocol fields keep their types: what                     *)
(* checkpoint_to_proto_version() reads is a pair of bytes.                 *)
THEOREM NegotiationTypes == Spec => []TypeOK
<1>1. AgreeInv => TypeOK
  BY DEF AgreeInv
<1> QED
  BY <1>1, NegotiationInvariant, PTL

(* All daemons past cpg_joined() run the same protocols, for any number of *)
(* nodes and starts and whichever daemons are killed meanwhile.            *)
THEOREM DaemonsAgree == Spec => []Agreement
BY NegotiationInvariant, InvAgrees, PTL
-----------------------------------------------------------------------------
(* The refinement.  Whoever runs, the abstract protocols are what it runs. *)
LEMMA AbstractIs ==
  ASSUME AgreeInv, NEW n \in Running
  PROVE  AbstractRun = run[n]
<1>1. (CHOOSE m \in Running : TRUE) \in Running
  OBVIOUS
<1> QED
  BY <1>1, InvAgrees DEF AbstractRun, Agreement

LEMMA AbstractIsNext ==
  ASSUME AgreeInv, [Next]_vars, NEW n \in Running'
  PROVE  AbstractRun' = run'[n]
<1>1. Agreement'
  BY AgreeStep, InvAgrees, PTL
<1>2. (CHOOSE m \in Running' : TRUE) \in Running'
  OBVIOUS
<1> QED
  BY <1>1, <1>2 DEF AbstractRun, Agreement

(* A step under which nobody starts or stops running is a stutter. *)
LEMMA RefineStutter ==
  ASSUME AgreeInv, [Next]_vars,
         Running' = Running, \A n \in Running : run'[n] = run[n]
  PROVE  UNCHANGED <<Running, AbstractRun>>
<1>1. CASE Running = {}
  BY <1>1 DEF AbstractRun
<1>2. CASE Running # {}
  <2>1. PICK n : n \in Running
    BY <1>2
  <2>2. AbstractRun = run[n] /\ AbstractRun' = run'[n]
    BY <2>1, AbstractIs, AbstractIsNext
  <2> QED
    BY <2>1, <2>2
<1> QED
  BY <1>1, <1>2

LEMMA RefineRun ==
  ASSUME AgreeInv, [Next]_vars, NEW n \in Nodes, n \notin Running,
         Running' = Running \cup {n}, \A m \in Running : run'[m] = run[m]
  PROVE  Abstract!Run(n)
<1>1. CASE Running = {}
  <2>1. run'[n] \in [Sections -> Version]
    BY AgreeStep DEF AgreeInv, TypeOK
  <2>2. AbstractRun' = run'[n]
    BY AbstractIsNext
  <2> QED
    BY <1>1, <2>1, <2>2 DEF Abstract!Run
<1>2. CASE Running # {}
  <2>1. PICK m : m \in Running
    BY <1>2
  <2>2. AbstractRun = run[m] /\ AbstractRun' = run'[m]
    BY <2>1, AbstractIs, AbstractIsNext
  <2> QED
    BY <1>2, <2>1, <2>2 DEF Abstract!Run
<1> QED
  BY <1>1, <1>2

LEMMA RefineEnd ==
  ASSUME AgreeInv, [Next]_vars, NEW n \in Running,
         Running' = Running \ {n}, \A m \in Running : m # n => run'[m] = run[m]
  PROVE  Abstract!End(n)
<1>1. CASE Running' = {}
  BY <1>1 DEF Abstract!End, AbstractRun
<1>2. CASE Running' # {}
  <2>1. PICK m : m \in Running'
    BY <1>2
  <2>2. AbstractRun = run[m] /\ AbstractRun' = run'[m]
    BY <2>1, AbstractIs, AbstractIsNext
  <2> QED
    BY <1>2, <2>1, <2>2 DEF Abstract!End
<1> QED
  BY <1>1, <1>2

LEMMA RefineStep ==
  AgreeInv /\ [Next]_vars => [Abstract!Next]_<<Running, AbstractRun>>
<1> SUFFICES ASSUME AgreeInv, [Next]_vars
             PROVE  [Abstract!Next]_<<Running, AbstractRun>>
  OBVIOUS
<1> USE DEF AgreeInv, TypeOK
<1>1. ASSUME pc' = pc, run' = run PROVE UNCHANGED <<Running, AbstractRun>>
  BY <1>1, RefineStutter DEF Running
<1>2. CASE UNCHANGED vars
  BY <1>1, <1>2 DEF vars
<1>3. ASSUME NEW n \in Nodes, NEW p \in Places, goto(n, p),
             pc[n] # "running", p # "running",
             \A m \in Nodes : m # n => run'[m] = run[m]
      PROVE  UNCHANGED <<Running, AbstractRun>>
  <2>1. Running' = Running /\ \A m \in Running : run'[m] = run[m]
    BY <1>3 DEF goto, Running
  <2> QED
    BY <2>1, RefineStutter
<1>4. ASSUME NEW n \in Nodes, goto(n, "running"), pc[n] # "running",
             \A m \in Nodes : m # n => run'[m] = run[m]
      PROVE  Abstract!Next
  <2>1. /\ n \notin Running /\ Running' = Running \cup {n}
        /\ \A m \in Running : run'[m] = run[m]
    BY <1>4 DEF goto, Running
  <2> QED
    BY <2>1, RefineRun DEF Abstract!Next
<1>5. ASSUME NEW n \in Nodes, NEW p \in Places, goto(n, p),
             pc[n] = "running", p # "running",
             \A m \in Nodes : m # n => run'[m] = run[m]
      PROVE  Abstract!Next
  <2>1. /\ n \in Running /\ Running' = Running \ {n}
        /\ \A m \in Running : m # n => run'[m] = run[m]
    BY <1>5 DEF goto, Running
  <2> QED
    BY <2>1, RefineEnd DEF Abstract!Next
<1>6. Places = {"node", "join", "install", "store_daemon", "store_fs", "open",
                "read_daemon", "read_fs", "off", "running", "leaving", "exiting"}
  BY DEF Places, Starting
<1>7. ASSUME NEW n \in Nodes,
             \/ Start(n) \/ install_node_checkpoint(n) \/ setup_cpg(n)
             \/ OpenToInstall(n) \/ StoreDaemon(n) \/ OpenToRead(n) \/ exit_cpg(n)
      PROVE  UNCHANGED <<Running, AbstractRun>>
  <2>1. pc[n] # "running" /\ \A m \in Nodes : m # n => run'[m] = run[m]
    BY <1>7 DEF Start, install_node_checkpoint, setup_cpg, OpenToInstall,
       StoreDaemon, ckpt_global_store, OpenToRead, exit_cpg
  <2>2. \E p \in Places : p # "running" /\ goto(n, p)
    BY <1>6, <1>7 DEF Start, install_node_checkpoint, setup_cpg, OpenToInstall,
       StoreDaemon, ckpt_global_store, OpenToRead, exit_cpg
  <2> QED
    BY <1>3, <2>1, <2>2
<1>8. ASSUME NEW n \in Nodes, StoreFs(n) PROVE Abstract!Next
  BY <1>4, <1>8 DEF StoreFs, ckpt_global_store
<1>9. ASSUME NEW n \in Nodes, ReadDaemon(n) \/ ReadFs(n)
      PROVE  [Abstract!Next]_<<Running, AbstractRun>>
  <2>1. pc[n] # "running" /\ \A m \in Nodes : m # n => run'[m] = run[m]
    BY <1>9 DEF ReadDaemon, ReadFs, ReadSection
  <2>2. \E p \in Places : goto(n, p)
    BY <1>6, <1>9 DEF ReadDaemon, ReadFs, ReadSection
  <2> QED
    BY <1>3, <1>4, <2>1, <2>2
<1>10. ASSUME NEW n \in Nodes, shutdown_daemon(n)
       PROVE  [Abstract!Next]_<<Running, AbstractRun>>
  BY <1>3, <1>5, <1>6, <1>10 DEF shutdown_daemon
<1>11. ASSUME NEW n \in Nodes, exit_ckpt(n) \/ Die(n)
       PROVE  [Abstract!Next]_<<Running, AbstractRun>>
  <2>1. goto(n, "off") /\ \A m \in Nodes : m # n => run'[m] = run[m]
    BY <1>11 DEF exit_ckpt, Die, gone
  <2> QED
    BY <1>3, <1>5, <1>6, <2>1
<1>12. ASSUME NEW n \in Nodes, CleanNode(n) \/ CleanGlobal(n)
       PROVE  UNCHANGED <<Running, AbstractRun>>
  BY <1>1, <1>12 DEF CleanNode, CleanGlobal
<1> QED
  BY <1>2, <1>7, <1>8, <1>9, <1>10, <1>11, <1>12 DEF Next, Goes

(* The start-up and end of the daemons implement AgreedProtocol: the       *)
(* protocols in use change only while no daemon is past cpg_joined().      *)
THEOREM DaemonsImplement == Spec => Implements
<1>1. Init => Abstract!Init
  BY DEF Init, Abstract!Init, Running, AbstractRun
<1>2. AgreeInv /\ [Next]_vars => [Abstract!Next]_<<Running, AbstractRun>>
  BY RefineStep
<1> QED
  BY <1>1, <1>2, NegotiationInvariant, PTL DEF Implements, Spec, Abstract!Spec

-----------------------------------------------------------------------------
(* What a daemon may have to run before it runs it: the installer its      *)
(* maximum, a reader what it has compared so far.                          *)
MaxInv ==
  \A n \in Nodes :
    /\ Storing(n) => run[n] = max[n]
    /\ pc[n] = "read_fs" =>
         protocol_compatible(run[n]["daemon_protocol"], max[n]["daemon_protocol"])
    /\ pc[n] = "running" =>
         \A s \in Sections : protocol_compatible(run[n][s], max[n][s])

LEMMA MaxStep == TypeOK /\ MaxInv /\ [Next]_vars => MaxInv'
<1> SUFFICES ASSUME TypeOK, MaxInv, [Next]_vars PROVE MaxInv'
  OBVIOUS
<1> USE DEF TypeOK
<1>1. ASSUME UNCHANGED <<pc, run, max>> PROVE MaxInv'
  BY <1>1 DEF MaxInv, Storing
<1>2. ASSUME NEW n \in Nodes, NEW p \in Places, goto(n, p),
             p \notin {"store_daemon", "store_fs", "read_fs", "running"},
             \A m \in Nodes : m # n => run'[m] = run[m] /\ max'[m] = max[m]
      PROVE  MaxInv'
  <2>1. pc'[n] = p /\ \A m \in Nodes : m # n => pc'[m] = pc[m]
    BY <1>2 DEF goto
  <2> QED
    BY <1>2, <2>1 DEF MaxInv, Storing
<1>3. Places = {"node", "join", "install", "store_daemon", "store_fs", "open",
                "read_daemon", "read_fs", "off", "running", "leaving", "exiting"}
  BY DEF Places, Starting
<1>4. ASSUME NEW n \in Nodes,
             \/ Start(n) \/ install_node_checkpoint(n) \/ setup_cpg(n) \/ OpenToRead(n)
             \/ shutdown_daemon(n) \/ exit_cpg(n) \/ exit_ckpt(n) \/ Die(n)
      PROVE  MaxInv'
  <2>1. \A m \in Nodes : m # n => run'[m] = run[m] /\ max'[m] = max[m]
    BY <1>4 DEF Start, install_node_checkpoint, setup_cpg, OpenToRead,
       shutdown_daemon, exit_cpg, exit_ckpt, Die, gone
  <2>2. \E p \in Places :
          p \notin {"store_daemon", "store_fs", "read_fs", "running"} /\ goto(n, p)
    BY <1>3, <1>4 DEF Start, install_node_checkpoint, setup_cpg, OpenToRead,
       shutdown_daemon, exit_cpg, exit_ckpt, Die, gone
  <2> QED
    BY <1>2, <2>1, <2>2
<1>5. ASSUME NEW n \in Nodes, OpenToInstall(n) PROVE MaxInv'
  <2>1. /\ \A m \in Nodes : m # n => run'[m] = run[m] /\ pc'[m] = pc[m]
        /\ pc'[n] = "store_daemon" /\ run'[n] = max[n] /\ max' = max
    BY <1>5 DEF OpenToInstall, goto
  <2> QED
    BY <2>1 DEF MaxInv, Storing
<1>6. ASSUME NEW n \in Nodes, StoreDaemon(n) PROVE MaxInv'
  <2>1. /\ \A m \in Nodes : m # n => pc'[m] = pc[m]
        /\ pc[n] = "store_daemon" /\ pc'[n] = "store_fs" /\ run' = run /\ max' = max
    BY <1>6 DEF StoreDaemon, ckpt_global_store, goto
  <2> QED
    BY <2>1 DEF MaxInv, Storing
<1>7. ASSUME NEW n \in Nodes, StoreFs(n) PROVE MaxInv'
  <2>1. /\ \A m \in Nodes : m # n => pc'[m] = pc[m]
        /\ pc[n] = "store_fs" /\ pc'[n] = "running" /\ run' = run /\ max' = max
    BY <1>7 DEF StoreFs, ckpt_global_store, goto
  <2>2. run[n] = max[n]
    BY <2>1 DEF MaxInv, Storing
  <2>3. \A s \in Sections : protocol_compatible(run[n][s], max[n][s])
    <3>1. ASSUME NEW v \in Version PROVE protocol_compatible(v, v)
      <4>1. v[2] \in Byte
        BY DEF Version
      <4> QED
        BY <4>1 DEF protocol_compatible, Byte
    <3> QED
      BY <2>2, <3>1
  <2> QED
    BY <2>1, <2>3 DEF MaxInv, Storing
<1>8. ASSUME NEW n \in Nodes, ReadDaemon(n) \/ ReadFs(n) PROVE MaxInv'
  <2>1. PICK s \in Sections, next \in {"read_fs", "running"} :
          /\ ReadSection(n, s, next)
          /\ \/ s = "daemon_protocol" /\ next = "read_fs"
             \/ s = "fs_protocol" /\ next = "running" /\ pc[n] = "read_fs"
    <3>1. CASE ReadDaemon(n)
      BY <3>1, SectionNames DEF ReadDaemon
    <3>2. CASE ReadFs(n)
      BY <3>2, SectionNames DEF ReadFs
    <3> QED
      BY <1>8, <3>1, <3>2
  <2>2. max' = max /\ \A m \in Nodes : m # n => run'[m] = run[m] /\ pc'[m] = pc[m]
    <3>1. CASE section[s] = Missing
      BY <2>1, <3>1 DEF ReadSection, goto
    <3>2. CASE section[s] # Missing
      BY <2>1, <3>2 DEF ReadSection, goto
    <3> QED
      BY <3>1, <3>2
  <2>3. CASE section[s] = Missing
    BY <1>2, <1>3, <2>1, <2>2, <2>3 DEF ReadSection
  <2>4. CASE section[s] # Missing
    <3>1. \A r \in Sections : r # s => run'[n][r] = run[n][r]
      BY <2>1, <2>4 DEF ReadSection
    <3>2. \/ pc'[n] = "leaving"
          \/ pc'[n] = next /\ protocol_compatible(run'[n][s], max[n][s])
      BY <2>1, <2>4 DEF ReadSection, goto
    <3>3. pc'[n] = "read_fs" =>
            protocol_compatible(run'[n]["daemon_protocol"], max'[n]["daemon_protocol"])
      BY <2>1, <2>2, <3>2
    <3>4. pc'[n] = "running" =>
            \A r \in Sections : protocol_compatible(run'[n][r], max'[n][r])
      BY <2>1, <2>2, <3>1, <3>2, SectionNames DEF MaxInv
    <3>5. ~(pc'[n] \in {"store_daemon", "store_fs"})
      BY <2>1, <3>2
    <3> QED
      BY <2>2, <3>3, <3>4, <3>5 DEF MaxInv, Storing
  <2> QED
    BY <2>3, <2>4
<1>9. ASSUME NEW n \in Nodes, CleanNode(n) \/ CleanGlobal(n) PROVE MaxInv'
  BY <1>1, <1>9 DEF CleanNode, CleanGlobal
<1> QED
  BY <1>1, <1>4, <1>5, <1>6, <1>7, <1>8, <1>9 DEF Next, Goes, vars

(* No daemon serves mounts under a protocol that it does not support:      *)
(* read_global_checkpoint() compares both sections before it is done.      *)
THEOREM DaemonsWithinMax == Spec => []WithinMax
<1>1. Init => MaxInv
  BY DEF Init, MaxInv, Storing
<1>2. MaxInv => WithinMax
  BY DEF MaxInv, WithinMax, Running, protocol_compatible
<1> QED
  BY <1>1, <1>2, MaxStep, NegotiationTypes, PTL DEF Spec
=============================================================================
