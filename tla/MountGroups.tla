---------------------------- MODULE MountGroups ----------------------------
(***************************************************************************)
(* ocfs2_controld/mount.c and the registration half of dlmcontrol.c: one   *)
(* node's daemon, the clients that ask it to mount and unmount, and the    *)
(* three things it talks to: CPG, dlm_controld and the kernel.             *)
(*                                                                         *)
(* A mountgroup is named by its uuid.  mounts[u] is its place on the list  *)
(* `mounts', 0 when there is none; list_add() puts a new one at the head,  *)
(* which is the greatest number.  A connection is a slot of the client     *)
(* table; the record in client[ci] is the daemon's descriptor of the slot  *)
(* together with the program at the other end (libo2cb's                   *)
(* user_begin_group_join(), user_complete_group_join() and                 *)
(* user_group_leave(), called by mount.ocfs2, ocfs2_hb_ctl and the tools). *)
(*                                                                         *)
(* A callback on freed memory is undefined behaviour.  The model stops in  *)
(* daemon = "undefined" there: nothing is claimed of what follows.         *)
(***************************************************************************)
EXTENDS Integers, Sequences

CONSTANTS
  Uuids, Devices, Services,  \* what a client may name
  OCFS2_FS_NAME,             \* the service of a real mount
  NoService,                 \* the NULL service
  NumSlots,                  \* bound on the client table
  Fds,                       \* descriptors accept() may return
  MaxMounts,                 \* bound on kernel mounts of one filesystem
  MaxOvertaken               \* bound on the answers of dlm_controld that are
                             \* unread when CPG delivers a join

ASSUME ConstAssumption ==
  /\ Uuids # {} /\ Devices # {}
  /\ OCFS2_FS_NAME \in Services /\ NoService \notin Services
  /\ NumSlots \in Nat \ {0} /\ MaxMounts \in Nat
  /\ Fds \subseteq Nat
  /\ MaxOvertaken \in Nat

Slots == 1..NumSlots

VARIABLES
  daemon,        \* "up", "exited" or "undefined"
  mounts,        \* the list of mountgroups
  mg,            \* struct mountgroup
  cpg,           \* the cgroup of a mountgroup, as CPG sees it
  orphan,        \* a cgroup whose cg_user_data points to a freed mountgroup
  register_list, \* dlmcontrol.c: is a df for u there with a live, a dangling mg?
  dlm_fs,        \* filesystems dlm_controld has registered
  results,       \* REGISTER results dlm_controld has sent, not yet read
  client,        \* connections and the programs behind them
  kmounts,       \* kernel mounts of the filesystem
  dismount,      \* the kernel's ocfs2_hb_ctl helper: "no", "spawn", "run"
  tools,         \* <<u, s>>: a tool that completed its join and did not leave
  mishap         \* history: SecondFails or Overtaken has happened

vars == <<daemon, mounts, mg, cpg, orphan, register_list, dlm_fs, results,
          client, kmounts, dismount, tools>>
daemonVars == <<mounts, mg, cpg, orphan, register_list, dlm_fs, results>>
kernelVars == <<kmounts, dismount, tools>>

Up == daemon = "up"

Errors == {"EINVAL", "EBUSY", "EALREADY", "ENOENT", "EJOIN", "EREGISTER"}
OK == "OK"
Statuses == Errors \cup {OK}

Mountgroup ==
  [mg_group : BOOLEAN, mg_leave_on_join : BOOLEAN, mg_registered : BOOLEAN,
   mg_device : Devices, mg_services : SUBSET Services,
   ms_additional : BOOLEAN, mg_ms_in_progress : Services \cup {NoService},
   mg_mount_ci : Slots \cup {-1}, mg_mount_fd : Fds \cup {-1},
   mg_mount_notified : BOOLEAN, mg_error : Statuses]

(* A program on a connection.  req is its first request; pc is what it is  *)
(* doing: "sent" and "rsent" have a request the daemon has not read,       *)
(* "wait" and "rwait" wait for the answer, "joined" may call mount(2) and  *)
(* "called" is back from it.  A dead program has alive = FALSE.            *)
Client ==
  [fd : Fds \cup {-1}, alive : BOOLEAN, req : {"MOUNT", "UNMOUNT"},
   pc : {"sent", "wait", "joined", "called", "rsent", "rwait", "done"},
   uuid : Uuids, device : Devices, service : Services, failed : BOOLEAN]

TypeOK ==
  /\ daemon \in {"up", "exited", "undefined"}
  /\ mounts \in [Uuids -> Nat]
  /\ mg \in [Uuids -> Mountgroup]
  /\ cpg \in [Uuids -> {"none", "joining", "joined", "leaving"}]
  /\ orphan \in [Uuids -> BOOLEAN]
  /\ register_list \in [Uuids -> [live : BOOLEAN, stale : BOOLEAN]]
  /\ dlm_fs \in [Uuids -> BOOLEAN]
  /\ results \in [Uuids -> Seq({OK, "EREGISTER"})]
  /\ client \in [Slots -> Client]
  /\ kmounts \in [Uuids -> 0..MaxMounts]
  /\ dismount \in [Uuids -> {"no", "spawn", "run"}]
  /\ tools \in SUBSET (Uuids \X Services)

-----------------------------------------------------------------------------
(* The programs' side of a connection. *)

AnyDevice == CHOOSE d \in Devices : TRUE
AnyUuid == CHOOSE u \in Uuids : TRUE

FreeSlot == [fd |-> -1, alive |-> FALSE, req |-> "MOUNT", pc |-> "done",
             uuid |-> AnyUuid, device |-> AnyDevice,
             service |-> OCFS2_FS_NAME, failed |-> FALSE]

Unread(c) == c.pc \in {"sent", "rsent"}
IsHelper(c) == c.req = "UNMOUNT" /\ c.service = OCFS2_FS_NAME

(* What a program does with a CM_STATUS.  A status it is not waiting for   *)
(* stays in the socket; it ends the next wait early, which ClientDies      *)
(* covers.                                                                 *)
Receive(c, status) ==
  IF ~c.alive THEN c
  ELSE IF c.pc = "wait" /\ c.req = "MOUNT" /\ status \in {OK, "EALREADY"}
    THEN [c EXCEPT !.pc = "joined"]
  ELSE IF c.pc = "wait"
    THEN [c EXCEPT !.pc = "done", !.failed = IF status = OK THEN FALSE ELSE TRUE]
  ELSE IF c.pc = "rwait" THEN [c EXCEPT !.pc = "done"]
  ELSE c

(* send_message(fd, CM_STATUS, ...): whoever holds the descriptor gets it. *)
send_status(cl, fd, status) ==
  [ci \in Slots |-> IF cl[ci].fd = fd /\ fd # -1
                      THEN Receive(cl[ci], status) ELSE cl[ci]]

(* Can the message be sent: is there a peer to receive it? *)
peer_alive(fd) == \E ci \in Slots : client[ci].fd = fd /\ client[ci].alive

(* process_listener() and connection_add(): the lowest free slot. *)
connection_add(c) ==
  \E ci \in Slots, fd \in Fds :
    /\ client[ci].fd = -1
    /\ \A i \in Slots : i < ci => client[i].fd # -1
    /\ \A i \in Slots : client[i].fd # fd
    /\ client' = [client EXCEPT ![ci] = [c EXCEPT !.fd = fd]]

Request(req, u, d, s) ==
  [FreeSlot EXCEPT !.alive = TRUE, !.req = req, !.pc = "sent", !.uuid = u,
                   !.device = d, !.service = s]

(* user_begin_group_join(): connect and send CM_MOUNT. *)
ClientMount(u, d, s) ==
  /\ Up
  /\ connection_add(Request("MOUNT", u, d, s))
  /\ UNCHANGED <<daemon, daemonVars, kernelVars>>

(* mount(2), or what a tool does between the two halves of its join.  The  *)
(* kernel makes mount(2) wait while the last umount(2) of the filesystem   *)
(* waits for its ocfs2_hb_ctl.                                             *)
MountSyscall(ci) ==
  LET c == client[ci] IN
  /\ Up
  /\ c.alive /\ c.pc = "joined"
  /\ \E failed \in BOOLEAN :
       /\ client' = [client EXCEPT ![ci].pc = "called", ![ci].failed = failed]
       /\ IF failed \/ c.service # OCFS2_FS_NAME
            THEN UNCHANGED kmounts
            ELSE /\ dismount[c.uuid] = "no" /\ kmounts[c.uuid] < MaxMounts
                 /\ kmounts' = [kmounts EXCEPT ![c.uuid] = @ + 1]
  /\ UNCHANGED <<daemon, daemonVars, dismount, tools>>

(* user_complete_group_join(): send CM_MRESULT. *)
ClientResult(ci) ==
  /\ Up
  /\ client[ci].alive /\ client[ci].pc = "called"
  /\ client' = [client EXCEPT ![ci].pc = "rsent"]
  /\ UNCHANGED <<daemon, daemonVars, kernelVars>>

(* user_group_leave() of a tool that joined. *)
ToolUnmount(u, s) ==
  /\ Up
  /\ <<u, s>> \in tools
  /\ connection_add(Request("UNMOUNT", u, AnyDevice, s))
  /\ tools' = tools \ {<<u, s>>}
  /\ UNCHANGED <<daemon, daemonVars, kmounts, dismount>>

(* umount(2): the last one makes the kernel run ocfs2_hb_ctl -K. *)
KernelUmount(u) ==
  /\ Up
  /\ kmounts[u] > 0
  /\ kmounts' = [kmounts EXCEPT ![u] = @ - 1]
  /\ dismount' = [dismount EXCEPT ![u] = IF kmounts[u] = 1 THEN "spawn" ELSE @]
  /\ UNCHANGED <<daemon, daemonVars, client, tools>>

(* stop_heartbeat() of ocfs2_hb_ctl, run by the kernel. *)
HelperUnmount(u) ==
  /\ Up
  /\ dismount[u] = "spawn"
  /\ connection_add(Request("UNMOUNT", u, AnyDevice, OCFS2_FS_NAME))
  /\ dismount' = [dismount EXCEPT ![u] = "run"]
  /\ UNCHANGED <<daemon, daemonVars, kmounts, tools>>

(* ocfs2_hb_ctl could not be run, or could not connect. *)
HelperFails(u) ==
  /\ Up
  /\ dismount[u] = "spawn"
  /\ dismount' = [dismount EXCEPT ![u] = "no"]
  /\ UNCHANGED <<daemon, daemonVars, client, kmounts, tools>>

(* The program got its last answer and closes the connection.              *)
(* user_complete_group_join() overwrites the daemon's error with 0, so a   *)
(* tool that sent a good result goes on whatever the answer was.           *)
ClientClose(ci) ==
  LET c == client[ci] IN
  /\ Up
  /\ c.alive /\ c.pc = "done"
  /\ client' = [client EXCEPT ![ci].alive = FALSE]
  /\ dismount' = [dismount EXCEPT ![c.uuid] = IF IsHelper(c) THEN "no" ELSE @]
  /\ tools' = IF c.req = "MOUNT" /\ ~c.failed /\ c.service # OCFS2_FS_NAME
                THEN tools \cup {<<c.uuid, c.service>>} ELSE tools
  /\ UNCHANGED <<daemon, daemonVars, kmounts>>

(* A program dies, or gives up and closes, at any point.  What it had sent *)
(* is still read.  The kernel's helper is not killed before it is heard.   *)
ClientDies(ci) ==
  LET c == client[ci] IN
  /\ Up
  /\ c.alive /\ ~(IsHelper(c) /\ c.pc = "sent")
  /\ client' = [client EXCEPT ![ci].alive = FALSE]
  /\ dismount' = [dismount EXCEPT ![c.uuid] = IF IsHelper(c) THEN "no" ELSE @]
  /\ UNCHANGED <<daemon, daemonVars, kmounts, tools>>

(* A tool dies without leaving. *)
ToolDies(u, s) ==
  /\ Up
  /\ <<u, s>> \in tools
  /\ tools' = tools \ {<<u, s>>}
  /\ UNCHANGED <<daemon, daemonVars, client, kmounts, dismount>>

-----------------------------------------------------------------------------
(* The helpers of mount.c, on the record of one mountgroup. *)

fill_error(m, error) ==
  IF m.mg_error # OK THEN m ELSE [m EXCEPT !.mg_error = error]

NewMg(device) ==
  [mg_group |-> FALSE, mg_leave_on_join |-> FALSE, mg_registered |-> FALSE,
   mg_device |-> device, mg_services |-> {}, ms_additional |-> FALSE,
   mg_ms_in_progress |-> NoService, mg_mount_ci |-> -1, mg_mount_fd |-> -1,
   mg_mount_notified |-> FALSE, mg_error |-> OK]

busy_no_check(m) == FALSE
additional_forgotten(m, service) == FALSE
attach_ci_only(m, ci, fd) == [m EXCEPT !.mg_mount_ci = ci]

(* Is a mount, or a leave, in progress? *)
busy(m) == m.mg_ms_in_progress # NoService

(* ms_additional of the service; only the filesystem's can be set. *)
is_additional(m, service) == m.ms_additional /\ service = OCFS2_FS_NAME

attach(m, ci, fd) == [m EXCEPT !.mg_mount_ci = ci, !.mg_mount_fd = fd]
detach(m) == [m EXCEPT !.mg_mount_ci = -1, !.mg_mount_fd = -1]

(* list_add() to and list_del() from `mounts'; the head is number 1. *)
list_add(u) ==
  [v \in Uuids |-> IF v = u THEN 1
                   ELSE IF mounts[v] = 0 THEN 0 ELSE mounts[v] + 1]

list_del(u) ==
  [v \in Uuids |-> IF v = u THEN 0
                   ELSE IF mounts[v] > mounts[u] THEN mounts[v] - 1
                   ELSE mounts[v]]

(* The first mountgroup on the list whose mg_mount_ci is ci, if any. *)
find_mg_by_client(ci) ==
  LET attached == {u \in Uuids : mounts[u] # 0 /\ mg[u].mg_mount_ci = ci} IN
  {u \in attached : \A v \in attached : mounts[u] <= mounts[v]}

add_service(m, device, service, ci, fd) ==
  IF m.mg_device # device THEN fill_error(m, "EINVAL")
  ELSE IF busy(m) THEN fill_error(m, "EBUSY")
  ELSE IF service \in m.mg_services /\ service # OCFS2_FS_NAME
    THEN fill_error(m, "EBUSY")
  ELSE LET started ==
             [attach(m, ci, fd) EXCEPT
                !.ms_additional = IF service \in m.mg_services THEN TRUE ELSE @,
                !.mg_ms_in_progress = service,
                !.mg_services = @ \cup {service}]
       IN IF m.mg_services = {} THEN started
                                ELSE fill_error(started, "EALREADY")

(* remove_service(): the record, and whether it was the last service.  The *)
(* last one starts a leave, or has finish_join() do it.                    *)
last_service(m, service) == m.mg_services = {service}

remove_service_no_leave_on_join(m, service) ==
  IF last_service(m, service)
    THEN [m EXCEPT !.mg_services = {}, !.mg_ms_in_progress = service,
                   !.mg_registered = FALSE]
    ELSE [m EXCEPT !.mg_services = @ \ {service}]

remove_service(m, service) ==
  LET left == [m EXCEPT !.mg_services = @ \ {service},
                        !.ms_additional = IF service = OCFS2_FS_NAME
                                             THEN FALSE ELSE @]
  IN IF last_service(m, service)
       THEN [left EXCEPT !.mg_ms_in_progress = service,
                         !.mg_registered = FALSE,
                         !.mg_leave_on_join = IF m.mg_group THEN @ ELSE TRUE]
       ELSE left

(* group_leave(): the cpg_leave() of a joined group. *)
leave_forgotten(u, m, service) == cpg' = cpg
leave_effect(u, m, service) ==
  cpg' = IF last_service(m, service) /\ m.mg_group
           THEN [cpg EXCEPT ![u] = "leaving"] ELSE cpg

(* dlmcontrol_unregister(), if registered; find_fs() finds the newest df.  *)
unregister_effect(u, m, service) ==
  IF last_service(m, service) /\ m.mg_registered
    THEN /\ register_list' = [register_list EXCEPT ![u].live = FALSE]
         /\ dlm_fs' = [dlm_fs EXCEPT ![u] = FALSE]
    ELSE UNCHANGED <<register_list, dlm_fs>>

(* notify_mount_client(): the record it leaves, and the clients after it. *)
notified(m) ==
  [m EXCEPT !.mg_error = OK,
            !.mg_mount_notified = IF peer_alive(m.mg_mount_fd) THEN TRUE ELSE @]
notify_mount_client(cl, m) == send_status(cl, m.mg_mount_fd, m.mg_error)

(* free(mg): its df, if it is still registered, now dangles.  A cgroup it  *)
(* leaves behind does so too.                                              *)
free_mg(u, left_cgroup) ==
  /\ mounts' = list_del(u)
  /\ mg' = [mg EXCEPT ![u] = NewMg(AnyDevice)]
  /\ cpg' = [cpg EXCEPT ![u] = "none"]
  /\ orphan' = [orphan EXCEPT ![u] = IF left_cgroup THEN TRUE ELSE @]
  /\ register_list' =
       [register_list EXCEPT
          ![u] = [live |-> FALSE, stale |-> IF @.live THEN TRUE ELSE @.stale]]

-----------------------------------------------------------------------------
(* The daemon's handlers. *)

(* The process ends, or runs on in undefined memory: what it held is gone, *)
(* the connections close.                                                  *)
NoMountgroups == [u \in Uuids |-> NewMg(AnyDevice)]
NotRegistered == [u \in Uuids |-> [live |-> FALSE, stale |-> FALSE]]

end_process(how) ==
  /\ daemon' = how
  /\ mounts' = [u \in Uuids |-> 0]
  /\ mg' = NoMountgroups
  /\ cpg' = [u \in Uuids |-> "none"]
  /\ orphan' = [u \in Uuids |-> FALSE]
  /\ register_list' = NotRegistered
  /\ dlm_fs' = [u \in Uuids |-> FALSE]
  /\ results' = [u \in Uuids |-> <<>>]
  /\ client' = [ci \in Slots |-> FreeSlot]
  /\ UNCHANGED kernelVars

(* do_mount() refuses the filesystem type or the cluster. *)
RejectMount(ci) ==
  /\ Up
  /\ client[ci].req = "MOUNT" /\ client[ci].pc = "sent"
  /\ client' = send_status([client EXCEPT ![ci].pc = "wait"], client[ci].fd,
                            "EINVAL")
  /\ UNCHANGED <<daemon, daemonVars, kernelVars>>

(* start_mount() for a filesystem that has a mountgroup. *)
StartMountAgain(ci) ==
  LET c == client[ci]
      u == c.uuid
      m == add_service(mg[u], c.device, c.service, ci, c.fd)
      read == [client EXCEPT ![ci].pc = "wait"]
  IN
  /\ Up
  /\ c.req = "MOUNT" /\ c.pc = "sent" /\ mounts[u] # 0
  /\ client' = IF m.mg_error = OK THEN read
                 ELSE send_status(read, c.fd, m.mg_error)
  /\ IF m.mg_error \notin {OK, "EALREADY"} /\ m.mg_services = {}
       THEN free_mg(u, cpg[u] # "none")
       ELSE /\ mg' = [mg EXCEPT ![u] =
                        [m EXCEPT !.mg_error = OK,
                                  !.mg_mount_notified =
                                      IF m.mg_error = "EALREADY" THEN TRUE
                                                                 ELSE @]]
            /\ UNCHANGED <<mounts, cpg, orphan, register_list>>
  /\ UNCHANGED <<daemon, dlm_fs, results, kernelVars>>

(* start_mount() for a new filesystem; a join that cannot be started       *)
(* leaves no mountgroup behind.                                            *)
StartMountNew(ci) ==
  LET c == client[ci]
      u == c.uuid
      read == [client EXCEPT ![ci].pc = "wait"]
  IN
  /\ Up
  /\ c.req = "MOUNT" /\ c.pc = "sent" /\ mounts[u] = 0
  /\ \/ /\ mounts' = list_add(u)
        /\ mg' = [mg EXCEPT ![u] = add_service(NewMg(c.device), c.device,
                                               c.service, ci, c.fd)]
        /\ cpg' = [cpg EXCEPT ![u] = "joining"]
        /\ client' = read
     \/ /\ client' = send_status(read, c.fd, "EJOIN")
        /\ UNCHANGED <<mounts, mg, cpg>>
  /\ UNCHANGED <<daemon, orphan, register_list, dlm_fs, results, kernelVars>>

(* The checks of complete_mount(), in its order. *)
mresult_error(c, u, m) ==
  IF m.mg_mount_fd # c.fd \/ u # c.uuid THEN "EINVAL"
  ELSE IF ~busy(m) THEN "ENOENT"
  ELSE IF c.service \notin m.mg_services THEN "ENOENT"
  ELSE IF c.service # m.mg_ms_in_progress THEN "EINVAL"
  ELSE OK

(* complete_mount().  A refusal is stored in the mountgroup found, and     *)
(* stays there.                                                            *)
CompleteMount(ci) ==
  LET c == client[ci]
      read == [client EXCEPT ![ci].pc = "rwait"]
      found == find_mg_by_client(ci)
  IN
  /\ Up
  /\ c.pc = "rsent"
  /\ \/ /\ found = {}
        /\ client' = send_status(read, c.fd, "EINVAL")
        /\ UNCHANGED <<mg, cpg, register_list, dlm_fs>>
     \/ \E u \in found :
        LET m == mg[u]
            error == mresult_error(c, u, m)
            bad == fill_error(m, error)
            additional == is_additional(m, c.service)
            clear == [m EXCEPT !.mg_ms_in_progress = NoService]
            good == [detach(clear) EXCEPT
                       !.ms_additional = IF additional THEN FALSE ELSE @]
            gone == remove_service(clear, c.service)
        IN
        \/ /\ error # OK
           /\ mg' = [mg EXCEPT ![u] = bad]
           /\ client' = send_status(read, c.fd, bad.mg_error)
           /\ UNCHANGED <<cpg, register_list, dlm_fs>>
        \/ /\ error = OK /\ (additional \/ ~c.failed)
           /\ mg' = [mg EXCEPT ![u] = good]
           /\ client' = send_status(read, c.fd, good.mg_error)
           /\ UNCHANGED <<cpg, register_list, dlm_fs>>
        \/ /\ error = OK /\ ~additional /\ c.failed
           /\ mg' = [mg EXCEPT ![u] = gone]
           /\ client' = IF busy(gone) THEN read
                          ELSE send_status(read, c.fd, gone.mg_error)
           /\ leave_effect(u, clear, c.service)
           /\ unregister_effect(u, clear, c.service)
  /\ UNCHANGED <<daemon, mounts, orphan, results, kernelVars>>

(* remove_mount(). *)
RemoveMount(ci) ==
  LET c == client[ci]
      u == c.uuid
      m == mg[u]
      read == [client EXCEPT ![ci].pc = "wait"]
      gone == remove_service(m, c.service)
      last == last_service(m, c.service)
  IN
  /\ Up
  /\ c.req = "UNMOUNT" /\ c.pc = "sent"
  /\ \/ /\ mounts[u] = 0 \/ c.service \notin m.mg_services
        /\ client' = send_status(read, c.fd, "ENOENT")
        /\ UNCHANGED <<mg, cpg, register_list, dlm_fs>>
     \/ /\ mounts[u] # 0 /\ c.service \in m.mg_services
        /\ busy(m)
        /\ mg' = [mg EXCEPT ![u].ms_additional =
                              IF c.service = OCFS2_FS_NAME THEN FALSE ELSE @]
        /\ client' = send_status(read, c.fd, "EBUSY")
        /\ UNCHANGED <<cpg, register_list, dlm_fs>>
     \/ /\ mounts[u] # 0 /\ c.service \in m.mg_services
        /\ ~busy(m)
        /\ mg' = [mg EXCEPT ![u] = IF last THEN attach(gone, ci, c.fd)
                                           ELSE gone]
        /\ client' = IF last THEN read ELSE send_status(read, c.fd, m.mg_error)
        /\ leave_effect(u, m, c.service)
        /\ unregister_effect(u, m, c.service)
  /\ UNCHANGED <<daemon, mounts, orphan, results, kernelVars>>

(* dead_client(): dead_mounter() and connection_dead(). *)
DeadClient(ci) ==
  LET found == find_mg_by_client(ci) IN
  /\ Up
  /\ client[ci].fd # -1 /\ ~client[ci].alive /\ ~Unread(client[ci])
  /\ client' = [client EXCEPT ![ci] = FreeSlot]
  /\ \/ /\ \A u \in found : ~busy(mg[u])
        /\ UNCHANGED <<mg, cpg, register_list, dlm_fs>>
     \/ \E u \in found :
        LET ms == mg[u].mg_ms_in_progress
            m == detach(mg[u])
            additional == is_additional(m, ms)
            forget == [m EXCEPT !.ms_additional = IF additional THEN FALSE ELSE @,
                                !.mg_ms_in_progress = NoService]
        IN
        /\ busy(mg[u])
        /\ \/ /\ ms \notin m.mg_services
              /\ mg' = [mg EXCEPT ![u] = m]
              /\ UNCHANGED <<cpg, register_list, dlm_fs>>
           \/ /\ ms \in m.mg_services /\ (additional \/ m.mg_mount_notified)
              /\ mg' = [mg EXCEPT ![u] = forget]
              /\ UNCHANGED <<cpg, register_list, dlm_fs>>
           \/ /\ ms \in m.mg_services /\ ~additional /\ ~m.mg_mount_notified
              /\ mg' = [mg EXCEPT ![u] = remove_service(m, ms)]
              /\ leave_effect(u, m, ms)
              /\ unregister_effect(u, m, ms)
  /\ UNCHANGED <<daemon, mounts, orphan, results, kernelVars>>

(* dlmcontrol_register() and dlm_controld's side of it: a name it has is   *)
(* refused.                                                                *)
dlmcontrol_register(u) ==
  \E status \in {OK, "EREGISTER"} :
    /\ dlm_fs[u] => status = "EREGISTER"
    /\ register_list' = [register_list EXCEPT ![u].live = TRUE]
    /\ results' = [results EXCEPT ![u] = Append(@, status)]
    /\ dlm_fs' = [dlm_fs EXCEPT ![u] = IF status = OK THEN TRUE ELSE @]

(* CPG delivers our join: mount_set_group(cg) and finish_join(). *)
FinishJoin(u) ==
  LET m == mg[u]
      ms == m.mg_ms_in_progress
      joined == [m EXCEPT !.mg_group = TRUE]
      unregistered == fill_error(joined, "EREGISTER")
  IN
  /\ Up
  /\ cpg[u] = "joining"
  /\ Len(results[u]) <= MaxOvertaken
  /\ \/ /\ ms \notin m.mg_services
        /\ cpg' = [cpg EXCEPT ![u] = IF ms # NoService /\ m.mg_leave_on_join
                                       THEN "leaving" ELSE "joined"]
        /\ UNCHANGED <<mg, register_list, dlm_fs, results>>
     \/ /\ ms \in m.mg_services
        /\ mg' = [mg EXCEPT ![u] = joined]
        /\ cpg' = [cpg EXCEPT ![u] = "joined"]
        /\ dlmcontrol_register(u)
     \/ /\ ms \in m.mg_services
        /\ mg' = [mg EXCEPT ![u] = remove_service(unregistered, ms)]
        /\ cpg' = [cpg EXCEPT ![u] = IF last_service(m, ms) THEN "leaving"
                                                            ELSE "joined"]
        /\ UNCHANGED <<register_list, dlm_fs, results>>
  /\ UNCHANGED <<daemon, mounts, orphan, client, kernelVars>>

(* mount_set_group(NULL) and finish_leave(): the leave we asked for, or    *)
(* one we did not.                                                         *)
FinishLeave(u) ==
  LET m == mg[u] IN
  IF m.mg_services = {} /\ m.mg_ms_in_progress # NoService
    THEN /\ client' = notify_mount_client(client, m)
         /\ free_mg(u, FALSE)
         /\ UNCHANGED <<daemon, dlm_fs, results, kernelVars>>
  ELSE IF m.mg_group
    THEN end_process("exited")
  ELSE /\ client' = [ci \in Slots |-> IF ci = m.mg_mount_ci THEN FreeSlot
                                                            ELSE client[ci]]
       /\ free_mg(u, FALSE)
       /\ UNCHANGED <<daemon, dlm_fs, results, kernelVars>>

CpgLeft(u) == Up /\ cpg[u] = "leaving" /\ FinishLeave(u)

(* dead_cpg(): the connection to CPG for the group broke. *)
CpgDied(u) == Up /\ cpg[u] # "none" /\ FinishLeave(u)

(* CPG calls back for a cgroup whose mountgroup is gone. *)
OrphanEvent(u) ==
  /\ Up
  /\ orphan[u]
  /\ end_process("undefined")

(* process_dlmcontrol() reads a result; find_fs() picks the newest df of   *)
(* that name, and register_result() gets the df's mountgroup.              *)
RegisterResult(u) ==
  LET m == mg[u]
      ms == m.mg_ms_in_progress
      failed == fill_error(m, "EREGISTER")
      registered == [m EXCEPT !.mg_registered = TRUE]
      heard == m.mg_group /\ ms # NoService
  IN
  /\ Up
  /\ results[u] # <<>> /\ register_list[u].live
  /\ results' = [results EXCEPT ![u] = Tail(@)]
  /\ \/ /\ ~heard
        /\ UNCHANGED <<mg, cpg, register_list, dlm_fs, client>>
     \/ /\ heard /\ Head(results[u]) # OK
        /\ mg' = [mg EXCEPT ![u] = remove_service(failed, ms)]
        /\ leave_effect(u, m, ms)
        /\ unregister_effect(u, m, ms)
        /\ UNCHANGED client
     \/ /\ heard /\ Head(results[u]) = OK
        /\ mg' = [mg EXCEPT ![u] = notified(registered)]
        /\ client' = notify_mount_client(client, registered)
        /\ UNCHANGED <<cpg, register_list, dlm_fs>>
  /\ UNCHANGED <<daemon, mounts, orphan, kernelVars>>

(* Its mountgroup was freed, and the df of that name is the one it left.   *)
StaleResult(u) ==
  /\ Up
  /\ results[u] # <<>> /\ ~register_list[u].live
  /\ end_process("undefined")

(* A signal is obeyed only without mounts; the loss of the cluster stack,  *)
(* of the daemon group or of dlm_controld always ends the daemon.          *)
handle_signal ==
  /\ Up
  /\ \A u \in Uuids : mounts[u] = 0
  /\ end_process("exited")

shutdown_daemon == Up /\ end_process("exited")

-----------------------------------------------------------------------------
Init ==
  /\ daemon = "up"
  /\ mounts = [u \in Uuids |-> 0]
  /\ mg = NoMountgroups
  /\ cpg = [u \in Uuids |-> "none"]
  /\ orphan = [u \in Uuids |-> FALSE]
  /\ register_list = NotRegistered
  /\ dlm_fs = [u \in Uuids |-> FALSE]
  /\ results = [u \in Uuids |-> <<>>]
  /\ client = [ci \in Slots |-> FreeSlot]
  /\ kmounts = [u \in Uuids |-> 0]
  /\ dismount = [u \in Uuids |-> "no"]
  /\ tools = {}
  /\ mishap = FALSE

Programs ==
  \/ \E u \in Uuids, d \in Devices, s \in Services : ClientMount(u, d, s)
  \/ \E u \in Uuids, s \in Services : ToolUnmount(u, s)
  \/ \E u \in Uuids, s \in Services : ToolDies(u, s)
  \/ \E u \in Uuids : KernelUmount(u)
  \/ \E u \in Uuids : HelperUnmount(u)
  \/ \E u \in Uuids : HelperFails(u)
  \/ \E ci \in Slots : MountSyscall(ci)
  \/ \E ci \in Slots : ClientResult(ci)
  \/ \E ci \in Slots : ClientClose(ci)
  \/ \E ci \in Slots : ClientDies(ci)

Daemon ==
  \/ \E ci \in Slots : RejectMount(ci)
  \/ \E ci \in Slots : StartMountAgain(ci)
  \/ \E ci \in Slots : StartMountNew(ci)
  \/ \E ci \in Slots : CompleteMount(ci)
  \/ \E ci \in Slots : RemoveMount(ci)
  \/ \E ci \in Slots : DeadClient(ci)
  \/ \E u \in Uuids : FinishJoin(u)
  \/ \E u \in Uuids : CpgLeft(u)
  \/ \E u \in Uuids : CpgDied(u)
  \/ \E u \in Uuids : OrphanEvent(u)
  \/ \E u \in Uuids : RegisterResult(u)
  \/ \E u \in Uuids : StaleResult(u)
  \/ handle_signal
  \/ shutdown_daemon

(* Once the daemon is gone nothing of interest happens. *)
Stopped == ~Up /\ UNCHANGED vars

Next == Programs \/ Daemon \/ Stopped

(* Two events that the daemon's records do not survive; once there was     *)
(* one, nothing more is claimed.  A join beside another service fails:     *)
(* complete_mount() takes the service out, and its client stays attached   *)
(* to a mountgroup with nothing in progress.                               *)
SecondFails ==
  \E ci \in Slots :
    /\ client[ci].pc = "joined" /\ client'[ci].pc = "called" /\ client'[ci].failed
    /\ mg[client[ci].uuid].mg_services # {client[ci].service}

(* CPG delivers a join while the answer to an earlier registration of the  *)
(* same name is unread: it is taken for the answer to this one.            *)
Overtaken ==
  \E u \in Uuids :
    cpg[u] = "joining" /\ cpg'[u] \in {"joined", "leaving"} /\ results[u] # <<>>

Watch == mishap' = (mishap \/ SecondFails \/ Overtaken)

Spec == Init /\ [][Next /\ Watch]_<<vars, mishap>>

(* What the daemon and the program do next for a connection.               *)
Serve(ci) ==
  \/ RejectMount(ci) \/ StartMountAgain(ci) \/ StartMountNew(ci)
  \/ CompleteMount(ci) \/ RemoveMount(ci) \/ DeadClient(ci)

GoOn(ci) == MountSyscall(ci) \/ ClientResult(ci) \/ ClientClose(ci)

-----------------------------------------------------------------------------
(* The node is a member of the filesystem's group, and dlm_controld knows  *)
(* the filesystem, on behalf of service s.                                 *)
Protected(u, s) ==
  /\ mounts[u] # 0 /\ s \in mg[u].mg_services
  /\ mg[u].mg_group /\ cpg[u] = "joined"
  /\ mg[u].mg_registered /\ dlm_fs[u]

(* dlmcontrol.c: "We register *before* allowing the filesystem to mount."  *)
(* As long as the kernel has the filesystem mounted, the daemon is in its  *)
(* group, is registered with dlm_controld, and holds the mount's service:  *)
(* no order of mounts, unmounts, failures and deaths of mounters takes     *)
(* that away, but for the two mishaps.                                     *)
MountedIsProtected ==
  Up /\ ~mishap => \A u \in Uuids : kmounts[u] > 0 => Protected(u, OCFS2_FS_NAME)

(* A program that was told to go ahead and has not yet reported back finds *)
(* the group joined and registered when it calls mount(2), but for the two *)
(* mishaps.                                                                *)
ToldIsProtected ==
  Up /\ ~mishap => \A ci \in Slots :
    LET c == client[ci] IN
    c.alive /\ c.pc \in {"joined", "called"} => Protected(c.uuid, c.service)

(* dead_mounter(): "all the other in-progress operations (group join,      *)
(* dlmc_fs_register) must have completed, or we wouldn't have set          *)
(* mg_mount_notified".  The flag is never cleared, yet it is right for     *)
(* every later service of the mountgroup, until there is a mishap.         *)
NotifiedIsReady ==
  Up /\ ~mishap => \A u \in Uuids :
    LET m == mg[u] IN
    m.mg_mount_notified /\ m.mg_ms_in_progress \in m.mg_services
      => m.mg_group /\ m.mg_registered

(* mount_set_group() is handed a mountgroup that exists: "We've asked to   *)
(* leave a group [...] mg_ms_in_progress != NULL, mg_services is empty".   *)
(* No cgroup outlives its mountgroup.                                      *)
CgroupHasMountgroup == Up => \A u \in Uuids : ~orphan[u]

(* add_service() and remove_mount() complain of "ci/fd are set": a         *)
(* mountgroup with nothing in progress has no client attached.             *)
IdleHasNoClient ==
  Up /\ ~mishap => \A u \in Uuids :
    mounts[u] # 0 /\ mg[u].mg_ms_in_progress = NoService
      => mg[u].mg_mount_ci = -1 /\ mg[u].mg_mount_fd = -1

(* The client attached to a mountgroup is the one whose request is in      *)
(* progress there: slots and descriptors are reused, and the answer still  *)
(* goes to the program that asked, until there is a mishap.                *)
AttachedIsRequester ==
  Up /\ ~mishap => \A u \in Uuids :
    LET m == mg[u]
        c == client[m.mg_mount_ci]
    IN mounts[u] # 0 /\ m.mg_mount_ci # -1
         => /\ c.fd = m.mg_mount_fd /\ c.uuid = u
            /\ c.service = m.mg_ms_in_progress
            /\ c.pc \notin {"sent", "done"}

(* A client waits for the daemon; a mountgroup has something under way.    *)
Waiting(ci) ==
  Up /\ client[ci].alive /\ client[ci].pc \in {"sent", "wait", "rsent", "rwait"}
Busy(u) == Up /\ mounts[u] # 0 /\ mg[u].mg_ms_in_progress # NoService
=============================================================================
