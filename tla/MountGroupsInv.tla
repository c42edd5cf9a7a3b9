--------------------------- MODULE MountGroupsInv ---------------------------
(***************************************************************************)
(* The inductive invariant behind MountedIsProtected, in named parts.      *)
(*                                                                         *)
(* MountedIsProtected alone is not inductive: whether a service may go     *)
(* depends on what its client was told, on the answer dlm_controld still   *)
(* owes, and on who is at the other end of a descriptor.  SecondFails and  *)
(* Overtaken are the only steps that break it.                             *)
(***************************************************************************)
EXTENDS MountGroups

Leaving(u) == mounts[u] # 0 /\ mg[u].mg_services = {}
Mounting(u) == mounts[u] # 0 /\ mg[u].mg_ms_in_progress \in mg[u].mg_services
Told(ci) == client[ci].pc \in {"joined", "called", "rsent"}

(* One connection, one descriptor; nobody is alive on a free slot. *)
SlotOK(i) ==
  /\ \A j \in Slots : client[i].fd # -1 /\ client[i].fd = client[j].fd => i = j
  /\ client[i].alive => client[i].fd # -1
  /\ client[i].fd = -1 => client[i].pc = "done"

(* The cgroup and the mountgroup go through their states together. *)
GroupOK(u) ==
  /\ mounts[u] = 0 <=> cpg[u] = "none"
  /\ mounts[u] = 0 => mg[u].mg_services = {} /\ mg[u].mg_mount_ci = -1
                      /\ ~busy(mg[u])
  /\ cpg[u] = "joining" =>
       /\ ~mg[u].mg_group /\ ~register_list[u].live /\ busy(mg[u])
       /\ \/ mg[u].mg_leave_on_join /\ mg[u].mg_services = {}
          \/ /\ ~mg[u].mg_leave_on_join
             /\ mg[u].mg_services = {mg[u].mg_ms_in_progress}
  /\ cpg[u] = "joined" => mg[u].mg_group /\ mg[u].mg_services # {}
  /\ cpg[u] = "leaving" => mg[u].mg_services = {} /\ busy(mg[u])

(* Registration: what is owed, what is known. *)
RegisterOK(u) ==
  /\ Len(results[u]) <= 1
  /\ results[u] # <<>> /\ Head(results[u]) = OK => dlm_fs[u]
  /\ mounts[u] = 0 => ~register_list[u].live
  /\ mg[u].mg_registered =>
       mounts[u] # 0 /\ mg[u].mg_group /\ register_list[u].live /\ dlm_fs[u]
  /\ results[u] # <<>> /\ register_list[u].live =>
       mg[u].mg_group /\ ~mg[u].mg_registered /\ busy(mg[u])
  /\ results[u] # <<>> /\ register_list[u].live /\ mg[u].mg_services = {} =>
       mg[u].mg_mount_ci = -1
  /\ cpg[u] = "joined" /\ ~mg[u].mg_registered =>
       /\ mg[u].mg_services = {mg[u].mg_ms_in_progress}
       /\ results[u] # <<>> /\ register_list[u].live
  /\ Mounting(u) /\ mg[u].mg_mount_notified => mg[u].mg_registered

(* A mountgroup without an attached client is not mounting; its error is   *)
(* only set while it leaves.                                               *)
IdleOK(u) ==
  /\ mg[u].mg_mount_ci = -1 <=> mg[u].mg_mount_fd = -1
  /\ Mounting(u) => mg[u].mg_mount_ci # -1
  /\ mounts[u] # 0 /\ ~busy(mg[u]) => mg[u].mg_services # {}
  /\ mg[u].mg_services # {} => mg[u].mg_error = OK
  /\ mg[u].mg_error # "EALREADY"
  /\ mg[u].ms_additional => mg[u].mg_mount_notified

(* The attached client asked for the service in progress. *)
AttachOK(u) ==
  mg[u].mg_mount_ci # -1 =>
    LET c == client[mg[u].mg_mount_ci] IN
    /\ c.fd = mg[u].mg_mount_fd /\ c.uuid = u
    /\ c.service = mg[u].mg_ms_in_progress /\ busy(mg[u])
    /\ Mounting(u) =>
         c.req = "MOUNT" /\ c.pc \in {"wait", "joined", "called", "rsent"}
    /\ ~Mounting(u) =>
         /\ mg[u].mg_services = {} /\ c.pc \in {"wait", "rwait"}
         /\ c.req = "MOUNT" /\ c.pc = "wait" =>
              mg[u].mg_error \notin {OK, "EALREADY"}

(* A program that was told to go ahead is attached to its mountgroup, and  *)
(* its service is in progress there.                                       *)
ToldOK(ci) ==
  /\ Told(ci) =>
       /\ Mounting(client[ci].uuid) /\ mg[client[ci].uuid].mg_mount_ci = ci
       /\ mg[client[ci].uuid].mg_mount_notified
       /\ client[ci].req = "MOUNT"
  /\ client[ci].pc \in {"called", "rsent"} /\ client[ci].failed =>
       mg[client[ci].uuid].mg_services = {client[ci].service}
  /\ client[ci].req = "MOUNT" /\ client[ci].pc \in {"sent", "wait", "joined"} =>
       ~client[ci].failed

(* The kernel and its mounter: a mount that is not additional and has not  *)
(* succeeded is the filesystem's first.                                    *)
KernelOK(u) ==
  /\ kmounts[u] > 0 =>
       /\ dismount[u] = "no" /\ OCFS2_FS_NAME \in mg[u].mg_services
       /\ mg[u].mg_registered /\ cpg[u] = "joined"
  /\ Mounting(u) /\ mg[u].mg_ms_in_progress = OCFS2_FS_NAME
     /\ ~mg[u].ms_additional
     /\ (client[mg[u].mg_mount_ci].pc \in {"wait", "joined"}
           \/ client[mg[u].mg_mount_ci].failed)
       => kmounts[u] = 0

(* The kernel and its helper. *)
HelperOK(i) ==
  IsHelper(client[i]) =>
    /\ client[i].alive => dismount[client[i].uuid] = "run"
    /\ client[i].pc = "sent" => client[i].alive
    /\ \A j \in Slots :
         IsHelper(client[j]) /\ client[i].alive /\ client[j].alive
           /\ client[i].uuid = client[j].uuid => i = j

SafeInv ==
  /\ \A i \in Slots : SlotOK(i) /\ ToldOK(i) /\ HelperOK(i)
  /\ \A u \in Uuids :
       GroupOK(u) /\ RegisterOK(u) /\ IdleOK(u) /\ AttachOK(u) /\ KernelOK(u)
  /\ \A t \in tools : t[2] # OCFS2_FS_NAME

(* The inductive invariant, checked by TLC and proved of every instance:   *)
(* while the daemon runs, its records, CPG, dlm_controld, the clients and  *)
(* the kernel agree on how far each mount has come, until there is a       *)
(* mishap.                                                                 *)
Inv == TypeOK /\ (Up /\ ~mishap => SafeInv)
=============================================================================
