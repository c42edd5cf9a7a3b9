------------------------- MODULE MountGroupsSafety --------------------------
(***************************************************************************)
(* The programs' steps (connecting, mount(2), MRESULT, the kernel's        *)
(* umount(2) and its helper, and dying) and the daemon's steps on what CPG *)
(* and dlm_controld report preserve SafeInv; with MountGroupsSteps every   *)
(* step does, and a mounted filesystem stays protected.                    *)
(***************************************************************************)
EXTENDS MountGroupsSteps


-----------------------------------------------------------------------------
(* The programs. *)

LEMMA InitSafe == Init => Inv
<1> SUFFICES ASSUME Init PROVE Inv
  BY Zenon
<1>1. TypeOK
  BY ConstTypes, ConstAssumption
     DEF Init, TypeOK, NoMountgroups, NotRegistered
<1>2. \A i \in Slots : client[i] = FreeSlot
  BY Zenon DEF Init
<1>3. \A u \in Uuids :
        /\ mounts[u] = 0 /\ mg[u] = NewMg(AnyDevice) /\ cpg[u] = "none"
        /\ ~register_list[u].live /\ results[u] = <<>> /\ kmounts[u] = 0
  BY Zenon DEF Init, NoMountgroups, NotRegistered
<1>4. LET m == NewMg(AnyDevice) IN
      /\ m.mg_registered = FALSE /\ m.ms_additional = FALSE
      /\ m.mg_services = {} /\ m.mg_error = OK
      /\ m.mg_mount_ci = -1 /\ m.mg_mount_fd = -1
      /\ m.mg_ms_in_progress = NoService
  BY Zenon DEF NewMg
<1>5. FreeSlot.fd = -1 /\ FreeSlot.alive = FALSE /\ FreeSlot.pc = "done"
      /\ FreeSlot.req = "MOUNT"
  BY Zenon DEF FreeSlot
<1>6. \A i \in Slots : SlotOK(i) /\ ToldOK(i) /\ HelperOK(i)
  BY <1>2, <1>5, Zenon DEF SlotOK, ToldOK, Told, HelperOK, IsHelper
<1>7. ASSUME NEW u \in Uuids PROVE GroupOK(u) /\ AttachOK(u) /\ KernelOK(u)
  BY <1>3, <1>4 DEF GroupOK, busy, AttachOK, KernelOK
<1>8. Len(<<>>) <= 1 /\ OK # "EALREADY"
  BY DEF OK
<1>9. ASSUME NEW u \in Uuids PROVE RegisterOK(u) /\ IdleOK(u)
  BY <1>3, <1>4, <1>8, Zenon DEF RegisterOK, IdleOK, Mounting
<1>10. tools = {}
  BY Zenon DEF Init
<1> QED
  BY <1>1, <1>6, <1>7, <1>9, <1>10, Zenon DEF Inv, SafeInv

(* A step that leaves everything alone. *)
LEMMA StutterSafe ==
  ASSUME TypeOK, Up => SafeInv, UNCHANGED vars
  PROVE  TypeOK' /\ (Up' => SafeInv')
<1>1. TypeOK'
  BY Zenon DEF TypeOK, vars
<1>2. /\ daemon' = daemon /\ mounts' = mounts /\ mg' = mg /\ cpg' = cpg
      /\ register_list' = register_list /\ dlm_fs' = dlm_fs
      /\ results' = results /\ client' = client /\ kmounts' = kmounts
      /\ dismount' = dismount /\ tools' = tools
  BY Zenon DEF vars
<1>3. ASSUME SafeInv, NEW i \in Slots
      PROVE  (SlotOK(i) /\ ToldOK(i) /\ HelperOK(i))'
  <2>1. SlotOK(i) /\ ToldOK(i) /\ HelperOK(i)
    BY <1>3, Zenon DEF SafeInv
  <2> QED
    BY <1>2, <2>1, Zenon DEF SlotOK, ToldOK, Told, Mounting, HelperOK, IsHelper
<1>4. ASSUME SafeInv, NEW u \in Uuids
      PROVE  (GroupOK(u) /\ RegisterOK(u) /\ IdleOK(u) /\ AttachOK(u) /\ KernelOK(u))'
  <2>1. GroupOK(u) /\ RegisterOK(u) /\ IdleOK(u) /\ AttachOK(u) /\ KernelOK(u)
    BY <1>4, Zenon DEF SafeInv
  <2>2. GroupOK(u)'
    BY <1>2, <2>1, Zenon DEF GroupOK, busy
  <2>3. RegisterOK(u)'
    BY <1>2, <2>1, Zenon DEF RegisterOK, busy, Mounting
  <2>4. (IdleOK(u) /\ AttachOK(u) /\ KernelOK(u))'
    BY <1>2, <2>1 DEF IdleOK, AttachOK, KernelOK, busy, Mounting
  <2> QED
    BY <2>2, <2>3, <2>4, Zenon
<1>5. Up' => SafeInv'
  BY <1>2, <1>3, <1>4, Zenon DEF Up, SafeInv
<1> QED
  BY <1>1, <1>5, Zenon

(* What Inv says of a mounted filesystem. *)
LEMMA InvMounted == Inv => MountedIsProtected
<1> SUFFICES ASSUME Inv, Up, ~mishap, NEW u \in Uuids, kmounts[u] > 0
             PROVE  Protected(u, OCFS2_FS_NAME)
  BY Zenon DEF MountedIsProtected
<1>1. KernelOK(u) /\ RegisterOK(u)
  BY Zenon DEF Inv, SafeInv
<1> QED
  BY <1>1, Zenon DEF KernelOK, RegisterOK, Protected

(* What Inv says of a program that was told to go ahead. *)
LEMMA InvTold == Inv => ToldIsProtected
<1> SUFFICES ASSUME Inv, Up, ~mishap, NEW ci \in Slots, client[ci].pc \in {"joined", "called"}
             PROVE  Protected(client[ci].uuid, client[ci].service)
  BY Zenon DEF ToldIsProtected
<1>1. TypeOK /\ SafeInv /\ client[ci].uuid \in Uuids
  BY HandlerTypes, Zenon DEF Inv
<1>2. PICK u \in Uuids : u = client[ci].uuid
  BY <1>1, Zenon
<1>3. ToldOK(ci) /\ AttachOK(u) /\ RegisterOK(u) /\ ci # -1
  BY <1>1, ConstTypes, Zenon DEF SafeInv
<1>4. Mounting(u) /\ mg[u].mg_mount_ci = ci /\ mg[u].mg_mount_notified
  BY <1>2, <1>3, Zenon DEF ToldOK, Told
<1>5. mg[u].mg_registered /\ client[ci].service \in mg[u].mg_services
      /\ mg[u].mg_services # {}
  BY <1>3, <1>4, Zenon DEF RegisterOK, AttachOK, Mounting
<1> QED
  BY <1>1, <1>2, <1>5, RegisteredFields, Zenon DEF Protected

(* What Inv says of mg_mount_notified. *)
LEMMA InvNotified == Inv => NotifiedIsReady
BY Zenon DEF Inv, SafeInv, NotifiedIsReady, GroupOK, RegisterOK, Mounting

(* What Inv says of the client attached to a mountgroup. *)
LEMMA InvAttached == Inv => AttachedIsRequester /\ IdleHasNoClient
<1> SUFFICES ASSUME Inv, Up, ~mishap PROVE AttachedIsRequester /\ IdleHasNoClient
  BY Zenon DEF AttachedIsRequester, IdleHasNoClient
<1>1. \A u \in Uuids : AttachOK(u) /\ IdleOK(u)
  BY Zenon DEF Inv, SafeInv
<1>2. AttachedIsRequester
  BY <1>1, Zenon DEF AttachedIsRequester, AttachOK
<1>3. IdleHasNoClient
  BY <1>1, Zenon DEF IdleHasNoClient, AttachOK, IdleOK, busy
<1> QED
  BY <1>2, <1>3, Zenon

(* A live program goes on, and nothing changes but what it waits for. *)
LEMMA GoesOnSafe ==
  ASSUME TypeOK, SafeInv, NEW ci \in Slots, OnlySlot(ci),
         client[ci].alive, client'[ci].alive, client[ci].pc # "sent",
         client'[ci].pc # "sent", dismount' = dismount
  PROVE  \A i \in Slots : SlotOK(i)' /\ HelperOK(i)'
<1>1. \A i \in Slots : SlotOK(i) /\ HelperOK(i)
  BY Zenon DEF SafeInv
<1>2. \A i \in Slots :
        /\ client'[i].fd = client[i].fd /\ client'[i].req = client[i].req
        /\ client'[i].uuid = client[i].uuid
        /\ client'[i].service = client[i].service
        /\ client'[i].alive <=> client[i].alive
        /\ client'[i].pc = "sent" <=> client[i].pc = "sent"
        /\ client'[i].pc = client[i].pc \/ client[i].fd # -1
  BY <1>1, Zenon DEF OnlySlot, SlotOK
<1>3. \A i \in Slots : SlotOK(i)'
  BY <1>1, <1>2 DEF SlotOK
<1>4. \A i \in Slots : IsHelper(client[i])' <=> IsHelper(client[i])
  BY <1>2, Zenon DEF IsHelper
<1>5. \A i \in Slots : HelperOK(i)'
  BY <1>1, <1>2, <1>4 DEF HelperOK
<1> QED
  BY <1>3, <1>5, Zenon

(* The client of a mountgroup may go on from "joined" to "called" to       *)
(* "rsent".                                                                *)
LEMMA GoesOnAttached ==
  ASSUME TypeOK, SafeInv, NEW ci \in Slots, OnlySlot(ci), UNCHANGED daemonVars,
         client[ci].pc \in {"joined", "called"},
         client'[ci].pc \in {"called", "rsent"}, NEW u \in Uuids
  PROVE  AttachOK(u)'
<1>1. AttachOK(u) /\ mg' = mg /\ mounts' = mounts
  BY Zenon DEF SafeInv, daemonVars
<1>2. mg[u].mg_mount_ci # -1 => mg[u].mg_mount_ci \in Slots
  BY AttachedSlot, Zenon
<1>3. Mounting(u)' <=> Mounting(u)
  BY <1>1, Zenon DEF Mounting
<1>4. CASE mg[u].mg_mount_ci = ci
  BY <1>1, <1>2, <1>3, <1>4, Zenon DEF AttachOK, OnlySlot, busy
<1>5. CASE mg[u].mg_mount_ci # ci
  BY <1>1, <1>2, <1>3, <1>5, Zenon DEF AttachOK, OnlySlot, busy
<1> QED
  BY <1>4, <1>5, Zenon

LEMMA ResultSafe ==
  ASSUME TypeOK, SafeInv, NEW ci \in Slots, ClientResult(ci)
  PROVE  SafeInv'
<1>1. /\ OnlySlot(ci)
      /\ client[ci].alive /\ client[ci].pc = "called" /\ client'[ci].pc = "rsent"
      /\ client'[ci].alive = client[ci].alive
      /\ client'[ci].failed = client[ci].failed
  <2>1. /\ client[ci].alive /\ client[ci].pc = "called"
        /\ client' = [client EXCEPT ![ci].pc = "rsent"]
    BY Zenon DEF ClientResult
  <2> QED
    BY <2>1, PcFields, Zenon
<1>2. /\ UNCHANGED daemonVars /\ kmounts' = kmounts /\ dismount' = dismount
      /\ tools' = tools /\ mg' = mg /\ mounts' = mounts /\ cpg' = cpg
  BY Zenon DEF ClientResult, kernelVars, daemonVars
<1>3. \A u \in Uuids : GroupOK(u)' /\ RegisterOK(u)' /\ IdleOK(u)'
  BY <1>2, DaemonUntouched, Zenon
<1>4. \A i \in Slots : SlotOK(i)' /\ HelperOK(i)'
  BY <1>1, <1>2, GoesOnSafe, Zenon
<1>5. ASSUME NEW i \in Slots PROVE ToldOK(i)'
  <2>1. ToldOK(i)
    BY Zenon DEF SafeInv
  <2> QED
    BY <1>1, <1>2, <2>1 DEF ToldOK, Told, Mounting, OnlySlot
<1>6. \A u \in Uuids : AttachOK(u)'
  BY <1>1, <1>2, GoesOnAttached, Zenon
<1>7. ASSUME NEW u \in Uuids PROVE KernelOK(u)'
  <2>1. KernelOK(u) /\ IdleOK(u) /\ (Mounting(u)' <=> Mounting(u))
    BY <1>2, Zenon DEF SafeInv, Mounting
  <2>2. mg[u].mg_mount_ci # -1 => mg[u].mg_mount_ci \in Slots
    BY AttachedSlot, Zenon
  <2> QED
    BY <1>1, <1>2, <2>1, <2>2, Zenon DEF KernelOK, IdleOK, OnlySlot
<1> QED
  BY <1>2, <1>3, <1>4, <1>5, <1>6, <1>7, Zenon DEF SafeInv

LEMMA SyscallSafe ==
  ASSUME TypeOK, SafeInv, ~SecondFails, NEW ci \in Slots, MountSyscall(ci)
  PROVE  SafeInv'
<1> DEFINE w == client[ci].uuid
<1>1. PICK f \in BOOLEAN :
        /\ client' = [client EXCEPT ![ci].pc = "called", ![ci].failed = f]
        /\ IF f \/ client[ci].service # OCFS2_FS_NAME
             THEN UNCHANGED kmounts
             ELSE /\ dismount[w] = "no" /\ kmounts[w] < MaxMounts
                  /\ kmounts' = [kmounts EXCEPT ![w] = @ + 1]
  BY Zenon DEF MountSyscall
<1>2. /\ OnlySlot(ci)
      /\ client[ci].alive /\ client[ci].pc = "joined" /\ client'[ci].pc = "called"
      /\ client'[ci].alive = client[ci].alive
      /\ client'[ci].failed = f
  BY <1>1, CalledFields, Zenon DEF MountSyscall
<1>3. /\ UNCHANGED daemonVars /\ dismount' = dismount
      /\ tools' = tools /\ mg' = mg /\ mounts' = mounts /\ cpg' = cpg
  BY Zenon DEF MountSyscall, daemonVars
<1>4. w \in Uuids
  BY HandlerTypes, Zenon
<1>5. \A u \in Uuids : GroupOK(u)' /\ RegisterOK(u)' /\ IdleOK(u)'
  BY <1>3, DaemonUntouched, Zenon
<1>6. \A u \in Uuids :
        \/ kmounts'[u] = kmounts[u]
        \/ /\ u = w /\ ~f /\ client[ci].service = OCFS2_FS_NAME
           /\ dismount[w] = "no"
  <2>1. kmounts \in [Uuids -> 0..MaxMounts]
    BY Zenon DEF TypeOK
  <2> QED
    BY <1>1, <1>4, <2>1, Zenon
<1>7. f => mg[w].mg_services = {client[ci].service}
  BY <1>2, Zenon DEF SecondFails
<1>8. \A i \in Slots : SlotOK(i)' /\ HelperOK(i)'
  BY <1>2, <1>3, GoesOnSafe, Zenon
<1>9. ASSUME NEW i \in Slots PROVE ToldOK(i)'
  <2>1. ToldOK(i)
    BY Zenon DEF SafeInv
  <2> QED
    BY <1>2, <1>3, <1>7, <2>1 DEF ToldOK, Told, Mounting, OnlySlot
<1>10. \A u \in Uuids : AttachOK(u)'
  BY <1>2, <1>3, GoesOnAttached, Zenon
<1>11. /\ Mounting(w) /\ mg[w].mg_mount_ci = ci /\ mg[w].mg_registered
       /\ mg[w].mg_ms_in_progress = client[ci].service
       /\ cpg[w] = "joined"
  <2>1. ToldOK(ci) /\ AttachOK(w) /\ RegisterOK(w) /\ GroupOK(w) /\ ci # -1
    BY <1>4, ConstTypes, Zenon DEF SafeInv
  <2>2. /\ Mounting(w) /\ mg[w].mg_mount_ci = ci /\ mg[w].mg_registered
        /\ mg[w].mg_ms_in_progress = client[ci].service
    BY <1>2, <2>1, ZenonT(40) DEF ToldOK, Told, AttachOK, RegisterOK
  <2>3. cpg[w] \in {"none", "joining", "joined", "leaving"}
    BY <1>4, Zenon DEF TypeOK
  <2> QED
    BY <2>1, <2>2, <2>3, Zenon DEF GroupOK, Mounting, RegisterOK
<1>12. ASSUME NEW u \in Uuids PROVE KernelOK(u)'
  <2>1. KernelOK(u) /\ IdleOK(u) /\ (Mounting(u)' <=> Mounting(u))
    BY <1>3, Zenon DEF SafeInv, Mounting
  <2>2. mg[u].mg_mount_ci # -1 => mg[u].mg_mount_ci \in Slots
    BY AttachedSlot, Zenon
  <2>3. CASE kmounts'[u] = kmounts[u]
    BY <1>2, <1>3, <2>1, <2>2, <2>3 DEF KernelOK, IdleOK, OnlySlot
  <2>4. CASE u = w /\ ~f /\ client[ci].service = OCFS2_FS_NAME /\ dismount[w] = "no"
    BY <1>2, <1>3, <1>11, <2>4, Zenon DEF KernelOK, Mounting
  <2> QED
    BY <1>6, <2>3, <2>4, Zenon
<1> QED
  BY <1>3, <1>5, <1>8, <1>9, <1>10, <1>12, Zenon DEF SafeInv

(* A new connection takes a free slot and a free descriptor. *)
NewSlot(ci, req, u, s) ==
  /\ \A i \in Slots : i # ci => client'[i] = client[i]
  /\ client[ci].fd = -1 /\ client'[ci].fd # -1
  /\ \A i \in Slots : client[i].fd # client'[ci].fd
  /\ client'[ci].alive /\ client'[ci].pc = "sent" /\ ~client'[ci].failed
  /\ client'[ci].req = req /\ client'[ci].uuid = u /\ client'[ci].service = s

LEMMA ConnectionFields ==
  ASSUME TypeOK, NEW req \in {"MOUNT", "UNMOUNT"}, NEW u \in Uuids,
         NEW d \in Devices, NEW s \in Services,
         connection_add(Request(req, u, d, s))
  PROVE  \E ci \in Slots : NewSlot(ci, req, u, s)
<1> DEFINE c == Request(req, u, d, s)
<1>1. /\ c \in Client /\ c.alive /\ c.pc = "sent" /\ ~c.failed /\ c.req = req
      /\ c.uuid = u /\ c.service = s
  BY ConstTypes, Zenon DEF Request, Client, FreeSlot
<1>2. PICK ci \in Slots, fd \in Fds :
        /\ client[ci].fd = -1
        /\ \A i \in Slots : client[i].fd # fd
        /\ client' = [client EXCEPT ![ci] = [c EXCEPT !.fd = fd]]
  BY Zenon DEF connection_add
<1> HIDE DEF c
<1>3. client'[ci] = [c EXCEPT !.fd = fd] /\ \A i \in Slots : i # ci => client'[i] = client[i]
  BY <1>2, Zenon DEF TypeOK
<1>4. client'[ci].fd = fd /\ fd # -1
  BY <1>1, <1>3, ConstTypes, Zenon DEF Client
<1>5. /\ client'[ci].alive /\ client'[ci].pc = "sent" /\ ~client'[ci].failed
      /\ client'[ci].req = req /\ client'[ci].uuid = u /\ client'[ci].service = s
  BY <1>1, <1>3, Zenon DEF Client
<1>6. NewSlot(ci, req, u, s)
  BY <1>2, <1>3, <1>4, <1>5 DEF NewSlot
<1> QED
  BY <1>6, Zenon

LEMMA NewSlotSafe ==
  ASSUME TypeOK, SafeInv, UNCHANGED daemonVars,
         NEW ci \in Slots, NEW req, NEW w \in Uuids, NEW s,
         NewSlot(ci, req, w, s)
  PROVE  /\ \A i \in Slots : SlotOK(i)' /\ ToldOK(i)'
         /\ \A u \in Uuids : /\ GroupOK(u)' /\ RegisterOK(u)' /\ IdleOK(u)'
                             /\ AttachOK(u)'
         /\ \A u \in Uuids : mg[u].mg_mount_ci # ci
<1>1. ASSUME NEW u \in Uuids PROVE GroupOK(u)' /\ RegisterOK(u)' /\ IdleOK(u)'
  BY DaemonUntouched, Zenon
<1>2. \A u \in Uuids : mg[u].mg_mount_ci # ci
  BY AttachedSlot, ConstTypes DEF NewSlot
<1> USE DEF SafeInv, NewSlot, daemonVars
<1>3. ASSUME NEW i \in Slots PROVE SlotOK(i)'
  BY DEF SlotOK
<1>4. ASSUME NEW i \in Slots PROVE ToldOK(i)'
  BY SMTT(40) DEF ToldOK, Told, Mounting
<1>5. ASSUME NEW u \in Uuids PROVE AttachOK(u)'
  <2>1. AttachOK(u) /\ (mg[u].mg_mount_ci # -1 => mg[u].mg_mount_ci \in Slots)
    BY AttachedSlot, Zenon
  <2> QED
    BY <1>2, <2>1, Zenon DEF AttachOK, busy, Mounting
<1> QED
  BY <1>1, <1>2, <1>3, <1>4, <1>5, Zenon

LEMMA ConnectedSafe ==
  ASSUME TypeOK, SafeInv, NEW ci \in Slots, NEW req, NEW w \in Uuids, NEW s,
         NewSlot(ci, req, w, s), UNCHANGED daemonVars, UNCHANGED kmounts,
         tools' \subseteq tools,
         IF req = "UNMOUNT" /\ s = OCFS2_FS_NAME
           THEN /\ dismount[w] = "spawn"
                /\ dismount' = [dismount EXCEPT ![w] = "run"]
           ELSE UNCHANGED dismount
  PROVE  SafeInv'
<1>1. /\ \A i \in Slots : SlotOK(i)' /\ ToldOK(i)'
      /\ \A u \in Uuids : /\ GroupOK(u)' /\ RegisterOK(u)' /\ IdleOK(u)'
                          /\ AttachOK(u)'
      /\ \A u \in Uuids : mg[u].mg_mount_ci # ci
  BY NewSlotSafe, Zenon
<1>2. /\ \A u \in Uuids : u # w => dismount'[u] = dismount[u]
      /\ dismount[w] # "spawn" => dismount'[w] = dismount[w]
      /\ dismount'[w] \in {dismount[w], "run"}
      /\ req = "UNMOUNT" /\ s = OCFS2_FS_NAME =>
           dismount[w] = "spawn" /\ dismount'[w] = "run"
  BY Zenon DEF TypeOK
<1>3. ASSUME NEW u \in Uuids PROVE KernelOK(u)'
  <2>1. KernelOK(u) /\ (mg[u].mg_mount_ci # -1 => mg[u].mg_mount_ci \in Slots)
        /\ (Mounting(u) => mg[u].mg_mount_ci # -1)
    BY AttachedSlot, Zenon DEF SafeInv, IdleOK
  <2>2. kmounts[u] > 0 => dismount'[u] = "no"
    BY <1>2, <2>1, Zenon DEF KernelOK
  <2> QED
    BY <1>1, <2>1, <2>2, Zenon DEF KernelOK, Mounting, daemonVars, NewSlot
<1>4. ASSUME NEW i \in Slots PROVE HelperOK(i)'
  <2> USE DEF NewSlot, SafeInv
  <2>1. /\ \A j \in Slots : client[j].uuid \in Uuids
        /\ \A j \in Slots : HelperOK(j)
    BY HandlerTypes, Zenon
  <2> QED
    BY <1>2, <2>1 DEF HelperOK, IsHelper
<1> QED
  BY <1>1, <1>3, <1>4, Zenon DEF SafeInv

LEMMA ConnectSafe ==
  ASSUME TypeOK, SafeInv
  PROVE  /\ \A u \in Uuids, d \in Devices, s \in Services :
              ClientMount(u, d, s) => SafeInv'
         /\ \A u \in Uuids, s \in Services : ToolUnmount(u, s) => SafeInv'
         /\ \A u \in Uuids : HelperUnmount(u) => SafeInv'
<1>1. ASSUME NEW u \in Uuids, NEW d \in Devices, NEW s \in Services,
             ClientMount(u, d, s)
      PROVE  SafeInv'
  <2>1. PICK ci \in Slots : NewSlot(ci, "MOUNT", u, s)
    BY <1>1, ConnectionFields, Zenon DEF ClientMount
  <2> QED
    BY <1>1, <2>1, ConnectedSafe, Zenon DEF ClientMount, kernelVars
<1>2. ASSUME NEW u \in Uuids, NEW s \in Services, ToolUnmount(u, s)
      PROVE  SafeInv'
  <2>1. PICK ci \in Slots : NewSlot(ci, "UNMOUNT", u, s)
    BY <1>2, ConnectionFields, ConstTypes, Zenon DEF ToolUnmount
  <2>2. s # OCFS2_FS_NAME
    BY <1>2, Zenon DEF ToolUnmount, SafeInv
  <2> QED
    BY <1>2, <2>1, <2>2, ConnectedSafe, Zenon DEF ToolUnmount
<1>3. ASSUME NEW u \in Uuids, HelperUnmount(u)
      PROVE  SafeInv'
  <2>1. PICK ci \in Slots : NewSlot(ci, "UNMOUNT", u, OCFS2_FS_NAME)
    BY <1>3, ConnectionFields, ConstTypes, ConstAssumption, Zenon DEF HelperUnmount
  <2> QED
    BY <1>3, <2>1, ConnectedSafe, ZenonT(40) DEF HelperUnmount
<1> QED
  BY <1>1, <1>2, <1>3, Zenon

(* The programs' steps that touch no connection. *)
LEMMA KernelSafe ==
  ASSUME TypeOK, SafeInv
  PROVE  /\ \A u \in Uuids, s \in Services : ToolDies(u, s) => SafeInv'
         /\ \A u \in Uuids : KernelUmount(u) => SafeInv'
         /\ \A u \in Uuids : HelperFails(u) => SafeInv'
<1>1. \A u \in Uuids : client' = client /\ UNCHANGED daemonVars =>
        /\ GroupOK(u)' /\ RegisterOK(u)' /\ IdleOK(u)' /\ AttachOK(u)'
        /\ \A i \in Slots : SlotOK(i)' /\ ToldOK(i)'
  <2> SUFFICES ASSUME NEW u \in Uuids, client' = client, UNCHANGED daemonVars
               PROVE  /\ GroupOK(u)' /\ RegisterOK(u)' /\ IdleOK(u)' /\ AttachOK(u)'
                      /\ \A i \in Slots : SlotOK(i)' /\ ToldOK(i)'
    BY Zenon
  <2>1. GroupOK(u)' /\ RegisterOK(u)' /\ IdleOK(u)'
    BY DaemonUntouched, Zenon
  <2>2. AttachOK(u)'
    BY ZenonT(40) DEF SafeInv, AttachOK, daemonVars, Mounting, busy
  <2>3. \A i \in Slots : SlotOK(i)' /\ ToldOK(i)'
    BY DEF SafeInv, SlotOK, ToldOK, Told, Mounting, daemonVars
  <2> QED
    BY <2>1, <2>2, <2>3, Zenon
<1>2. ASSUME NEW u \in Uuids, NEW s \in Services, ToolDies(u, s)
      PROVE  SafeInv'
  <2>1. \A i \in Slots : HelperOK(i)'
    BY <1>2, Zenon DEF ToolDies, SafeInv, HelperOK, IsHelper
  <2>2. \A v \in Uuids : KernelOK(v)'
    BY <1>2, Zenon DEF ToolDies, SafeInv, KernelOK, Mounting, daemonVars
  <2>3. \A t \in tools' : t[2] # OCFS2_FS_NAME
    BY <1>2, Zenon DEF ToolDies, SafeInv
  <2>4. \A i \in Slots : SlotOK(i)' /\ ToldOK(i)'
    BY <1>1, <1>2, Zenon DEF ToolDies
  <2>5. \A v \in Uuids : GroupOK(v)' /\ RegisterOK(v)' /\ IdleOK(v)' /\ AttachOK(v)'
    BY <1>1, <1>2, Zenon DEF ToolDies
  <2> QED
    BY <2>1, <2>2, <2>3, <2>4, <2>5, Zenon DEF SafeInv
<1>3. ASSUME NEW u \in Uuids, KernelUmount(u) \/ HelperFails(u)
      PROVE  SafeInv'
  <2>1. client' = client /\ UNCHANGED daemonVars /\ tools' = tools
    BY <1>3, Zenon DEF KernelUmount, HelperFails
  <2>2. /\ \A v \in Uuids : kmounts[v] \in Nat /\ kmounts'[v] \in Nat
        /\ \A v \in Uuids : v # u => kmounts'[v] = kmounts[v]
                                     /\ dismount'[v] = dismount[v]
        /\ kmounts'[u] <= kmounts[u]
        /\ dismount[u] = "no" /\ kmounts'[u] # 0 => dismount'[u] = "no"
        /\ kmounts[u] > 0 \/ dismount[u] = "spawn"
    <3>1. kmounts \in [Uuids -> 0..MaxMounts] /\ MaxMounts \in Nat
          /\ dismount \in [Uuids -> {"no", "spawn", "run"}]
      BY ConstAssumption, Zenon DEF TypeOK
    <3>2. CASE KernelUmount(u)
      BY <3>1, <3>2 DEF KernelUmount
    <3>3. CASE HelperFails(u)
      BY <3>1, <3>3 DEF HelperFails
    <3> QED
      BY <1>3, <3>2, <3>3, Zenon
  <2>3. \A i \in Slots : HelperOK(i)'
    <3>1. \A i \in Slots : HelperOK(i) /\ client[i].uuid \in Uuids /\ KernelOK(u)
      BY HandlerTypes, Zenon DEF SafeInv
    <3>2. \A i \in Slots : IsHelper(client[i]) /\ client[i].alive
                             => client[i].uuid # u
      BY <2>2, <3>1, Zenon DEF HelperOK, KernelOK
    <3> QED
      BY <2>1, <2>2, <3>1, <3>2 DEF HelperOK, IsHelper
  <2>4. \A v \in Uuids : KernelOK(v)'
    BY <2>1, <2>2 DEF SafeInv, KernelOK, Mounting, daemonVars
  <2>5. \A v \in Uuids : GroupOK(v)' /\ RegisterOK(v)' /\ IdleOK(v)' /\ AttachOK(v)'
    BY <1>1, <2>1, Zenon
  <2>6. \A i \in Slots : SlotOK(i)' /\ ToldOK(i)'
    BY <1>1, <2>1, SMTT(40)
  <2> QED
    BY <2>1, <2>3, <2>4, <2>5, <2>6 DEF SafeInv
<1> QED
  BY <1>2, <1>3, Zenon

(* A program closes its connection or dies. *)
LEMMA DiesSafe ==
  ASSUME TypeOK, SafeInv, NEW ci \in Slots, ClientClose(ci) \/ ClientDies(ci)
  PROVE  SafeInv'
<1> DEFINE w == client[ci].uuid
<1>1. /\ OnlySlot(ci) /\ client'[ci].alive = FALSE
      /\ client'[ci].pc = client[ci].pc
      /\ client'[ci].failed = client[ci].failed
  BY EndedFields, Zenon DEF ClientClose, ClientDies
<1>2. /\ UNCHANGED daemonVars /\ kmounts' = kmounts
      /\ client[ci].alive /\ ~(IsHelper(client[ci]) /\ client[ci].pc = "sent")
      /\ dismount' = [dismount EXCEPT ![w] = IF IsHelper(client[ci]) THEN "no" ELSE @]
  BY Zenon DEF ClientClose, ClientDies
<1>3. w \in Uuids /\ \A u \in Uuids : mg[u] \in Mountgroup
  BY HandlerTypes, Zenon DEF TypeOK
<1>4. /\ \A v \in Uuids : dismount'[v] \in {dismount[v], "no"}
      /\ \A v \in Uuids : v # w \/ ~IsHelper(client[ci]) => dismount'[v] = dismount[v]
  BY <1>2, <1>3, Zenon DEF TypeOK
<1>5. \A t \in tools' : t[2] # OCFS2_FS_NAME
  BY DEF ClientClose, ClientDies, SafeInv
<1>6. ASSUME NEW u \in Uuids PROVE GroupOK(u)' /\ RegisterOK(u)' /\ IdleOK(u)'
  BY <1>2, DaemonUntouched, Zenon
<1>7. /\ mg' = mg /\ mounts' = mounts /\ cpg' = cpg
      /\ \A i \in Slots :
           /\ client'[i].fd = client[i].fd /\ client'[i].req = client[i].req
           /\ client'[i].uuid = client[i].uuid /\ client'[i].pc = client[i].pc
           /\ client'[i].service = client[i].service
           /\ client'[i].failed = client[i].failed
           /\ client'[i].alive => client[i].alive /\ i # ci
  BY <1>1, <1>2, Zenon DEF OnlySlot, daemonVars
<1>8. \A i \in Slots : SlotOK(i)' /\ ToldOK(i)'
  <2>1. \A i \in Slots : SlotOK(i) /\ ToldOK(i)
    BY Zenon DEF SafeInv
  <2>2. \A i \in Slots : SlotOK(i)'
    BY <1>7, <2>1 DEF SlotOK
  <2>3. \A i \in Slots : ToldOK(i)'
    BY <1>7, <2>1 DEF ToldOK, Told, Mounting
  <2> QED
    BY <2>2, <2>3, Zenon
<1>9. ASSUME NEW i \in Slots PROVE HelperOK(i)'
  <2>1. \A j \in Slots : HelperOK(j) /\ client[j].uuid \in Uuids
    BY HandlerTypes, Zenon DEF SafeInv
  <2>2. \A j \in Slots : IsHelper(client[j])' <=> IsHelper(client[j])
    BY <1>7, Zenon DEF IsHelper
  <2>3. IsHelper(client[i]) /\ client'[i].alive => dismount'[client[i].uuid] = "run"
    BY <1>2, <1>4, <1>7, <2>1 DEF HelperOK
  <2>4. IsHelper(client[i]) /\ client[i].pc = "sent" => client'[i].alive
    BY <1>1, <1>2, <2>1, Zenon DEF HelperOK, OnlySlot
  <2> QED
    BY <1>7, <2>1, <2>2, <2>3, <2>4 DEF HelperOK
<1>10. ASSUME NEW u \in Uuids PROVE AttachOK(u)' /\ KernelOK(u)'
  <2>1. AttachOK(u) /\ KernelOK(u) /\ IdleOK(u)
    BY Zenon DEF SafeInv
  <2>2. mg[u].mg_mount_ci # -1 => mg[u].mg_mount_ci \in Slots
    BY AttachedSlot, Zenon
  <2>3. AttachOK(u)'
    BY <1>7, <2>1, <2>2, ZenonT(40) DEF AttachOK, busy, Mounting
  <2>4. Mounting(u)' <=> Mounting(u)
    BY <1>7, Zenon DEF Mounting
  <2>5. Mounting(u) => mg[u].mg_mount_ci \in Slots
    BY <2>1, <2>2, Zenon DEF IdleOK
  <2>6. KernelOK(u)'
    BY <1>2, <1>4, <1>7, <2>1, <2>4, <2>5, Zenon DEF KernelOK
  <2> QED
    BY <2>3, <2>6, Zenon
<1> QED
  BY <1>5, <1>6, <1>8, <1>9, <1>10, Zenon DEF SafeInv

-----------------------------------------------------------------------------
(* CPG and dlm_controld. *)

(* A status sent to the client attached to a mountgroup reaches no other. *)
LEMMA NotifyFields ==
  ASSUME TypeOK, SafeInv, NEW ci \in Slots, client[ci].fd # -1,
         NEW status \in Statuses,
         client' = send_status(client, client[ci].fd, status)
  PROVE  /\ \A i \in Slots : i # ci => client'[i] = client[i]
         /\ client'[ci] = Receive(client[ci], status)
<1>1. \A i \in Slots : i # ci => client[i].fd # client[ci].fd
  BY Zenon DEF SafeInv, SlotOK
<1> QED
  BY <1>1, Zenon DEF send_status

LEMMA NotifyNobody ==
  ASSUME TypeOK, NEW status, client' = send_status(client, -1, status)
  PROVE  \A i \in Slots : client'[i] = client[i]
BY Zenon DEF send_status

LEMMA ShortTail ==
  ASSUME NEW S, NEW q \in Seq(S), Len(q) <= 1, q # <<>>
  PROVE  Tail(q) = <<>>
<1>0. Len(q) \in Nat /\ Len(q) # 0
  BY SMT
<1>1. Len(q) = 1
  BY <1>0, SMT
<1>2. Tail(q) \in Seq(S) /\ Len(Tail(q)) = 0
  BY <1>1, SMT
<1> QED
  BY <1>2

LEMMA FinishLeaveSafe ==
  ASSUME TypeOK, SafeInv, NEW u \in Uuids, cpg[u] # "none", FinishLeave(u), Up'
  PROVE  SafeInv'
<1>1. /\ GroupOK(u) /\ RegisterOK(u) /\ IdleOK(u) /\ AttachOK(u) /\ KernelOK(u)
      /\ mg[u] \in Mountgroup /\ kmounts[u] \in Nat
  BY ConstAssumption DEF SafeInv, TypeOK
<1>2. mounts[u] # 0
  BY <1>1, Zenon DEF GroupOK
<1>3. mg[u].mg_mount_ci # -1 =>
        /\ mg[u].mg_mount_ci \in Slots /\ client[mg[u].mg_mount_ci].fd # -1
        /\ client[mg[u].mg_mount_ci].uuid = u
  BY AttachedSlot, Zenon
<1>4. CASE mg[u].mg_services = {} /\ mg[u].mg_ms_in_progress # NoService
  <2>1. /\ client' = send_status(client, mg[u].mg_mount_fd, mg[u].mg_error)
        /\ free_mg(u, FALSE) /\ UNCHANGED <<dlm_fs, results, kernelVars>>
    BY <1>4, Zenon DEF FinishLeave, notify_mount_client
  <2>2. kmounts[u] = 0
    BY <1>1, <1>4 DEF KernelOK
  <2>3. \A i \in Slots : client[i].uuid = u => ~Told(i) /\ ToldOK(i)
    BY <1>4, Zenon DEF SafeInv, ToldOK, Mounting
  <2>4. CASE mg[u].mg_mount_ci = -1
    <3>1. mg[u].mg_mount_fd = -1
      BY <1>1, <2>4, Zenon DEF IdleOK
    <3>2. \A i \in Slots : client'[i] = client[i]
      BY <2>1, <3>1, NotifyNobody, Zenon
    <3>3. ClientsOf(u)
      BY <3>2, Zenon DEF ClientsOf
    <3>4. NoneTold(u)
      BY <2>3, <3>2, Zenon DEF NoneTold, ToldOK, Told
    <3> QED
      BY <1>2, <2>1, <2>2, <3>3, <3>4, FreeSafe, Zenon DEF NoneTold
  <2>5. CASE mg[u].mg_mount_ci # -1
    <3>1. PICK ci \in Slots : mg[u].mg_mount_ci = ci
      BY <1>3, <2>5, Zenon
    <3>2. PICK c \in Client : c = client[ci]
      BY Zenon DEF TypeOK
    <3>3. PICK st \in Statuses : st = mg[u].mg_error
      BY <1>1, StatusTypes, Zenon
    <3>4. /\ c.fd # -1 /\ c.uuid = u /\ mg[u].mg_mount_fd = c.fd
          /\ c.pc \in {"wait", "rwait"}
          /\ c.req = "MOUNT" /\ c.pc = "wait" => st \notin {OK, "EALREADY"}
      BY <1>1, <1>3, <1>4, <2>5, <3>1, <3>2, <3>3 DEF AttachOK, Mounting
    <3> DEFINE r == Receive(c, st)
    <3>5. /\ \A i \in Slots : i # ci => client'[i] = client[i]
          /\ client'[ci] = r
      BY <2>1, <3>2, <3>3, <3>4, NotifyFields
    <3>6. /\ r.fd = c.fd /\ r.alive = c.alive /\ r.req = c.req /\ r.uuid = c.uuid
          /\ r.service = c.service
      BY <3>2, <3>3, ReceiveFields
    <3>7. /\ r.pc \in {"wait", "rwait", "done"}
          /\ r.pc = "wait" => r = c
      BY <3>4, Zenon DEF Receive, Client
    <3> HIDE DEF r
    <3>8. Kept(ci) /\ c.uuid = u
      BY <3>2, <3>4, <3>5, <3>6, <3>7, Zenon DEF Kept
    <3>9. ClientsOf(u)
      BY <3>2, <3>5, <3>8, Zenon DEF ClientsOf
    <3>10. NoneTold(u)
      <4>1. ToldOK(ci)
        BY Zenon DEF SafeInv
      <4> QED
        BY <2>3, <3>2, <3>5, <3>6, <3>7, <4>1 DEF NoneTold, ToldOK, Told
    <3> QED
      BY <1>2, <2>1, <2>2, <3>9, <3>10, FreeSafe, Zenon DEF NoneTold
  <2> QED
    BY <2>4, <2>5, Zenon
<1>5. CASE ~(mg[u].mg_services = {} /\ mg[u].mg_ms_in_progress # NoService)
  <2>1. ~mg[u].mg_group
    BY <1>5, Zenon DEF FinishLeave, end_process, Up
  <2>2. /\ client' = [ci \in Slots |-> IF ci = mg[u].mg_mount_ci THEN FreeSlot
                                                                 ELSE client[ci]]
        /\ free_mg(u, FALSE) /\ UNCHANGED <<dlm_fs, results, kernelVars>>
    BY <1>5, <2>1, Zenon DEF FinishLeave
  <2>3. kmounts[u] = 0
    <3>1. ~mg[u].mg_registered
      BY <1>1, <2>1, ZenonT(40) DEF RegisterOK
    <3> QED
      BY <1>1, <2>1, <3>1 DEF KernelOK
  <2>4. \A i \in Slots : client[i].uuid = u => ~Told(i) /\ ToldOK(i)
    BY <1>1, <2>1 DEF SafeInv, ToldOK, RegisterOK
  <2>5. /\ \A i \in Slots : \/ client'[i] = client[i]
                            \/ client'[i] = FreeSlot /\ client[i].uuid = u
        /\ FreeSlot.pc = "done"
    BY <1>3, <2>2, ConstTypes, Zenon DEF FreeSlot
  <2>6. ClientsOf(u)
    BY <2>5, Zenon DEF ClientsOf
  <2>7. NoneTold(u)
    BY <2>4, <2>5, Zenon DEF NoneTold, ToldOK, Told
  <2> QED
    BY <1>2, <2>2, <2>3, <2>6, <2>7, FreeSafe, Zenon DEF NoneTold
<1> QED
  BY <1>4, <1>5, Zenon

(* dlm_controld's answer to a registration. *)
LEMMA ResultReadSafe ==
  ASSUME TypeOK, SafeInv, NEW u \in Uuids, RegisterResult(u)
  PROVE  SafeInv'
<1>1. /\ results[u] # <<>> /\ register_list[u].live
      /\ results' = [results EXCEPT ![u] = Tail(@)]
      /\ mounts' = mounts /\ orphan' = orphan /\ UNCHANGED kernelVars
  <2>1. /\ results[u] # <<>> /\ register_list[u].live
        /\ results' = [results EXCEPT ![u] = Tail(@)]
        /\ UNCHANGED <<daemon, mounts, orphan, kernelVars>>
    BY Zenon DEF RegisterResult
  <2> QED
    BY <2>1, Zenon
<1>2. /\ GroupOK(u) /\ RegisterOK(u) /\ IdleOK(u) /\ AttachOK(u) /\ KernelOK(u)
      /\ mg \in [Uuids -> Mountgroup] /\ kmounts[u] \in Nat
      /\ results[u] \in Seq({OK, "EREGISTER"}) /\ NoService \notin Services
      /\ cpg[u] \in {"none", "joining", "joined", "leaving"}
      /\ results \in [Uuids -> Seq({OK, "EREGISTER"})]
      /\ cpg \in [Uuids -> {"none", "joining", "joined", "leaving"}]
  BY ConstAssumption DEF SafeInv, TypeOK
<1>3. /\ results'[u] = <<>> /\ \A v \in Uuids \ {u} : results'[v] = results[v]
      /\ Len(results'[u]) <= 1
  <2>1. PICK q \in Seq({OK, "EREGISTER"}) : q = results[u]
    BY <1>2, Zenon
  <2>2. Len(q) <= 1 /\ q # <<>>
    BY <1>1, <1>2, <2>1, Zenon DEF RegisterOK
  <2>4. Tail(q) = <<>>
    BY <2>1, <2>2, ShortTail, Zenon
  <2>5. results'[u] = <<>> /\ \A v \in Uuids \ {u} : results'[v] = results[v]
    BY <1>1, <1>2, <2>1, <2>4, Zenon
  <2> QED
    BY <2>5
<1>4. PICK m \in Mountgroup : m = mg[u]
  BY <1>2, Zenon
<1>5. /\ m.mg_group /\ ~m.mg_registered /\ m.mg_ms_in_progress # NoService
      /\ mounts[u] # 0 /\ kmounts[u] = 0
      /\ m.mg_services = {} => m.mg_mount_ci = -1 /\ m.mg_mount_fd = -1
      /\ Head(results[u]) = OK => dlm_fs[u]
  BY <1>1, <1>2, <1>4 DEF RegisterOK, KernelOK, busy, IdleOK
<1>6. PICK ms \in Services : ms = m.mg_ms_in_progress
  BY <1>5, Zenon DEF Mountgroup
<1>7. /\ m.mg_services = {} => cpg[u] = "leaving"
      /\ m.mg_services # {} => cpg[u] = "joined" /\ m.mg_services = {ms} /\ Mounting(u)
  BY <1>2, <1>4, <1>5, <1>6, Zenon DEF GroupOK, RegisterOK, Mounting
<1>8. ~(Mounting(u) /\ m.mg_mount_notified)
  BY <1>2, <1>4, <1>5, Zenon DEF RegisterOK
<1>9. \A i \in Slots : client[i].uuid = u => ~Told(i) /\ ToldOK(i)
  BY <1>4, <1>8, Zenon DEF SafeInv, ToldOK
<1> DEFINE failed == fill_error(m, "EREGISTER")
           registered == [m EXCEPT !.mg_registered = TRUE]
           gone == remove_service(failed, ms)
<1>10. \/ /\ mg' = [mg EXCEPT ![u] = gone]
          /\ leave_effect(u, m, ms)
          /\ unregister_effect(u, m, ms)
          /\ UNCHANGED client
       \/ /\ Head(results[u]) = OK
          /\ mg' = [mg EXCEPT ![u] = notified(registered)]
          /\ client' = notify_mount_client(client, registered)
          /\ UNCHANGED <<cpg, register_list, dlm_fs>>
  BY <1>4, <1>5, <1>6, Zenon DEF RegisterResult
<1>11. CASE /\ mg' = [mg EXCEPT ![u] = gone]
            /\ leave_effect(u, m, ms)
            /\ unregister_effect(u, m, ms)
            /\ UNCHANGED client
  <2>1. "EREGISTER" \in Statuses /\ "EREGISTER" \notin {OK, "EALREADY"}
    BY StatusTypes, Zenon DEF OK
  <2>2. /\ failed \in Mountgroup
        /\ failed.mg_error = IF m.mg_error # OK THEN m.mg_error ELSE "EREGISTER"
        /\ failed.mg_services = m.mg_services
        /\ failed.mg_ms_in_progress = m.mg_ms_in_progress
        /\ failed.mg_mount_notified = m.mg_mount_notified
        /\ failed.ms_additional = m.ms_additional
        /\ failed.mg_registered = m.mg_registered
        /\ failed.mg_mount_ci = m.mg_mount_ci /\ failed.mg_mount_fd = m.mg_mount_fd
    BY <2>1, FillErrorFields, Zenon
  <2> HIDE DEF failed
  <2>3. /\ gone.mg_services = failed.mg_services \ {ms}
        /\ gone.mg_mount_ci = failed.mg_mount_ci
        /\ gone.mg_mount_fd = failed.mg_mount_fd
        /\ gone.mg_mount_notified = failed.mg_mount_notified
        /\ gone.mg_error = failed.mg_error
    BY <2>2, RemoveServiceFields, Zenon
  <2>4. gone.mg_ms_in_progress = ms
    BY <1>6, <2>2, RemoveServiceFields, Zenon
  <2>5. /\ ms = OCFS2_FS_NAME => ~gone.ms_additional
        /\ ms # OCFS2_FS_NAME => gone.ms_additional = failed.ms_additional
        /\ last_service(failed, ms) => ~gone.mg_registered
        /\ ~last_service(failed, ms) => gone.mg_registered = failed.mg_registered
    BY <2>2, RemoveServiceFlags, Zenon
  <2> HIDE DEF gone
  <2>6. ~gone.mg_registered
    BY <1>5, <2>2, <2>5, Zenon
  <2>7. gone.ms_additional => gone.mg_mount_notified
    <3>1. m.ms_additional => m.mg_mount_notified
      BY <1>2, <1>4, Zenon DEF IdleOK
    <3> QED
      BY <2>2, <2>3, <2>5, <3>1, Zenon
  <2>8. gone.mg_error # "EALREADY" /\ gone.mg_error # OK
    BY <1>2, <1>4, <2>1, <2>2, <2>3, Zenon DEF IdleOK, OK
  <2>9. mg'[u] = gone /\ \A v \in Uuids \ {u} : mg'[v] = mg[v]
    BY <1>2, <1>11, Zenon
  <2>10. cpg'[u] = "leaving" /\ \A v \in Uuids \ {u} : cpg'[v] = cpg[v]
    BY <1>2, <1>5, <1>7, <1>11, Zenon DEF leave_effect, last_service
  <2>11. register_list' = register_list /\ dlm_fs' = dlm_fs /\ client' = client
    BY <1>5, <1>11, Zenon DEF unregister_effect
  <2>12. /\ mg'[u].mg_services = {} /\ mg'[u].mg_ms_in_progress = ms
         /\ mg'[u].mg_mount_ci = mg[u].mg_mount_ci
         /\ mg'[u].mg_mount_fd = mg[u].mg_mount_fd
         /\ mg'[u].mg_error \notin {OK, "EALREADY"}
         /\ ~mg'[u].mg_registered
         /\ mg'[u].ms_additional => mg'[u].mg_mount_notified
    BY <1>4, <1>7, <2>2, <2>3, <2>4, <2>6, <2>7, <2>8, <2>9, Zenon
  <2>13. LocalTo(u)
    BY <1>1, <1>3, <2>9, <2>10, <2>11, Zenon DEF LocalTo
  <2>14. ClientsOf(u) /\ NoneTold(u)
    BY <1>9, <2>11, Zenon DEF ClientsOf, NoneTold, Told, ToldOK
  <2>15. AttachOK(u)'
    <3>1. mg[u].mg_mount_ci # -1 =>
            /\ mg[u].mg_mount_ci \in Slots /\ Mounting(u)
            /\ client[mg[u].mg_mount_ci].pc = "wait"
      BY <1>2, <1>4, <1>5, <1>7, <1>9, AttachedSlot, ZenonT(40) DEF AttachOK, Told
    <3> QED
      BY <1>2, <1>4, <1>6, <2>11, <2>12, <3>1, Zenon DEF AttachOK, busy, Mounting
  <2>16. mg[u].mg_mount_ci = -1 <=> mg[u].mg_mount_fd = -1
    BY <1>2, Zenon DEF IdleOK
  <2> QED
    BY <1>1, <1>2, <1>3, <1>5, <2>10, <2>12, <2>13, <2>14, <2>15, <2>16, LeavingSafe, Zenon
<1>12. CASE /\ Head(results[u]) = OK
            /\ mg' = [mg EXCEPT ![u] = notified(registered)]
            /\ client' = notify_mount_client(client, registered)
            /\ UNCHANGED <<cpg, register_list, dlm_fs>>
  <2>1. /\ registered \in Mountgroup /\ registered.mg_registered = TRUE
        /\ registered.mg_group = m.mg_group
        /\ registered.mg_services = m.mg_services
        /\ registered.mg_ms_in_progress = m.mg_ms_in_progress
        /\ registered.mg_mount_notified = m.mg_mount_notified
        /\ registered.ms_additional = m.ms_additional
        /\ registered.mg_error = m.mg_error
        /\ registered.mg_mount_ci = m.mg_mount_ci
        /\ registered.mg_mount_fd = m.mg_mount_fd
    BY Zenon DEF Mountgroup
  <2>2. client' = send_status(client, m.mg_mount_fd, m.mg_error)
    BY <1>12, <2>1, Zenon DEF notify_mount_client
  <2> HIDE DEF registered
  <2> DEFINE z == notified(registered)
  <2>3. /\ z.mg_error = OK /\ z.mg_registered = registered.mg_registered
        /\ z.mg_group = registered.mg_group
        /\ z.mg_services = registered.mg_services
        /\ z.mg_ms_in_progress = registered.mg_ms_in_progress
        /\ z.ms_additional = registered.ms_additional
        /\ z.mg_mount_ci = registered.mg_mount_ci
        /\ z.mg_mount_fd = registered.mg_mount_fd
    BY <2>1, NotifiedFields, Zenon
  <2>4. /\ peer_alive(registered.mg_mount_fd) => z.mg_mount_notified
        /\ ~peer_alive(registered.mg_mount_fd) =>
             z.mg_mount_notified = registered.mg_mount_notified
    BY <2>1, NotifiedFlag, Zenon
  <2> HIDE DEF z
  <2>5. z.ms_additional => z.mg_mount_notified
    <3>1. m.ms_additional => m.mg_mount_notified
      BY <1>2, <1>4, Zenon DEF IdleOK
    <3> QED
      BY <2>1, <2>3, <2>4, <3>1, Zenon
  <2>6. mg'[u] = z /\ \A v \in Uuids \ {u} : mg'[v] = mg[v]
    BY <1>2, <1>12, Zenon DEF z
  <2>7. /\ cpg' = cpg /\ register_list' = register_list /\ dlm_fs' = dlm_fs
        /\ LocalTo(u)
    BY <1>1, <1>3, <1>12, <2>6, Zenon DEF LocalTo
  <2>8. /\ mg'[u].mg_error = OK /\ mg'[u].mg_registered /\ mg'[u].mg_group
        /\ mg'[u].mg_services = m.mg_services /\ mg'[u].mg_ms_in_progress = ms
        /\ mg'[u].mg_mount_ci = m.mg_mount_ci /\ mg'[u].mg_mount_fd = m.mg_mount_fd
        /\ mg'[u].ms_additional => mg'[u].mg_mount_notified
        /\ mg'[u].ms_additional = m.ms_additional
    BY <1>5, <1>6, <2>1, <2>3, <2>5, <2>6, Zenon
  <2>9. OK # "EALREADY" /\ ms # NoService
    BY <1>2, <1>6, Zenon DEF OK
  <2>10. CASE m.mg_services = {}
    <3>1. \A i \in Slots : client'[i] = client[i]
      BY <1>5, <2>2, <2>10, NotifyNobody, Zenon
    <3>2. ClientsOf(u) /\ NoneTold(u)
      BY <1>9, <3>1, ZenonT(40) DEF ClientsOf, NoneTold, Told, ToldOK
    <3>3. AttachOK(u)'
      BY <1>5, <2>8, <2>10, Zenon DEF AttachOK
    <3> QED
      BY <1>1, <1>3, <1>5, <1>7, <1>12, <2>7, <2>8, <2>9, <2>10, <3>2, <3>3, LeavingSafe
  <2>11. CASE m.mg_services # {}
    <3>1. /\ cpg[u] = "joined" /\ m.mg_services = {ms} /\ Mounting(u)
          /\ m.mg_error = OK /\ ~m.mg_mount_notified
      BY <1>2, <1>4, <1>7, <1>8, <2>11, Zenon DEF IdleOK
    <3>2. PICK ci \in Slots : mg[u].mg_mount_ci = ci /\ ci # -1
      BY <1>2, <3>1, AttachedSlot, Zenon DEF IdleOK
    <3>3. PICK c \in Client : c = client[ci]
      BY Zenon DEF TypeOK
    <3>4. /\ c.fd # -1 /\ c.uuid = u /\ m.mg_mount_fd = c.fd /\ c.service = ms
          /\ c.pc = "wait" /\ c.req = "MOUNT" /\ ~c.failed
      BY <1>2, <1>4, <1>6, <1>9, <3>1, <3>2, <3>3, AttachedSlot, Zenon DEF AttachOK, Told, ToldOK
    <3> DEFINE r == Receive(c, OK)
    <3>5. /\ \A i \in Slots : i # ci => client'[i] = client[i]
          /\ client'[ci] = r
      BY <2>2, <3>1, <3>3, <3>4, NotifyFields, StatusTypes, Zenon
    <3>6. r = IF c.alive THEN [c EXCEPT !.pc = "joined"] ELSE c
      BY <3>4, Zenon DEF Receive
    <3>7. /\ r.fd = c.fd /\ r.alive = c.alive /\ r.req = c.req /\ r.uuid = c.uuid
          /\ r.service = c.service /\ r.failed = c.failed
          /\ r.pc \in {"wait", "joined"}
          /\ r.pc = "joined" => c.alive
      BY <3>3, <3>4, <3>6, Zenon DEF Client
    <3> HIDE DEF r
    <3>8. c.alive => mg'[u].mg_mount_notified
      <4>1. c.alive => peer_alive(m.mg_mount_fd)
        BY <3>3, <3>4, Zenon DEF peer_alive
      <4> QED
        BY <2>1, <2>4, <2>6, <4>1, Zenon
    <3>9. Kept(ci)
      BY <3>3, <3>4, <3>5, <3>7, Zenon DEF Kept
    <3>10. ClientsOf(u)
      BY <3>3, <3>4, <3>5, <3>9, Zenon DEF ClientsOf
    <3>11. GroupOK(u)'
      BY <1>1, <1>5, <2>7, <2>8, <2>11, <3>1, Zenon DEF GroupOK
    <3>12. RegisterOK(u)'
      BY <1>1, <1>3, <1>5, <1>12, <2>7, <2>8, Zenon DEF RegisterOK
    <3>13. IdleOK(u)'
      BY <1>2, <1>4, <2>8, <2>9, <3>2, Zenon DEF IdleOK, busy
    <3>14. AttachOK(u)'
      BY <1>1, <1>4, <1>5, <2>8, <2>9, <3>1, <3>2, <3>4, <3>5, <3>7
         DEF AttachOK, busy, Mounting
    <3>15. KernelOK(u)'
      BY <1>1, <1>5 DEF KernelOK, kernelVars
    <3>16. ASSUME NEW i \in Slots, client[i].uuid = u PROVE ToldOK(i)'
      <4>1. CASE i # ci
        BY <1>9, <3>5, <3>16, <4>1, Zenon DEF ToldOK, Told
      <4>2. CASE i = ci
        BY <1>1, <1>4, <1>5, <2>8, <3>1, <3>2, <3>4, <3>5, <3>7, <3>8, <4>2
           DEF ToldOK, Told, Mounting
      <4> QED
        BY <4>1, <4>2, Zenon
    <3> QED
      BY <2>7, <3>10, <3>11, <3>12, <3>13, <3>14, <3>15, <3>16, LocalSafe, Zenon DEF FilesystemOK
  <2> QED
    BY <2>10, <2>11, Zenon
<1> QED
  BY <1>10, <1>11, <1>12, Zenon


-----------------------------------------------------------------------------
(* One step of anybody keeps the invariant. *)

(* Nothing that is registered is left when the join is delivered. *)
LEMMA FinishJoinSafe ==
  ASSUME TypeOK, SafeInv, ~Overtaken, NEW u \in Uuids, FinishJoin(u)
  PROVE  SafeInv'
<1>1. /\ cpg[u] = "joining" /\ mounts' = mounts /\ client' = client
      /\ orphan' = orphan /\ UNCHANGED kernelVars
  <2>1. /\ cpg[u] = "joining"
        /\ UNCHANGED <<daemon, mounts, orphan, client, kernelVars>>
    BY Zenon DEF FinishJoin
  <2> QED
    BY <2>1, Zenon
<1>2. /\ GroupOK(u) /\ RegisterOK(u) /\ IdleOK(u) /\ AttachOK(u) /\ KernelOK(u)
      /\ mg \in [Uuids -> Mountgroup] /\ kmounts[u] \in Nat
      /\ NoService \notin Services /\ results[u] \in Seq({OK, "EREGISTER"})
  BY ConstAssumption DEF SafeInv, TypeOK
<1>3. results[u] = <<>>
  <2>1. PICK c \in {"joined", "leaving"} : cpg' = [cpg EXCEPT ![u] = c]
    BY Zenon DEF FinishJoin
  <2>2. cpg'[u] \in {"joined", "leaving"}
    BY <2>1, Zenon DEF TypeOK
  <2> QED
    BY <1>1, <2>2, Zenon DEF Overtaken
<1>4. PICK m \in Mountgroup : m = mg[u]
  BY <1>2, Zenon
<1>5. /\ ~m.mg_group /\ ~register_list[u].live /\ mounts[u] # 0
      /\ m.mg_ms_in_progress # NoService /\ kmounts[u] = 0 /\ ~m.mg_registered
      /\ \/ m.mg_leave_on_join /\ m.mg_services = {}
         \/ m.mg_services = {m.mg_ms_in_progress}
  BY <1>1, <1>2, <1>4 DEF GroupOK, RegisterOK, KernelOK, busy
<1>6. PICK ms \in Services : ms = m.mg_ms_in_progress
  BY <1>5, Zenon DEF Mountgroup
<1>7. ~(Mounting(u) /\ m.mg_mount_notified)
  BY <1>2, <1>4, <1>5, Zenon DEF RegisterOK
<1>8. \A i \in Slots : client[i].uuid = u => ~Told(i) /\ ToldOK(i)
  BY <1>4, <1>7, Zenon DEF SafeInv, ToldOK
<1>9. ClientsOf(u) /\ NoneTold(u)
  BY <1>1, <1>8, Zenon DEF ClientsOf, NoneTold, Told, ToldOK
<1> DEFINE joined == [m EXCEPT !.mg_group = TRUE]
           unregistered == fill_error(joined, "EREGISTER")
           gone == remove_service(unregistered, ms)
<1>10. \/ /\ ms \notin m.mg_services
          /\ cpg' = [cpg EXCEPT ![u] = IF ms # NoService /\ m.mg_leave_on_join
                                         THEN "leaving" ELSE "joined"]
          /\ UNCHANGED <<mg, register_list, dlm_fs, results>>
       \/ /\ ms \in m.mg_services
          /\ mg' = [mg EXCEPT ![u] = joined]
          /\ cpg' = [cpg EXCEPT ![u] = "joined"]
          /\ dlmcontrol_register(u)
       \/ /\ ms \in m.mg_services
          /\ mg' = [mg EXCEPT ![u] = gone]
          /\ cpg' = [cpg EXCEPT ![u] = IF last_service(m, ms) THEN "leaving"
                                                              ELSE "joined"]
          /\ UNCHANGED <<register_list, dlm_fs, results>>
  BY <1>4, <1>6, Zenon DEF FinishJoin
<1>11. CASE /\ ms \notin m.mg_services
            /\ cpg' = [cpg EXCEPT ![u] = IF ms # NoService /\ m.mg_leave_on_join
                                           THEN "leaving" ELSE "joined"]
            /\ UNCHANGED <<mg, register_list, dlm_fs, results>>
  <2>1. m.mg_services = {} /\ m.mg_leave_on_join /\ ms # NoService
    BY <1>5, <1>6, <1>11, Zenon
  <2>2. cpg'[u] = "leaving" /\ \A v \in Uuids \ {u} : cpg'[v] = cpg[v]
    BY <1>11, <2>1, Zenon DEF TypeOK
  <2>3. LocalTo(u)
    BY <1>1, <1>11, <2>2, Zenon DEF LocalTo
  <2>4. AttachOK(u)'
    BY <1>1, <1>2, <1>11, Zenon DEF AttachOK, busy, Mounting
  <2>5. Len(results'[u]) <= 1 /\ results'[u] = <<>>
    BY <1>3, <1>11
  <2>6. mg' = mg
    BY <1>11, Zenon
  <2>7. /\ mg[u].mg_error # "EALREADY"
        /\ mg[u].ms_additional => mg[u].mg_mount_notified
        /\ mg[u].mg_mount_ci = -1 <=> mg[u].mg_mount_fd = -1
    BY <1>2, Zenon DEF IdleOK
  <2> QED
    BY <1>1, <1>4, <1>5, <1>9, <2>1, <2>2, <2>3, <2>4, <2>5, <2>6, <2>7, LeavingSafe, Zenon
<1>12. /\ joined \in Mountgroup /\ joined.mg_group = TRUE
       /\ joined.mg_registered = m.mg_registered
       /\ joined.mg_services = m.mg_services /\ joined.mg_error = m.mg_error
       /\ joined.mg_mount_notified = m.mg_mount_notified
       /\ joined.ms_additional = m.ms_additional
       /\ joined.mg_ms_in_progress = m.mg_ms_in_progress
       /\ joined.mg_mount_ci = m.mg_mount_ci /\ joined.mg_mount_fd = m.mg_mount_fd
  BY Zenon DEF Mountgroup
<1> HIDE DEF joined
<1>13. CASE /\ ms \in m.mg_services
            /\ mg' = [mg EXCEPT ![u] = joined]
            /\ cpg' = [cpg EXCEPT ![u] = "joined"]
            /\ dlmcontrol_register(u)
  <2>1. PICK status \in {OK, "EREGISTER"} :
          /\ register_list' = [register_list EXCEPT ![u].live = TRUE]
          /\ results' = [results EXCEPT ![u] = Append(@, status)]
          /\ dlm_fs' = [dlm_fs EXCEPT ![u] = IF status = OK THEN TRUE ELSE @]
    BY <1>13, Zenon DEF dlmcontrol_register
  <2>2. /\ results'[u] = <<status>> /\ \A v \in Uuids \ {u} : results'[v] = results[v]
    BY <1>3, <2>1 DEF TypeOK
  <2>3. /\ Len(results'[u]) = 1 /\ Head(results'[u]) = status /\ results'[u] # <<>>
    BY <2>2
  <2>4. /\ register_list'[u].live
        /\ \A v \in Uuids \ {u} : register_list'[v] = register_list[v]
    BY <2>1, Zenon DEF TypeOK
  <2>5. /\ status = OK => dlm_fs'[u]
        /\ \A v \in Uuids \ {u} : dlm_fs'[v] = dlm_fs[v]
    BY <2>1, Zenon DEF TypeOK
  <2>6. /\ mg'[u] = joined /\ \A v \in Uuids \ {u} : mg'[v] = mg[v]
        /\ cpg'[u] = "joined" /\ \A v \in Uuids \ {u} : cpg'[v] = cpg[v]
    BY <1>2, <1>13, Zenon DEF TypeOK
  <2>7. LocalTo(u)
    BY <1>1, <2>2, <2>4, <2>5, <2>6, Zenon DEF LocalTo
  <2>8. m.mg_services = {ms} /\ Mounting(u) /\ ~m.mg_mount_notified
    BY <1>4, <1>5, <1>6, <1>7, <1>13, Zenon DEF Mounting
  <2>9. GroupOK(u)'
    BY <1>1, <1>5, <1>12, <2>6, <2>8, Zenon DEF GroupOK
  <2>10. RegisterOK(u)'
    <3>1. /\ mounts'[u] # 0 /\ mg'[u].mg_group /\ ~mg'[u].mg_registered
          /\ mg'[u].mg_ms_in_progress = ms /\ mg'[u].mg_services = {ms}
          /\ ~mg'[u].mg_mount_notified /\ busy(mg'[u])
      BY <1>1, <1>5, <1>6, <1>12, <2>6, <2>8 DEF busy
    <3>2. Len(results'[u]) <= 1
      BY <2>3
    <3> QED
      BY <2>3, <2>4, <2>5, <3>1, <3>2, Zenon DEF RegisterOK
  <2>11. IdleOK(u)'
    BY <1>1, <1>2, <1>4, <1>12, <2>6, Zenon DEF IdleOK, busy, Mounting
  <2>12. AttachOK(u)'
    BY <1>1, <1>2, <1>4, <1>12, <2>6, Zenon DEF AttachOK, busy, Mounting
  <2>13. KernelOK(u)'
    BY <1>1, <1>5 DEF KernelOK, kernelVars
  <2>14. \A i \in Slots : client[i].uuid = u => ToldOK(i)'
    BY <1>9, Zenon DEF NoneTold, ToldOK, Told
  <2> QED
    BY <1>9, <2>7, <2>9, <2>10, <2>11, <2>12, <2>13, <2>14, LocalSafe DEF FilesystemOK
<1>14. CASE /\ ms \in m.mg_services
            /\ mg' = [mg EXCEPT ![u] = gone]
            /\ cpg' = [cpg EXCEPT ![u] = IF last_service(m, ms) THEN "leaving"
                                                                ELSE "joined"]
            /\ UNCHANGED <<register_list, dlm_fs, results>>
  <2>1. m.mg_services = {ms} /\ Mounting(u) /\ ~m.mg_mount_notified
    BY <1>4, <1>5, <1>6, <1>7, <1>14, Zenon DEF Mounting
  <2>2. m.mg_error = OK /\ OK # "EALREADY" /\ "EREGISTER" \in Statuses
        /\ "EREGISTER" \notin {OK, "EALREADY"}
        /\ (m.mg_mount_ci = -1 <=> m.mg_mount_fd = -1)
    BY <1>2, <1>4, <2>1, StatusTypes, Zenon DEF IdleOK, OK
  <2>3. /\ unregistered \in Mountgroup
        /\ unregistered.mg_error =
             IF joined.mg_error # OK THEN joined.mg_error ELSE "EREGISTER"
        /\ unregistered.mg_services = joined.mg_services
        /\ unregistered.mg_mount_notified = joined.mg_mount_notified
        /\ unregistered.ms_additional = joined.ms_additional
        /\ unregistered.mg_mount_ci = joined.mg_mount_ci
        /\ unregistered.mg_mount_fd = joined.mg_mount_fd
    BY <1>12, <2>2, FillErrorFields, Zenon
  <2> HIDE DEF unregistered
  <2>4. last_service(unregistered, ms) /\ last_service(m, ms)
    BY <1>12, <2>1, <2>3, Zenon DEF last_service
  <2>5. /\ gone.mg_services = unregistered.mg_services \ {ms}
        /\ gone.mg_mount_ci = unregistered.mg_mount_ci
        /\ gone.mg_mount_fd = unregistered.mg_mount_fd
        /\ gone.mg_mount_notified = unregistered.mg_mount_notified
        /\ gone.mg_error = unregistered.mg_error /\ gone.mg_ms_in_progress = ms
    BY <2>3, <2>4, RemoveServiceFields, Zenon
  <2>6. /\ ms = OCFS2_FS_NAME => ~gone.ms_additional
        /\ ms # OCFS2_FS_NAME => gone.ms_additional = unregistered.ms_additional
        /\ ~gone.mg_registered
    BY <2>3, <2>4, RemoveServiceFlags, Zenon
  <2> HIDE DEF gone
  <2>7. ~m.ms_additional
    BY <1>2, <1>4, <2>1, Zenon DEF IdleOK
  <2>8. ~gone.ms_additional
    BY <1>12, <2>3, <2>6, <2>7, Zenon
  <2>9. mg'[u] = gone /\ \A v \in Uuids \ {u} : mg'[v] = mg[v]
    BY <1>2, <1>14, Zenon
  <2>10. cpg'[u] = "leaving" /\ \A v \in Uuids \ {u} : cpg'[v] = cpg[v]
    BY <1>14, <2>4, Zenon DEF TypeOK
  <2>11. /\ mg'[u].mg_services = {} /\ mg'[u].mg_ms_in_progress = ms
         /\ mg'[u].mg_error = "EREGISTER" /\ ~mg'[u].mg_registered
         /\ ~mg'[u].ms_additional /\ mg'[u].mg_mount_ci = mg[u].mg_mount_ci
         /\ mg'[u].mg_mount_fd = mg[u].mg_mount_fd
    BY <1>4, <1>12, <2>1, <2>2, <2>3, <2>5, <2>6, <2>8, <2>9
  <2>12. LocalTo(u)
    BY <1>1, <1>14, <2>9, <2>10, Zenon DEF LocalTo
  <2>13. AttachOK(u)'
    <3>1. /\ mg[u].mg_mount_ci # -1 => client[mg[u].mg_mount_ci].pc = "wait"
          /\ mg[u].mg_mount_ci # -1 => mg[u].mg_mount_ci \in Slots
      BY <1>2, <1>8, <2>1, AttachedSlot, Zenon DEF AttachOK, Told
    <3> QED
      BY <1>1, <1>2, <1>4, <1>6, <2>2, <2>11, <3>1, ZenonT(40) DEF AttachOK, busy, Mounting
  <2>14. Len(results'[u]) <= 1 /\ results'[u] = <<>>
    BY <1>3, <1>14
  <2> QED
    BY <1>1, <1>2, <1>4, <1>5, <1>9, <2>2, <2>10, <2>11, <2>12, <2>13, <2>14, LeavingSafe, ZenonT(40)
<1> QED
  BY <1>10, <1>11, <1>13, <1>14, Zenon

LEMMA ProgramsSafe ==
  ASSUME TypeOK, SafeInv, ~SecondFails, Programs
  PROVE  SafeInv'
<1>1. ASSUME NEW u \in Uuids, NEW d \in Devices, NEW s \in Services,
             ClientMount(u, d, s) \/ ToolUnmount(u, s) \/ HelperUnmount(u)
      PROVE  SafeInv'
  BY <1>1, ConnectSafe, Zenon
<1>2. ASSUME NEW u \in Uuids, NEW s \in Services,
             ToolDies(u, s) \/ KernelUmount(u) \/ HelperFails(u)
      PROVE  SafeInv'
  BY <1>2, KernelSafe, Zenon
<1>3. ASSUME NEW ci \in Slots, MountSyscall(ci) PROVE SafeInv'
  BY <1>3, SyscallSafe, Zenon
<1>4. ASSUME NEW ci \in Slots, ClientResult(ci) PROVE SafeInv'
  BY <1>4, ResultSafe, Zenon
<1>5. ASSUME NEW ci \in Slots, ClientClose(ci) \/ ClientDies(ci) PROVE SafeInv'
  BY <1>5, DiesSafe, Zenon
<1>6. Devices # {} /\ Services # {}
  BY ConstAssumption, Zenon
<1> QED
  BY <1>1, <1>2, <1>3, <1>4, <1>5, <1>6, Zenon DEF Programs

LEMMA DaemonSafe ==
  ASSUME TypeOK, SafeInv, ~Overtaken, Daemon, Up'
  PROVE  SafeInv'
<1>1. ASSUME NEW ci \in Slots,
             \/ RejectMount(ci) \/ StartMountAgain(ci) \/ StartMountNew(ci)
             \/ CompleteMount(ci) \/ RemoveMount(ci) \/ DeadClient(ci)
      PROVE  SafeInv'
  BY <1>1, RejectSafe, StartAgainSafe, StartNewSafe, CompleteSafe, RemoveSafe,
     DeadSafe, Zenon
<1>2. ASSUME NEW u \in Uuids, FinishJoin(u) \/ RegisterResult(u) PROVE SafeInv'
  BY <1>2, FinishJoinSafe, ResultReadSafe, Zenon
<1>3. ASSUME NEW u \in Uuids, CpgLeft(u) \/ CpgDied(u) PROVE SafeInv'
  <2>1. cpg[u] # "none" /\ FinishLeave(u)
    BY <1>3, Zenon DEF CpgLeft, CpgDied
  <2> QED
    BY <2>1, FinishLeaveSafe, Zenon
<1>4. ASSUME NEW u \in Uuids, OrphanEvent(u) \/ StaleResult(u) PROVE SafeInv'
  BY <1>4, Zenon DEF OrphanEvent, StaleResult, end_process, Up
<1>5. ASSUME handle_signal \/ shutdown_daemon PROVE SafeInv'
  BY <1>5, Zenon DEF handle_signal, shutdown_daemon, end_process, Up
<1> QED
  BY <1>1, <1>2, <1>3, <1>4, <1>5, Zenon DEF Daemon

(* The invariant holds in every reachable state of every instance: the     *)
(* daemon's records, CPG, dlm_controld, the clients and the kernel agree   *)
(* until a join beside another service fails, or an answer of dlm_controld *)
(* is unread when the filesystem's next join is delivered.  Nothing else   *)
(* that mount.c meets disturbs them.                                       *)
THEOREM InvCorrect == Spec => []Inv
<1>1. Inv /\ [Next /\ Watch]_<<vars, mishap>> => Inv'
  <2> SUFFICES ASSUME Inv, [Next /\ Watch]_<<vars, mishap>> PROVE Inv'
    BY Zenon
  <2>1. TypeOK /\ (Up /\ ~mishap => SafeInv)
    BY Zenon DEF Inv
  <2>2. ~mishap' => ~mishap
    BY Zenon DEF Watch
  <2>3. CASE UNCHANGED vars
    <3>1. TypeOK'
      BY <2>1, <2>3, Zenon DEF TypeOK, vars
    <3>2. ASSUME Up', ~mishap' PROVE SafeInv'
      BY <2>1, <2>2, <2>3, <3>2, StutterSafe, Zenon DEF vars, Up
    <3> QED
      BY <3>1, <3>2, Zenon DEF Inv
  <2>4. CASE Programs /\ Watch
    <3>1. Up
      BY <2>4, Zenon DEF Programs, ClientMount, ToolUnmount, ToolDies,
         KernelUmount, HelperUnmount, HelperFails, MountSyscall, ClientResult,
         ClientClose, ClientDies
    <3>2. ~mishap' => ~mishap /\ ~SecondFails
      BY <2>4, Zenon DEF Watch
    <3> QED
      BY <2>1, <2>4, <3>1, <3>2, ProgramsType, ProgramsSafe, Zenon DEF Inv
  <2>5. CASE Daemon /\ Watch
    <3>1. Up
      BY <2>5, Zenon DEF Daemon, RejectMount, StartMountAgain, StartMountNew,
         CompleteMount, RemoveMount, DeadClient, FinishJoin, CpgLeft, CpgDied,
         OrphanEvent, RegisterResult, StaleResult, handle_signal, shutdown_daemon
    <3>2. ~mishap' => ~mishap /\ ~Overtaken
      BY <2>5, Zenon DEF Watch
    <3> QED
      BY <2>1, <2>5, <3>1, <3>2, DaemonType, DaemonSafe, Zenon DEF Inv
  <2>6. UNCHANGED <<vars, mishap>> => UNCHANGED vars
    BY Zenon
  <2> QED
    BY <2>3, <2>4, <2>5, <2>6, Zenon DEF Next, Stopped
<1>2. Init => Inv
  BY InitSafe, Zenon
<1> QED
  BY <1>1, <1>2, PTL DEF Spec

(* "We register *before* allowing the filesystem to mount", and nothing    *)
(* but a mishap takes it back: while a filesystem is mounted the node is   *)
(* in its group and dlm_controld has it registered.                        *)
THEOREM MountsAreProtected == Spec => []MountedIsProtected
BY InvMounted, InvCorrect, PTL

(* A program that was told to go ahead calls mount(2) with the group       *)
(* joined and the filesystem registered, if there was no mishap.           *)
THEOREM ToldAreProtected == Spec => []ToldIsProtected
BY InvTold, InvCorrect, PTL

(* dead_mounter() may rely on mg_mount_notified for every service that is  *)
(* being mounted, though the flag is never cleared, until a mishap.        *)
THEOREM NotifiedAreReady == Spec => []NotifiedIsReady
BY InvNotified, InvCorrect, PTL

(* Slots and descriptors are reused, and still the client attached to a    *)
(* mountgroup is the one whose request is in progress there, until a       *)
(* mishap.                                                                 *)
THEOREM AttachedAreRequesters == Spec => [](AttachedIsRequester /\ IdleHasNoClient)
BY InvAttached, InvCorrect, PTL
=============================================================================
