-------------------------- MODULE MountGroupsSteps --------------------------
(***************************************************************************)
(* The daemon's steps for MOUNT, MRESULT and UNMOUNT, and for the death of *)
(* a program, preserve SafeInv.                                            *)
(***************************************************************************)
EXTENDS MountGroupsFields

-----------------------------------------------------------------------------
(* MOUNT and MRESULT. *)

LEMMA RejectSafe ==
  ASSUME TypeOK, SafeInv, NEW ci \in Slots, RejectMount(ci)
  PROVE  SafeInv'
<1>1. /\ client[ci].req = "MOUNT" /\ client[ci].pc = "sent"
      /\ UNCHANGED daemonVars /\ UNCHANGED kernelVars
      /\ client' = send_status([client EXCEPT ![ci].pc = "wait"], client[ci].fd,
                               "EINVAL")
  BY Zenon DEF RejectMount
<1>2. client[ci].fd # -1 /\ ~client[ci].failed
  BY <1>1, Zenon DEF SafeInv, SlotOK, ToldOK
<1>3. Answered(ci, "wait", "EINVAL")
  BY <1>1, <1>2, AnsweredFields, StatusTypes, Zenon
<1>4. \A u \in Uuids : mg[u].mg_mount_ci # ci
  BY <1>1, AttachedSlot, ConstTypes, Zenon
<1>5. OK # "EINVAL"
  BY Zenon DEF OK
<1> QED
  BY <1>1, <1>2, <1>3, <1>4, <1>5, UnattachedSafe, Zenon DEF Answered

(* What a mountgroup is on the first mount of its filesystem. *)
LEMMA NewMgFields ==
  ASSUME NEW d \in Devices, NEW s \in Services, NEW ci \in Slots,
         NEW fd \in Fds \cup {-1}
  PROVE  LET r == add_service(NewMg(d), d, s, ci, fd) IN
         /\ r \in Mountgroup
         /\ ~r.mg_group /\ ~r.mg_leave_on_join /\ ~r.mg_registered
         /\ ~r.mg_mount_notified /\ ~r.ms_additional
         /\ r.mg_services = {s} /\ r.mg_ms_in_progress = s
         /\ r.mg_mount_ci = ci /\ r.mg_mount_fd = fd /\ r.mg_error = OK
<1>1. PICK m \in Mountgroup :
      /\ m = NewMg(d) /\ m.mg_group = FALSE /\ m.mg_leave_on_join = FALSE
      /\ m.mg_registered = FALSE /\ m.mg_mount_notified = FALSE
      /\ m.ms_additional = FALSE /\ m.mg_services = {} /\ m.mg_error = OK
      /\ m.mg_device = d /\ m.mg_ms_in_progress = NoService
  <2>1. NewMg(d) \in Mountgroup
    BY ConstTypes, Zenon
  <2> QED
    BY <2>1, Zenon DEF NewMg
<1>2. ~Refused(m, d, s)
  BY <1>1, Zenon DEF Refused, busy
<1>8. m \in Mountgroup
  BY <1>1, Zenon
<1>3. PICK r : r = add_service(m, d, s, ci, fd)
  BY Zenon
<1>4. /\ r \in Mountgroup
      /\ r.mg_services = m.mg_services \cup {s} /\ r.mg_ms_in_progress = s
      /\ r.mg_mount_ci = ci /\ r.mg_mount_fd = fd
  BY <1>2, <1>3, <1>8, AddServiceStarted
<1>6. /\ r.mg_group = m.mg_group /\ r.mg_leave_on_join = m.mg_leave_on_join
      /\ r.mg_registered = m.mg_registered
      /\ r.mg_mount_notified = m.mg_mount_notified
  BY <1>2, <1>3, <1>8, AddServiceStarted
<1>7. r.mg_error = m.mg_error
  BY <1>1, <1>2, <1>3, AddServiceStarted
<1>9. r.ms_additional = m.ms_additional
  BY <1>1, <1>2, <1>3, AddServiceAdditional
<1>5. /\ r \in Mountgroup
      /\ ~r.mg_group /\ ~r.mg_leave_on_join /\ ~r.mg_registered
      /\ ~r.mg_mount_notified /\ ~r.ms_additional
      /\ r.mg_services = {s} /\ r.mg_ms_in_progress = s
      /\ r.mg_mount_ci = ci /\ r.mg_mount_fd = fd /\ r.mg_error = OK
  BY <1>1, <1>4, <1>6, <1>7, <1>9, Zenon
<1> QED
  BY <1>1, <1>3, <1>5, Zenon

LEMMA StartNewSafe ==
  ASSUME TypeOK, SafeInv, NEW ci \in Slots, StartMountNew(ci)
  PROVE  SafeInv'
<1>1. PICK u \in Uuids, s \in Services, d \in Devices, fd \in Fds \cup {-1} :
        /\ client[ci].uuid = u /\ client[ci].service = s
        /\ client[ci].device = d /\ client[ci].fd = fd
  BY HandlerTypes, ZenonT(40)
<1>2. /\ client[ci].req = "MOUNT" /\ client[ci].pc = "sent" /\ mounts[u] = 0
      /\ UNCHANGED <<orphan, register_list, dlm_fs, results, kernelVars>>
  BY <1>1, Zenon DEF StartMountNew
<1>3. /\ client[ci].fd # -1 /\ ~client[ci].failed
      /\ \A v \in Uuids : mg[v].mg_mount_ci # ci
  <2>1. SlotOK(ci) /\ ToldOK(ci)
    BY Zenon DEF SafeInv
  <2>2. client[ci].fd # -1 /\ ~client[ci].failed
    BY <1>2, <2>1, Zenon DEF SlotOK, ToldOK
  <2> QED
    BY <1>2, <2>2, AttachedSlot, ConstTypes, Zenon
<1>4. CASE /\ client' = send_status([client EXCEPT ![ci].pc = "wait"],
                                    client[ci].fd, "EJOIN")
           /\ UNCHANGED <<mounts, mg, cpg>>
  <2>1. Answered(ci, "wait", "EJOIN") /\ "EJOIN" \notin {OK, "EALREADY"}
    BY <1>3, <1>4, AnsweredFields, StatusTypes, Zenon DEF OK
  <2>2. UNCHANGED daemonVars /\ UNCHANGED kernelVars
    BY <1>2, <1>4, Zenon DEF daemonVars
  <2> QED
    BY <1>3, <2>1, <2>2, UnattachedSafe, Zenon DEF Answered
<1>5. CASE /\ mounts' = list_add(u)
           /\ mg' = [mg EXCEPT ![u] = add_service(NewMg(d), d, s, ci, fd)]
           /\ cpg' = [cpg EXCEPT ![u] = "joining"]
           /\ client' = [client EXCEPT ![ci].pc = "wait"]
  <2>1. Waits(ci, "wait")
    BY <1>3, <1>5, WaitsFields, Zenon
  <2>2. /\ mg'[u] = add_service(NewMg(d), d, s, ci, fd)
        /\ \A v \in Uuids \ {u} : mg'[v] = mg[v]
        /\ cpg'[u] = "joining" /\ \A v \in Uuids \ {u} : cpg'[v] = cpg[v]
    BY <1>5, Zenon DEF TypeOK
  <2>3. /\ mg'[u] \in Mountgroup
        /\ ~mg'[u].mg_group /\ ~mg'[u].mg_leave_on_join /\ ~mg'[u].mg_registered
        /\ ~mg'[u].mg_mount_notified /\ ~mg'[u].ms_additional
        /\ mg'[u].mg_services = {s} /\ mg'[u].mg_ms_in_progress = s
        /\ mg'[u].mg_mount_ci = ci /\ mg'[u].mg_mount_fd = fd /\ mg'[u].mg_error = OK
    BY <2>2, NewMgFields
  <2>4. mounts'[u] # 0 /\ \A v \in Uuids \ {u} : mounts'[v] = 0 <=> mounts[v] = 0
    BY <1>5, ListZero, SMTT(40)
  <2>5. LocalTo(u)
    BY <1>2, <2>2, <2>4, ZenonT(40) DEF LocalTo
  <2>6. ClientsOf(u)
    BY <1>1, <2>1, Zenon DEF ClientsOf, Waits
  <2>7. GroupOK(u) /\ RegisterOK(u) /\ KernelOK(u)
    BY Zenon DEF SafeInv
  <2>8. s # NoService /\ ci # -1 /\ fd # -1 /\ OK # "EALREADY"
    BY <1>1, <1>3, ConstAssumption, ConstTypes, SMTT(40) DEF OK
  <2>9. GroupOK(u)'
    BY <1>2, <2>2, <2>3, <2>4, <2>7, <2>8, ZenonT(40) DEF GroupOK, RegisterOK, busy
  <2>10. RegisterOK(u)'
    BY <1>2, <2>2, <2>3, <2>4, <2>7, ZenonT(40) DEF RegisterOK
  <2>11. IdleOK(u)'
    BY <2>3, <2>8, ZenonT(40) DEF IdleOK, busy
  <2>12. AttachOK(u)'
    BY <1>1, <1>2, <2>1, <2>3, <2>4, <2>8 DEF AttachOK, busy, Mounting, Waits, Kept
  <2>13. KernelOK(u)'
    <3>1. kmounts[u] \in Nat /\ kmounts' = kmounts
      BY <1>2, KmountsType, Zenon DEF kernelVars
    <3>2. kmounts[u] = 0
      BY <1>2, <2>7, <3>1, SMTT(40) DEF KernelOK, GroupOK
    <3> QED
      BY <3>1, <3>2 DEF KernelOK
  <2>14. ASSUME NEW i \in Slots, client[i].uuid = u PROVE ToldOK(i)'
    <3>1. ~Told(i) /\ ToldOK(i)
      BY <1>2, <2>14, SMTT(40) DEF SafeInv, ToldOK, Mounting
    <3> QED
      BY <1>3, <2>1, <3>1, Zenon DEF ToldOK, Told, Waits, Kept
  <2> QED
    BY <2>5, <2>6, <2>9, <2>10, <2>11, <2>12, <2>13, <2>14, LocalSafe, Zenon DEF FilesystemOK
<1> QED
  BY <1>1, <1>4, <1>5, Zenon DEF StartMountNew

LEMMA StartAgainSafe ==
  ASSUME TypeOK, SafeInv, NEW ci \in Slots, StartMountAgain(ci)
  PROVE  SafeInv'
<1>1. PICK u \in Uuids, s \in Services, d \in Devices, fd \in Fds \cup {-1} :
        /\ client[ci].uuid = u /\ client[ci].service = s
        /\ client[ci].device = d /\ client[ci].fd = fd
  BY HandlerTypes, Zenon
<1>2. PICK m : m = add_service(mg[u], d, s, ci, fd)
  BY Zenon
<1> DEFINE z == [m EXCEPT !.mg_error = OK, !.mg_mount_notified =
                    IF m.mg_error = "EALREADY" THEN TRUE ELSE @]
<1>3. /\ client[ci].req = "MOUNT" /\ client[ci].pc = "sent" /\ mounts[u] # 0
      /\ dlm_fs' = dlm_fs /\ results' = results /\ UNCHANGED kernelVars
      /\ m.mg_error # OK =>
           client' = send_status([client EXCEPT ![ci].pc = "wait"], fd, m.mg_error)
  BY <1>1, <1>2, Zenon DEF StartMountAgain
<1>4. \/ /\ m.mg_error \notin {OK, "EALREADY"} /\ m.mg_services = {}
         /\ free_mg(u, cpg[u] # "none")
      \/ /\ ~(m.mg_error \notin {OK, "EALREADY"} /\ m.mg_services = {})
         /\ mg' = [mg EXCEPT ![u] = z]
         /\ UNCHANGED <<mounts, cpg, orphan, register_list>>
  BY <1>1, <1>2, Zenon DEF StartMountAgain
<1>5. /\ client[ci].fd # -1 /\ ~client[ci].failed
      /\ \A v \in Uuids : mg[v].mg_mount_ci # ci
  <2>1. SlotOK(ci) /\ ToldOK(ci)
    BY Zenon DEF SafeInv
  <2>2. client[ci].fd # -1 /\ ~client[ci].failed
    BY <1>3, <2>1, Zenon DEF SlotOK, ToldOK
  <2> QED
    BY <1>3, <2>2, AttachedSlot, ConstTypes, Zenon
<1>6. /\ mg[u] \in Mountgroup /\ mg \in [Uuids -> Mountgroup]
      /\ GroupOK(u) /\ RegisterOK(u) /\ IdleOK(u) /\ AttachOK(u) /\ KernelOK(u)
  BY Zenon DEF SafeInv, TypeOK
<1>7. CASE Refused(mg[u], d, s)
  <2>1. PICK e \in {"EINVAL", "EBUSY"} : m = fill_error(mg[u], e)
    BY <1>2, <1>6, <1>7, AddServiceRefused, Zenon
  <2>2. /\ e \in Statuses /\ e \notin {OK, "EALREADY"} /\ OK # "EALREADY"
    BY <2>1, StatusTypes, Zenon DEF OK
  <2>3. /\ m \in Mountgroup /\ m.mg_services = mg[u].mg_services
        /\ m.mg_error = IF mg[u].mg_error # OK THEN mg[u].mg_error ELSE e
    BY <1>6, <2>1, <2>2, FillErrorFields, Zenon
  <2>4. m.mg_error \notin {OK, "EALREADY"} /\ m.mg_error \in Statuses
    BY <1>6, <2>2, <2>3, StatusTypes, Zenon DEF IdleOK
  <2>5. Answered(ci, "wait", m.mg_error)
    BY <1>1, <1>3, <1>5, <2>4, AnsweredFields, Zenon
  <2>6. /\ \A i \in Slots : i # ci => client'[i] = client[i]
        /\ Kept(ci) /\ client'[ci].pc \in {"wait", "done"}
        /\ client[ci].req = "MOUNT" /\ client'[ci].pc = "wait" => ~client'[ci].failed
    BY <1>5, <2>4, <2>5, Zenon DEF Answered
  <2>7. CASE mg[u].mg_services = {}
    <3>1. free_mg(u, cpg[u] # "none") /\ (cpg[u] # "none") \in BOOLEAN
      BY <1>4, <2>3, <2>4, <2>7, Zenon
    <3>2. kmounts[u] = 0
      BY <1>6, <2>7, ConstAssumption DEF KernelOK, TypeOK
    <3>3. ClientsOf(u)
      BY <1>1, <2>6, Zenon DEF ClientsOf
    <3>4. ASSUME NEW i \in Slots, client[i].uuid = u
          PROVE  /\ client'[i].pc \notin {"joined", "called", "rsent"}
                 /\ client'[i].req = "MOUNT" /\ client'[i].pc \in {"sent", "wait"}
                      => ~client'[i].failed
      <4>1. ToldOK(i) /\ ~Told(i)
        BY <2>7, <3>4, Zenon DEF SafeInv, ToldOK, Mounting
      <4> QED
        BY <1>3, <2>6, <4>1, SMTT(40) DEF ToldOK, Told, Kept
    <3> QED
      BY <1>3, <3>1, <3>2, <3>3, <3>4, FreeSafe, Zenon
  <2>8. CASE mg[u].mg_services # {}
    <3>1. mg[u].mg_error = OK /\ m.mg_error = e
      BY <1>6, <2>3, <2>8, Zenon DEF IdleOK
    <3>2. m = [mg[u] EXCEPT !.mg_error = e]
      BY <2>1, <3>1, Zenon DEF fill_error
    <3>3. z = [m EXCEPT !.mg_error = OK]
      BY <2>2, <2>3, <3>1, Zenon DEF Mountgroup
    <3>4. z = mg[u]
      BY <1>6, <3>1, <3>2, <3>3, Zenon DEF Mountgroup
    <3> HIDE DEF z
    <3>5. mg' = mg
      BY <1>4, <1>6, <2>3, <2>8, <3>4, Zenon
    <3>6. UNCHANGED daemonVars
      BY <1>3, <1>4, <2>3, <2>8, <3>5, Zenon DEF daemonVars
    <3> QED
      BY <1>3, <1>5, <2>6, <3>6, UnattachedSafe, Zenon
  <2> QED
    BY <2>7, <2>8, Zenon
<1>8. CASE ~Refused(mg[u], d, s)
  <2>1. ~busy(mg[u])
    BY <1>8, Zenon DEF Refused
  <2>2. /\ cpg[u] = "joined" /\ mg[u].mg_services # {} /\ mg[u].mg_error = OK
        /\ mg[u].mg_group /\ mg[u].mg_registered /\ results[u] = <<>>
        /\ register_list[u].live /\ dlm_fs[u] /\ mg[u].mg_mount_ci = -1
        /\ \A i \in Slots : client[i].uuid = u => ~Told(i)
    BY <1>3, <2>1, QuietFields, Zenon
  <2>3. /\ m \in Mountgroup
        /\ m.mg_group = mg[u].mg_group /\ m.mg_registered = mg[u].mg_registered
        /\ m.mg_services = mg[u].mg_services \cup {s}
        /\ m.mg_ms_in_progress = s /\ m.mg_mount_ci = ci /\ m.mg_mount_fd = fd
        /\ m.mg_error = IF mg[u].mg_services = {} \/ mg[u].mg_error # OK
                          THEN mg[u].mg_error ELSE "EALREADY"
    <3>1. mg[u] \in Mountgroup
      BY <1>6, Zenon
    <3>2. m = add_service(mg[u], d, s, ci, fd)
      BY <1>2, Zenon
    <3> QED
      BY <1>8, <3>1, <3>2, AddServiceStarted, SMTT(40)
  <2>4. m.mg_error = "EALREADY"
    BY <2>2, <2>3, Zenon
  <2>5. s \in mg[u].mg_services => m.ms_additional
    BY <1>2, <1>6, <1>8, AddServiceAdditional, Zenon
  <2>6. z = [m EXCEPT !.mg_error = OK, !.mg_mount_notified = TRUE]
    BY <2>3, <2>4, Zenon
  <2>7. /\ z.mg_group = m.mg_group /\ z.mg_registered = m.mg_registered
        /\ z.mg_services = m.mg_services /\ z.mg_ms_in_progress = s
        /\ z.mg_mount_ci = ci /\ z.mg_mount_fd = fd
        /\ z.mg_error = OK /\ z.mg_mount_notified = TRUE
        /\ z.ms_additional = m.ms_additional
    BY <2>3, <2>6, Zenon DEF Mountgroup
  <2> HIDE DEF z
  <2>8. /\ mg'[u] = z /\ \A v \in Uuids \ {u} : mg'[v] = mg[v]
        /\ mounts' = mounts /\ cpg' = cpg /\ register_list' = register_list
    BY <1>4, <1>6, <2>4, Zenon
  <2>9. /\ mg'[u].mg_group /\ mg'[u].mg_registered
        /\ mg'[u].mg_services = mg[u].mg_services \cup {s}
        /\ mg'[u].mg_ms_in_progress = s
        /\ mg'[u].mg_mount_ci = ci /\ mg'[u].mg_mount_fd = fd
        /\ mg'[u].mg_error = OK /\ mg'[u].mg_mount_notified
        /\ s \in mg[u].mg_services => mg'[u].ms_additional
    BY <2>2, <2>3, <2>5, <2>7, <2>8, Zenon
  <2>10. OK # "EALREADY" /\ s # NoService /\ ci # -1 /\ fd # -1 /\ "EALREADY" \in Statuses
    BY <1>1, <1>5, ConstAssumption, ConstTypes, StatusTypes, Zenon DEF OK
  <2>11. Answered(ci, "wait", "EALREADY")
    BY <1>1, <1>3, <1>5, <2>4, <2>10, AnsweredFields, Zenon
  <2>12. /\ \A i \in Slots : i # ci => client'[i] = client[i]
         /\ Kept(ci) /\ client'[ci].pc \in {"wait", "joined"}
         /\ ~client'[ci].failed
    BY <1>3, <1>5, <2>11, Zenon DEF Answered
  <2>13. LocalTo(u)
    BY <1>3, <2>8, Zenon DEF LocalTo
  <2>14. ClientsOf(u)
    BY <1>1, <2>12, Zenon DEF ClientsOf
  <2>15. GroupOK(u)'
    BY <1>3, <2>2, <2>8, <2>9 DEF GroupOK
  <2>16. RegisterOK(u)'
    BY <1>3, <1>6, <2>2, <2>8, <2>9 DEF RegisterOK
  <2>17. IdleOK(u)'
    BY <2>9, <2>10, Zenon DEF IdleOK
  <2>18. AttachOK(u)'
    BY <1>1, <1>3, <2>8, <2>9, <2>10, <2>12 DEF AttachOK, busy, Mounting, Kept
  <2>19. KernelOK(u)'
    <3>1. kmounts[u] \in Nat /\ kmounts' = kmounts /\ dismount' = dismount
      BY <1>3, KmountsType, Zenon DEF kernelVars
    <3>2. kmounts[u] > 0 => dismount[u] = "no" /\ OCFS2_FS_NAME \in mg[u].mg_services
      BY <1>6, Zenon DEF KernelOK
    <3> QED
      BY <2>2, <2>8, <2>9, <3>1, <3>2 DEF KernelOK
  <2>20. ASSUME NEW i \in Slots, client[i].uuid = u PROVE ToldOK(i)'
    <3>1. ToldOK(i) /\ ~Told(i)
      BY <2>2, <2>20, Zenon DEF SafeInv
    <3>2. CASE i # ci
      BY <2>12, <3>1, <3>2, Zenon DEF ToldOK, Told
    <3>3. CASE i = ci
      BY <1>1, <1>3, <2>8, <2>9, <2>12, <3>3 DEF ToldOK, Told, Mounting, Kept
    <3> QED
      BY <3>2, <3>3, Zenon
  <2> QED
    BY <2>13, <2>14, <2>15, <2>16, <2>17, <2>18, <2>19, <2>20, LocalSafe DEF FilesystemOK
<1> QED
  BY <1>7, <1>8, Zenon

(* What a step leaves when a mount in progress is over, or a service that  *)
(* is not the last one goes.                                               *)
LEMMA QuietSafe ==
  ASSUME TypeOK, SafeInv, NEW u \in Uuids, LocalTo(u), ClientsOf(u), NoneTold(u),
         mounts[u] # 0, mounts' = mounts, cpg[u] = "joined", cpg' = cpg,
         register_list' = register_list, dlm_fs' = dlm_fs, results' = results,
         mg[u].mg_registered,
         mg'[u].mg_group, mg'[u].mg_registered, mg'[u].mg_services # {},
         mg'[u].mg_ms_in_progress \notin mg'[u].mg_services,
         mg'[u].mg_mount_ci = -1, mg'[u].mg_mount_fd = -1, mg'[u].mg_error = OK,
         mg'[u].ms_additional => mg'[u].mg_mount_notified,
         kmounts[u] # 0 => OCFS2_FS_NAME \in mg'[u].mg_services
  PROVE  SafeInv'
<1>1. GroupOK(u) /\ RegisterOK(u) /\ KernelOK(u) /\ OK # "EALREADY"
  BY Zenon DEF SafeInv, OK
<1>2. GroupOK(u)'
  BY Zenon DEF GroupOK, busy
<1>3. RegisterOK(u)'
  BY <1>1, Zenon DEF RegisterOK, busy, Mounting
<1>4. IdleOK(u)'
  BY <1>1, Zenon DEF IdleOK, busy, Mounting
<1>5. AttachOK(u)'
  BY Zenon DEF AttachOK
<1>6. kmounts' = kmounts /\ dismount' = dismount
  BY Zenon DEF LocalTo, kernelVars
<1>7. KernelOK(u)'
  BY <1>1, <1>6 DEF KernelOK, Mounting
<1>8. \A i \in Slots : client[i].uuid = u => ToldOK(i)'
  BY Zenon DEF NoneTold, ToldOK, Told
<1> QED
  BY <1>2, <1>3, <1>4, <1>5, <1>7, <1>8, LocalSafe, Zenon DEF FilesystemOK

(* The mountgroup a slot is attached to is the one of its filesystem. *)
LEMMA FoundFields ==
  ASSUME TypeOK, SafeInv, NEW ci \in Slots
  PROVE  /\ \A u \in find_mg_by_client(ci) :
              u \in Uuids /\ client[ci].uuid = u /\ mounts[u] # 0
              /\ mg[u].mg_mount_ci = ci
         /\ \A u \in Uuids : mg[u].mg_mount_ci = ci => u \in find_mg_by_client(ci)
<1>1. \A u \in Uuids : mg[u].mg_mount_ci = ci =>
        client[ci].uuid = u /\ mounts[u] # 0
  BY AttachedSlot, ConstTypes, Zenon DEF SafeInv, GroupOK
<1>2. \A u \in Uuids : mounts[u] \in Nat
  BY Zenon DEF TypeOK
<1> QED
  BY <1>1, <1>2 DEF find_mg_by_client

LEMMA CompleteSafe ==
  ASSUME TypeOK, SafeInv, NEW ci \in Slots, CompleteMount(ci)
  PROVE  SafeInv'
<1>1. PICK u \in Uuids, s \in Services :
        client[ci].uuid = u /\ client[ci].service = s
  BY HandlerTypes, Zenon
<1>2. /\ client[ci].pc = "rsent" /\ mounts' = mounts /\ results' = results
      /\ UNCHANGED kernelVars
  BY Zenon DEF CompleteMount
<1>3. /\ mg[u] \in Mountgroup /\ mg \in [Uuids -> Mountgroup] /\ ToldOK(ci)
      /\ GroupOK(u) /\ RegisterOK(u) /\ IdleOK(u) /\ AttachOK(u) /\ KernelOK(u)
      /\ ci # -1 /\ NoService \notin Services /\ kmounts[u] \in Nat
  BY ConstAssumption, ConstTypes DEF SafeInv, TypeOK
<1>4. /\ Mounting(u) /\ mg[u].mg_mount_ci = ci /\ mg[u].mg_mount_notified
      /\ client[ci].req = "MOUNT"
      /\ client[ci].failed => mg[u].mg_services = {s}
  BY <1>1, <1>2, <1>3, ZenonT(40) DEF ToldOK, Told
<1>5. /\ mg[u].mg_registered /\ mg[u].mg_mount_fd = client[ci].fd
      /\ mg[u].mg_ms_in_progress = s /\ s \in mg[u].mg_services /\ busy(mg[u])
      /\ mg[u].mg_mount_fd # -1 /\ mounts[u] # 0
  BY <1>1, <1>3, <1>4, Zenon DEF RegisterOK, AttachOK, Mounting, IdleOK
<1>6. /\ cpg[u] = "joined" /\ mg[u].mg_group
      /\ register_list[u].live /\ dlm_fs[u] /\ results[u] = <<>>
      /\ mg[u].mg_error = OK
  BY <1>5, RegisteredFields, Zenon
<1>7. find_mg_by_client(ci) = {u}
  BY <1>1, <1>4, FoundFields
<1>8. mresult_error(client[ci], u, mg[u]) = OK
  BY <1>1, <1>5, Zenon DEF mresult_error
<1>9. \A i \in Slots : i # ci /\ client[i].uuid = u => ~Told(i) /\ ToldOK(i)
  BY <1>4 DEF SafeInv, ToldOK
<1>15. client[ci].fd # -1
  BY <1>5, Zenon
<1>14. PICK m \in Mountgroup : m = mg[u]
  BY <1>3, Zenon
<1> DEFINE additional == is_additional(m, s)
           clear == [m EXCEPT !.mg_ms_in_progress = NoService]
           good == [detach(clear) EXCEPT
                      !.ms_additional = IF additional THEN FALSE ELSE @]
           gone == remove_service(clear, s)
           read == [client EXCEPT ![ci].pc = "rwait"]
<1>10. \/ /\ additional \/ ~client[ci].failed
          /\ mg' = [mg EXCEPT ![u] = good]
          /\ client' = send_status(read, client[ci].fd, good.mg_error)
          /\ UNCHANGED <<cpg, register_list, dlm_fs>>
       \/ /\ ~additional /\ client[ci].failed
          /\ mg' = [mg EXCEPT ![u] = gone]
          /\ client' = IF busy(gone) THEN read
                         ELSE send_status(read, client[ci].fd, gone.mg_error)
          /\ leave_effect(u, clear, s)
          /\ unregister_effect(u, clear, s)
  BY <1>1, <1>7, <1>8, <1>14, Zenon DEF CompleteMount
<1>11. /\ clear \in Mountgroup /\ clear.mg_ms_in_progress = NoService
       /\ clear.mg_group = m.mg_group /\ clear.mg_registered = m.mg_registered
       /\ clear.mg_services = m.mg_services /\ clear.mg_error = m.mg_error
       /\ clear.mg_mount_notified = m.mg_mount_notified
       /\ clear.mg_mount_ci = m.mg_mount_ci /\ clear.mg_mount_fd = m.mg_mount_fd
  BY <1>14, Zenon DEF Mountgroup
<1> HIDE DEF clear
<1>12. CASE /\ additional \/ ~client[ci].failed
            /\ mg' = [mg EXCEPT ![u] = good]
            /\ client' = send_status(read, client[ci].fd, good.mg_error)
            /\ UNCHANGED <<cpg, register_list, dlm_fs>>
  <2> DEFINE d == detach(clear)
             b == IF additional THEN FALSE ELSE d.ms_additional
  <2>1. /\ d \in Mountgroup /\ d.mg_mount_ci = -1 /\ d.mg_mount_fd = -1
        /\ d.mg_group = clear.mg_group /\ d.mg_registered = clear.mg_registered
        /\ d.mg_services = clear.mg_services /\ d.mg_error = clear.mg_error
        /\ d.mg_mount_notified = clear.mg_mount_notified
        /\ d.mg_ms_in_progress = clear.mg_ms_in_progress
    BY <1>11, DetachFields, Zenon
  <2>2. good = [d EXCEPT !.ms_additional = b]
    BY Zenon
  <2>14. d.ms_additional \in BOOLEAN
    BY <2>1, Zenon DEF Mountgroup
  <2>12. b \in BOOLEAN
    BY <2>14, Zenon
  <2> HIDE DEF d, b
  <2>3. /\ good.mg_mount_ci = -1 /\ good.mg_mount_fd = -1
        /\ good.mg_group = m.mg_group /\ good.mg_registered = m.mg_registered
        /\ good.mg_services = m.mg_services /\ good.mg_error = m.mg_error
        /\ good.mg_mount_notified = m.mg_mount_notified
        /\ good.mg_ms_in_progress = NoService
    BY <1>11, <2>1, <2>2, <2>12 DEF Mountgroup
  <2>13. client' = send_status([client EXCEPT ![ci].pc = "rwait"],
                                client[ci].fd, OK)
    BY <1>6, <1>12, <1>14, <2>3, Zenon
  <2> HIDE DEF good
  <2>4. /\ mg'[u] = good /\ \A v \in Uuids \ {u} : mg'[v] = mg[v]
        /\ cpg' = cpg /\ register_list' = register_list /\ dlm_fs' = dlm_fs
    BY <1>3, <1>12, Zenon
  <2>5. Answered(ci, "rwait", OK)
    BY <1>15, <2>13, AnsweredFields, StatusTypes, Zenon
  <2>6. /\ \A i \in Slots : i # ci => client'[i] = client[i]
        /\ Kept(ci) /\ client'[ci].pc \in {"rwait", "done"}
    BY <2>5, Zenon DEF Answered
  <2>7. LocalTo(u)
    BY <1>2, <2>4, Zenon DEF LocalTo
  <2>8. ClientsOf(u)
    BY <1>1, <2>6, Zenon DEF ClientsOf
  <2>9. NoneTold(u)
    BY <1>9, <2>6, Zenon DEF NoneTold, Told, ToldOK
  <2>10. /\ mg'[u].mg_group /\ mg'[u].mg_registered /\ mg'[u].mg_services # {}
         /\ mg'[u].mg_ms_in_progress \notin mg'[u].mg_services
         /\ mg'[u].mg_mount_ci = -1 /\ mg'[u].mg_mount_fd = -1
         /\ mg'[u].mg_error = OK /\ mg'[u].mg_mount_notified
         /\ mg'[u].mg_services = mg[u].mg_services
    BY <1>3, <1>4, <1>5, <1>6, <1>14, <2>3, <2>4, Zenon DEF Mountgroup
  <2>11. kmounts[u] # 0 => OCFS2_FS_NAME \in mg'[u].mg_services
    BY <1>3, <2>10 DEF KernelOK
  <2> QED
    BY <1>2, <1>5, <1>6, <2>4, <2>7, <2>8, <2>9, <2>10, <2>11, QuietSafe, Zenon
<1>13. CASE /\ ~additional /\ client[ci].failed
            /\ mg' = [mg EXCEPT ![u] = gone]
            /\ client' = IF busy(gone) THEN read
                           ELSE send_status(read, client[ci].fd, gone.mg_error)
            /\ leave_effect(u, clear, s)
            /\ unregister_effect(u, clear, s)
  <2>1. last_service(clear, s) /\ mg[u].mg_services = {s}
    BY <1>4, <1>11, <1>13, <1>14, Zenon DEF last_service
  <2>2. /\ gone \in Mountgroup /\ gone.mg_group = clear.mg_group
        /\ gone.mg_services = clear.mg_services \ {s}
        /\ gone.mg_mount_ci = clear.mg_mount_ci
        /\ gone.mg_mount_fd = clear.mg_mount_fd
        /\ gone.mg_mount_notified = clear.mg_mount_notified
        /\ gone.mg_error = clear.mg_error /\ gone.mg_ms_in_progress = s
    BY <1>11, <2>1, RemoveServiceFields, Zenon
  <2>3. ~gone.mg_registered
    BY <1>11, <2>1, RemoveServiceFlags, Zenon
  <2> HIDE DEF gone
  <2>4. /\ mg'[u] = gone /\ \A v \in Uuids \ {u} : mg'[v] = mg[v]
    BY <1>3, <1>13, Zenon
  <2>5. /\ mg'[u].mg_services = {} /\ mg'[u].mg_ms_in_progress = s
        /\ mg'[u].mg_error = OK /\ mg'[u].mg_mount_notified
        /\ mg'[u].mg_mount_ci = ci /\ mg'[u].mg_mount_fd = client[ci].fd
        /\ ~mg'[u].mg_registered
    BY <1>4, <1>5, <1>6, <1>11, <1>14, <2>1, <2>2, <2>3, <2>4, Zenon
  <2>6. /\ cpg'[u] = "leaving" /\ \A v \in Uuids \ {u} : cpg'[v] = cpg[v]
    BY <1>6, <1>11, <1>13, <1>14, <2>1 DEF leave_effect, TypeOK
  <2>7. /\ register_list' = [register_list EXCEPT ![u].live = FALSE]
        /\ dlm_fs' = [dlm_fs EXCEPT ![u] = FALSE]
    BY <1>5, <1>11, <1>13, <1>14, <2>1 DEF unregister_effect
  <2>8. \A v \in Uuids \ {u} : register_list'[v] = register_list[v]
                               /\ dlm_fs'[v] = dlm_fs[v]
    BY <2>7, Zenon DEF TypeOK
  <2>9. busy(gone)
    BY <1>3, <2>2, Zenon DEF busy
  <2>10. Waits(ci, "rwait")
    <3>1. client' = [client EXCEPT ![ci].pc = "rwait"]
      BY <1>13, <2>9, Zenon
    <3> QED
      BY <1>15, <3>1, WaitsFields, Zenon
  <2>11. LocalTo(u)
    BY <1>2, <2>4, <2>6, <2>8, Zenon DEF LocalTo
  <2>12. ClientsOf(u)
    BY <1>1, <2>10, Zenon DEF ClientsOf, Waits
  <2>13. NoneTold(u)
    BY <1>9, <2>10 DEF NoneTold, Told, ToldOK, Waits
  <2>14. kmounts[u] = 0
    <3>1. CASE s = OCFS2_FS_NAME
      BY <1>3, <1>4, <1>5, <1>13, <1>14, <3>1, Zenon DEF KernelOK, is_additional
    <3>2. CASE s # OCFS2_FS_NAME
      BY <1>3, <2>1, <3>2 DEF KernelOK
    <3> QED
      BY <3>1, <3>2, Zenon
  <2>15. AttachOK(u)'
    BY <1>1, <1>3, <2>5, <2>10, ZenonT(40) DEF AttachOK, busy, Mounting, Waits, Kept
  <2>16. results'[u] = <<>> /\ s # NoService /\ ci # -1 /\ client[ci].fd # -1
         /\ OK # "EALREADY"
    BY <1>2, <1>3, <1>5, <1>6, Zenon DEF OK
  <2>17. Len(results'[u]) <= 1
    BY <2>16
  <2> QED
    BY <1>2, <1>5, <2>5, <2>6, <2>11, <2>12, <2>13, <2>14, <2>15, <2>16, <2>17, LeavingSafe, Zenon
<1> QED
  BY <1>10, <1>12, <1>13, Zenon

-----------------------------------------------------------------------------
(* UNMOUNT, and the death of a program. *)

LEMMA RemoveSafe ==
  ASSUME TypeOK, SafeInv, NEW ci \in Slots, RemoveMount(ci)
  PROVE  SafeInv'
<1>1. PICK u \in Uuids, s \in Services, d \in Devices, fd \in Fds \cup {-1} :
        /\ client[ci].uuid = u /\ client[ci].service = s
        /\ client[ci].device = d /\ client[ci].fd = fd
  BY HandlerTypes, Zenon
<1>2. /\ client[ci].req = "UNMOUNT" /\ client[ci].pc = "sent" /\ mounts' = mounts
      /\ orphan' = orphan /\ results' = results /\ UNCHANGED kernelVars
  BY Zenon DEF RemoveMount
<1>3. /\ client[ci].fd # -1 /\ \A v \in Uuids : mg[v].mg_mount_ci # ci
  BY <1>2, AttachedSlot, ConstTypes DEF SafeInv, SlotOK
<1>4. PICK m \in Mountgroup : m = mg[u]
  BY Zenon DEF TypeOK
<1>5. /\ GroupOK(u) /\ RegisterOK(u) /\ IdleOK(u) /\ AttachOK(u) /\ KernelOK(u)
      /\ mg \in [Uuids -> Mountgroup] /\ HelperOK(ci) /\ kmounts[u] \in Nat
      /\ ci # -1 /\ s # NoService
  BY ConstAssumption, ConstTypes DEF SafeInv, TypeOK
<1>6. s = OCFS2_FS_NAME => kmounts[u] = 0
  BY <1>1, <1>2, <1>5 DEF HelperOK, IsHelper, KernelOK
<1>7. ASSUME NEW st \in Statuses,
             client' = send_status([client EXCEPT ![ci].pc = "wait"],
                                   client[ci].fd, st)
      PROVE  /\ \A i \in Slots : i # ci => client'[i] = client[i]
             /\ Kept(ci) /\ client'[ci].pc \in {"wait", "done"}
  <2>1. Answered(ci, "wait", st)
    BY <1>3, <1>7, AnsweredFields, Zenon
  <2> QED
    BY <1>2, <2>1, Zenon DEF Answered
<1> DEFINE gone == remove_service(m, s)
           last == last_service(m, s)
           read == [client EXCEPT ![ci].pc = "wait"]
           b == IF s = OCFS2_FS_NAME THEN FALSE ELSE m.ms_additional
<1>8. \/ /\ client' = send_status(read, client[ci].fd, "ENOENT")
         /\ UNCHANGED <<mg, cpg, register_list, dlm_fs>>
      \/ /\ mounts[u] # 0 /\ busy(m)
         /\ mg' = [mg EXCEPT ![u].ms_additional =
                              IF s = OCFS2_FS_NAME THEN FALSE ELSE @]
         /\ client' = send_status(read, client[ci].fd, "EBUSY")
         /\ UNCHANGED <<cpg, register_list, dlm_fs>>
      \/ /\ mounts[u] # 0 /\ s \in m.mg_services /\ ~busy(m)
         /\ mg' = [mg EXCEPT ![u] = IF last THEN attach(gone, ci, client[ci].fd)
                                            ELSE gone]
         /\ client' = IF last THEN read
                              ELSE send_status(read, client[ci].fd, m.mg_error)
         /\ leave_effect(u, m, s)
         /\ unregister_effect(u, m, s)
  BY <1>1, <1>4, Zenon DEF RemoveMount
<1>9. CASE /\ client' = send_status(read, client[ci].fd, "ENOENT")
           /\ UNCHANGED <<mg, cpg, register_list, dlm_fs>>
  <2>1. /\ \A i \in Slots : i # ci => client'[i] = client[i]
        /\ Kept(ci) /\ client'[ci].pc \in {"wait", "done"}
    <3>1. /\ client' = send_status([client EXCEPT ![ci].pc = "wait"],
                                   client[ci].fd, "ENOENT")
          /\ "ENOENT" \in Statuses
      BY <1>9, StatusTypes, Zenon
    <3> QED
      BY <1>7, <3>1, Zenon
  <2>2. UNCHANGED daemonVars
    BY <1>2, <1>9, Zenon DEF daemonVars
  <2> QED
    BY <1>2, <1>3, <2>1, <2>2, UnattachedSafe
<1>10. CASE /\ mounts[u] # 0 /\ busy(m)
            /\ mg' = [mg EXCEPT ![u].ms_additional =
                                 IF s = OCFS2_FS_NAME THEN FALSE ELSE @]
            /\ client' = send_status(read, client[ci].fd, "EBUSY")
            /\ UNCHANGED <<cpg, register_list, dlm_fs>>
  <2>1. /\ \A i \in Slots : i # ci => client'[i] = client[i]
        /\ Kept(ci) /\ client'[ci].pc \in {"wait", "done"}
    <3>1. /\ client' = send_status([client EXCEPT ![ci].pc = "wait"],
                                   client[ci].fd, "EBUSY")
          /\ "EBUSY" \in Statuses
      BY <1>10, StatusTypes, Zenon
    <3> QED
      BY <1>7, <3>1, Zenon
  <2> DEFINE z == [m EXCEPT !.ms_additional = b]
  <2>2. mg' = [mg EXCEPT ![u] = z]
    BY <1>4, <1>5, <1>10, Zenon
  <2>17. m.ms_additional \in BOOLEAN
    BY Zenon DEF Mountgroup
  <2>3. b \in BOOLEAN
    BY <2>17, Zenon
  <2> HIDE DEF b
  <2>4. /\ z.mg_group = m.mg_group /\ z.mg_registered = m.mg_registered
        /\ z.mg_leave_on_join = m.mg_leave_on_join
        /\ z.mg_services = m.mg_services /\ z.mg_ms_in_progress = m.mg_ms_in_progress
        /\ z.mg_mount_ci = m.mg_mount_ci /\ z.mg_mount_fd = m.mg_mount_fd
        /\ z.mg_error = m.mg_error /\ z.mg_mount_notified = m.mg_mount_notified
        /\ z.ms_additional = b
    BY <2>3, Zenon DEF Mountgroup
  <2>5. s # OCFS2_FS_NAME => b = m.ms_additional
    BY Zenon DEF b
  <2>6. b => m.ms_additional
    BY <2>5, Zenon DEF b
  <2> HIDE DEF z
  <2>7. /\ mg'[u] = z /\ \A v \in Uuids \ {u} : mg'[v] = mg[v]
        /\ mounts' = mounts /\ cpg' = cpg /\ register_list' = register_list
        /\ dlm_fs' = dlm_fs
    <3>1. cpg' = cpg /\ register_list' = register_list /\ dlm_fs' = dlm_fs
      BY <1>10, Zenon
    <3> QED
      BY <1>2, <1>5, <2>2, <3>1, Zenon
  <2>8. mg[u].mg_mount_ci # -1 =>
          client'[mg[u].mg_mount_ci] = client[mg[u].mg_mount_ci]
    BY <1>3, <2>1, AttachedSlot, Zenon
  <2>9. LocalTo(u)
    BY <1>2, <2>7, Zenon DEF LocalTo
  <2>10. ClientsOf(u)
    BY <1>1, <2>1, Zenon DEF ClientsOf
  <2>11. GroupOK(u)'
    BY <1>4, <1>5, <2>4, <2>7, Zenon DEF GroupOK, busy
  <2>12. RegisterOK(u)'
    BY <1>2, <1>4, <1>5, <2>4, <2>7, Zenon DEF RegisterOK, busy, Mounting
  <2>13. IdleOK(u)'
    BY <1>4, <1>5, <2>4, <2>6, <2>7, Zenon DEF IdleOK, busy, Mounting
  <2>14. AttachOK(u)'
    BY <1>4, <1>5, <2>4, <2>7, <2>8, ZenonT(40) DEF AttachOK, busy, Mounting
  <2>15. KernelOK(u)'
    <3>1. kmounts' = kmounts /\ dismount' = dismount
      BY <1>2, Zenon DEF kernelVars
    <3>2. CASE s = OCFS2_FS_NAME
      BY <1>6, <3>1, <3>2 DEF KernelOK
    <3>3. CASE s # OCFS2_FS_NAME
      BY <1>4, <1>5, <2>4, <2>5, <2>7, <2>8, <3>1, <3>3 DEF KernelOK, Mounting, IdleOK
    <3> QED
      BY <3>2, <3>3, Zenon
  <2>16. ASSUME NEW i \in Slots, client[i].uuid = u PROVE ToldOK(i)'
    <3>1. ToldOK(i)
      BY Zenon DEF SafeInv
    <3>2. CASE i = ci
      BY <1>2, <2>1, <3>2, ZenonT(40) DEF ToldOK, Told, Kept
    <3>3. CASE i # ci
      BY <1>4, <2>1, <2>4, <2>7, <2>16, <3>1, <3>3 DEF ToldOK, Told, Mounting
    <3> QED
      BY <3>2, <3>3, Zenon
  <2> QED
    BY <2>9, <2>10, <2>11, <2>12, <2>13, <2>14, <2>15, <2>16, LocalSafe DEF FilesystemOK
<1>11. CASE /\ mounts[u] # 0 /\ s \in m.mg_services /\ ~busy(m)
            /\ mg' = [mg EXCEPT ![u] = IF last THEN attach(gone, ci, client[ci].fd)
                                               ELSE gone]
            /\ client' = IF last THEN read
                                 ELSE send_status(read, client[ci].fd, m.mg_error)
            /\ leave_effect(u, m, s)
            /\ unregister_effect(u, m, s)
  <2>1. /\ cpg[u] = "joined" /\ mg[u].mg_services # {} /\ mg[u].mg_error = OK
        /\ mg[u].mg_group /\ mg[u].mg_registered /\ results[u] = <<>>
        /\ register_list[u].live /\ dlm_fs[u] /\ mg[u].mg_mount_ci = -1
        /\ \A i \in Slots : client[i].uuid = u => ~Told(i)
    BY <1>4, <1>11, QuietFields, Zenon
  <2>2. /\ gone \in Mountgroup /\ gone.mg_group = m.mg_group
        /\ gone.mg_services = m.mg_services \ {s}
        /\ gone.mg_mount_ci = m.mg_mount_ci /\ gone.mg_mount_fd = m.mg_mount_fd
        /\ gone.mg_mount_notified = m.mg_mount_notified
        /\ gone.mg_error = m.mg_error
        /\ gone.mg_ms_in_progress = IF last THEN s ELSE m.mg_ms_in_progress
    BY RemoveServiceFields, Zenon
  <2>3. /\ s = OCFS2_FS_NAME => ~gone.ms_additional
        /\ s # OCFS2_FS_NAME => gone.ms_additional = m.ms_additional
        /\ last => ~gone.mg_registered
        /\ ~last => gone.mg_registered = m.mg_registered
    BY RemoveServiceFlags, Zenon
  <2>4. gone.ms_additional => gone.mg_mount_notified
    <3>1. m.ms_additional => m.mg_mount_notified
      BY <1>4, <1>5, Zenon DEF IdleOK
    <3> QED
      BY <2>2, <2>3, <3>1, Zenon
  <2> HIDE DEF gone
  <2>5. CASE last
    <3> DEFINE z == attach(gone, ci, client[ci].fd)
    <3>1. /\ z.mg_group = gone.mg_group /\ z.mg_registered = gone.mg_registered
          /\ z.mg_services = gone.mg_services
          /\ z.mg_ms_in_progress = gone.mg_ms_in_progress
          /\ z.mg_mount_ci = ci /\ z.mg_mount_fd = fd
          /\ z.mg_error = gone.mg_error
          /\ z.mg_mount_notified = gone.mg_mount_notified
          /\ z.ms_additional = gone.ms_additional
      BY <1>1, <2>2, AttachFields
    <3> HIDE DEF z
    <3>2. /\ mg'[u] = z /\ \A v \in Uuids \ {u} : mg'[v] = mg[v]
      BY <1>5, <1>11, <2>5, Zenon DEF z
    <3>3. /\ mg'[u].mg_services = {} /\ mg'[u].mg_ms_in_progress = s
          /\ mg'[u].mg_error = OK /\ mg'[u].mg_mount_ci = ci
          /\ mg'[u].mg_mount_fd = fd /\ ~mg'[u].mg_registered
          /\ mg'[u].ms_additional => mg'[u].mg_mount_notified
      BY <1>4, <2>1, <2>2, <2>3, <2>4, <2>5, <3>1, <3>2 DEF last_service
    <3>4. /\ cpg'[u] = "leaving" /\ \A v \in Uuids \ {u} : cpg'[v] = cpg[v]
      BY <1>4, <1>11, <2>1, <2>5, Zenon DEF leave_effect, TypeOK
    <3>5. /\ register_list' = [register_list EXCEPT ![u].live = FALSE]
          /\ dlm_fs' = [dlm_fs EXCEPT ![u] = FALSE]
      BY <1>4, <1>11, <2>1, <2>5, Zenon DEF unregister_effect
    <3>6. \A v \in Uuids \ {u} : register_list'[v] = register_list[v]
                                 /\ dlm_fs'[v] = dlm_fs[v]
      BY <3>5, Zenon DEF TypeOK
    <3>7. Waits(ci, "wait")
      <4>1. client' = [client EXCEPT ![ci].pc = "wait"]
        BY <1>11, <2>5, Zenon
      <4> QED
        BY <1>3, <4>1, WaitsFields, Zenon
    <3>8. LocalTo(u)
      BY <1>2, <3>2, <3>4, <3>6, Zenon DEF LocalTo
    <3>9. ClientsOf(u)
      BY <1>1, <3>7, Zenon DEF ClientsOf, Waits
    <3>10. NoneTold(u)
      <4>1. \A i \in Slots : ToldOK(i)
        BY <1>2, <2>1, Zenon DEF SafeInv
      <4> QED
        BY <1>2, <2>1, <3>7, <4>1 DEF NoneTold, Told, ToldOK, Waits, Kept
    <3>11. kmounts[u] = 0
      <4>1. ~(kmounts[u] > 0)
        BY <1>4, <1>5, <1>6, <2>5 DEF KernelOK, last_service
      <4>2. kmounts[u] \in Nat
        BY DEF TypeOK
      <4> QED
        BY <4>1, <4>2, SMT
    <3>12. AttachOK(u)'
      BY <1>1, <1>2, <1>5, <3>3, <3>7 DEF AttachOK, busy, Mounting, Waits, Kept
    <3>13. results'[u] = <<>> /\ fd # -1 /\ OK # "EALREADY"
      BY <1>1, <1>2, <1>3, <2>1, Zenon DEF OK
    <3>14. Len(results'[u]) <= 1
      BY <3>13
    <3> QED
      BY <1>2, <1>5, <1>11, <3>3, <3>4, <3>8, <3>9, <3>10, <3>11, <3>12, <3>13,
         <3>14, LeavingSafe, ZenonT(40)
  <2>6. CASE ~last
    <3>1. /\ mg'[u] = gone /\ \A v \in Uuids \ {u} : mg'[v] = mg[v]
      BY <1>5, <1>11, <2>6, Zenon
    <3>2. cpg' = cpg /\ register_list' = register_list /\ dlm_fs' = dlm_fs
      BY <1>11, <2>6, Zenon DEF leave_effect, unregister_effect
    <3>3. /\ \A i \in Slots : i # ci => client'[i] = client[i]
          /\ Kept(ci) /\ client'[ci].pc \in {"wait", "done"}
      <4>1. /\ client' = send_status([client EXCEPT ![ci].pc = "wait"],
                                     client[ci].fd, m.mg_error)
            /\ m.mg_error \in Statuses
        BY <1>11, <2>6, StatusTypes, Zenon
      <4> QED
        BY <1>7, <4>1, Zenon
    <3>4. LocalTo(u)
      BY <1>2, <3>1, <3>2, ZenonT(40) DEF LocalTo
    <3>5. ClientsOf(u)
      BY <1>1, <3>3, ZenonT(40) DEF ClientsOf
    <3>6. NoneTold(u)
      <4>1. \A i \in Slots : ToldOK(i)
        BY <1>2, <2>1, Zenon DEF SafeInv
      <4> QED
        BY <1>2, <2>1, <3>3, <4>1 DEF NoneTold, Told, ToldOK, Kept
    <3>7. m.mg_services # {s} /\ m.mg_ms_in_progress = NoService
          /\ NoService \notin Services /\ m.mg_services \subseteq Services
          /\ mg[u].mg_mount_fd = -1
      BY <1>4, <1>5, <1>11, <2>1, <2>6, ConstAssumption, Zenon
         DEF last_service, busy, Mountgroup, IdleOK
    <3>10. gone.mg_registered = m.mg_registered
      BY <2>3, <2>6, Zenon
    <3>8. /\ mg'[u].mg_group /\ mg'[u].mg_registered /\ mg'[u].mg_services # {}
          /\ mg'[u].mg_ms_in_progress \notin mg'[u].mg_services
          /\ mg'[u].mg_mount_ci = -1 /\ mg'[u].mg_mount_fd = -1
          /\ mg'[u].mg_error = OK
      BY <1>4, <1>11, <2>1, <2>2, <2>6, <3>1, <3>7, <3>10, ZenonT(40)
    <3>11. mg'[u].ms_additional => mg'[u].mg_mount_notified
      BY <2>4, <3>1, Zenon
    <3>9. kmounts[u] # 0 => OCFS2_FS_NAME \in mg'[u].mg_services
      BY <1>4, <1>5, <1>6, <2>2, <3>1 DEF KernelOK
    <3> QED
      BY <1>2, <1>11, <2>1, <3>2, <3>4, <3>5, <3>6, <3>8, <3>9, <3>11, QuietSafe, Zenon
  <2> QED
    BY <2>5, <2>6, Zenon
<1> QED
  BY <1>8, <1>9, <1>10, <1>11, Zenon

LEMMA DeadSafe ==
  ASSUME TypeOK, SafeInv, NEW ci \in Slots, DeadClient(ci)
  PROVE  SafeInv'
<1>1. /\ client' = [client EXCEPT ![ci] = FreeSlot] /\ mounts' = mounts
      /\ orphan' = orphan /\ results' = results /\ UNCHANGED kernelVars
  BY Zenon DEF DeadClient
<1>2. /\ client'[ci] = FreeSlot /\ \A i \in Slots : i # ci => client'[i] = client[i]
      /\ FreeSlot.pc = "done" /\ FreeSlot.fd = -1
  BY <1>1, Zenon DEF TypeOK, FreeSlot
<1> DEFINE found == find_mg_by_client(ci)
           Dead(u) ==
             LET ms == mg[u].mg_ms_in_progress
                 m == detach(mg[u])
                 additional == is_additional(m, ms)
                 forget == [m EXCEPT
                              !.ms_additional = IF additional THEN FALSE ELSE @,
                              !.mg_ms_in_progress = NoService]
             IN
             /\ busy(mg[u])
             /\ \/ /\ ms \notin m.mg_services
                   /\ mg' = [mg EXCEPT ![u] = m]
                   /\ UNCHANGED <<cpg, register_list, dlm_fs>>
                \/ /\ ms \in m.mg_services /\ (additional \/ m.mg_mount_notified)
                   /\ mg' = [mg EXCEPT ![u] = forget]
                   /\ UNCHANGED <<cpg, register_list, dlm_fs>>
                \/ /\ ms \in m.mg_services /\ ~additional /\ ~m.mg_mount_notified
                   /\ mg' = [mg EXCEPT ![u] = remove_service(m, ms)]
                   /\ leave_effect(u, m, ms)
                   /\ unregister_effect(u, m, ms)
<1>3. \/ /\ \A u \in found : ~busy(mg[u])
         /\ UNCHANGED <<mg, cpg, register_list, dlm_fs>>
      \/ \E u \in found : Dead(u)
  BY Zenon DEF DeadClient
<1> HIDE DEF Dead
<1>4. CASE /\ \A u \in found : ~busy(mg[u])
           /\ UNCHANGED <<mg, cpg, register_list, dlm_fs>>
  <2>1. \A u \in Uuids : mg[u].mg_mount_ci # ci
    BY <1>4, FoundFields, ConstTypes DEF SafeInv, AttachOK
  <2>2. UNCHANGED daemonVars
    BY <1>1, <1>4, Zenon DEF daemonVars
  <2> QED
    BY <1>1, <1>2, <2>1, <2>2, UnattachedSafe, Zenon
<1>5. ASSUME NEW u \in found, Dead(u) PROVE SafeInv'
  <2>1. /\ u \in Uuids /\ client[ci].uuid = u /\ mounts[u] # 0
        /\ mg[u].mg_mount_ci = ci /\ busy(mg[u])
    BY <1>5, FoundFields, Zenon DEF Dead
  <2>2. /\ GroupOK(u) /\ RegisterOK(u) /\ IdleOK(u) /\ AttachOK(u) /\ KernelOK(u)
        /\ mg \in [Uuids -> Mountgroup] /\ mg[u] \in Mountgroup /\ ToldOK(ci)
        /\ ci # -1 /\ NoService \notin Services /\ kmounts[u] \in Nat
    BY <2>1, ConstAssumption, ConstTypes DEF SafeInv, TypeOK
  <2>3. PICK ms \in Services : ms = mg[u].mg_ms_in_progress
    BY <2>1, <2>2, Zenon DEF busy, Mountgroup
  <2>4. PICK m \in Mountgroup : m = detach(mg[u])
    BY <2>2, DetachFields, Zenon
  <2>5. /\ m.mg_group = mg[u].mg_group /\ m.mg_registered = mg[u].mg_registered
        /\ m.mg_leave_on_join = mg[u].mg_leave_on_join
        /\ m.mg_services = mg[u].mg_services /\ m.mg_error = mg[u].mg_error
        /\ m.mg_mount_notified = mg[u].mg_mount_notified
        /\ m.ms_additional = mg[u].ms_additional
        /\ m.mg_ms_in_progress = ms /\ m.mg_mount_ci = -1 /\ m.mg_mount_fd = -1
    BY <2>2, <2>3, <2>4, DetachFields, Zenon
  <2>6. ClientsOf(u)
    BY <1>2, <2>1, Zenon DEF ClientsOf
  <2>7. NoneTold(u)
    <3>1. \A i \in Slots : ToldOK(i)
      BY <2>1, Zenon DEF SafeInv
    <3>2. \A i \in Slots : i # ci /\ client[i].uuid = u => ~Told(i) /\ ToldOK(i)
      BY <2>1, <3>1, ZenonT(40) DEF ToldOK
    <3> QED
      BY <1>2, <3>2, Zenon DEF NoneTold, Told, ToldOK
  <2>8. m.ms_additional => m.mg_mount_notified
    BY <2>2, <2>5, Zenon DEF IdleOK
  <2> DEFINE additional == is_additional(m, ms)
             forget == [m EXCEPT !.ms_additional = IF additional THEN FALSE ELSE @,
                                 !.mg_ms_in_progress = NoService]
  <2>9. \/ /\ ms \notin m.mg_services
           /\ mg' = [mg EXCEPT ![u] = m]
           /\ UNCHANGED <<cpg, register_list, dlm_fs>>
        \/ /\ ms \in m.mg_services /\ (additional \/ m.mg_mount_notified)
           /\ mg' = [mg EXCEPT ![u] = forget]
           /\ UNCHANGED <<cpg, register_list, dlm_fs>>
        \/ /\ ms \in m.mg_services /\ ~additional /\ ~m.mg_mount_notified
           /\ mg' = [mg EXCEPT ![u] = remove_service(m, ms)]
           /\ leave_effect(u, m, ms)
           /\ unregister_effect(u, m, ms)
    BY <1>5, <2>3, <2>4, Zenon DEF Dead
  <2>10. CASE /\ ms \notin m.mg_services
              /\ mg' = [mg EXCEPT ![u] = m]
              /\ UNCHANGED <<cpg, register_list, dlm_fs>>
    <3>1. mg'[u] = m /\ \A v \in Uuids \ {u} : mg'[v] = mg[v]
      BY <2>1, <2>2, <2>10, Zenon
    <3>2. mg[u].mg_services = {}
      BY <2>1, <2>2, <2>3, <2>5, <2>10, Zenon DEF AttachOK, Mounting
    <3>3. LocalTo(u)
      BY <1>1, <2>10, <3>1, Zenon DEF LocalTo
    <3>4. GroupOK(u)'
      BY <1>1, <2>1, <2>2, <2>3, <2>5, <2>10, <3>1, <3>2, ZenonT(40) DEF GroupOK, busy
    <3>5. RegisterOK(u)'
      BY <1>1, <2>1, <2>2, <2>3, <2>5, <2>10, <3>1, <3>2, Zenon DEF RegisterOK, busy, Mounting
    <3>6. IdleOK(u)'
      BY <2>1, <2>2, <2>3, <2>5, <3>1, <3>2 DEF IdleOK, busy, Mounting
    <3>7. AttachOK(u)'
      BY <2>5, <3>1, Zenon DEF AttachOK
    <3>8. KernelOK(u)'
      BY <1>1, <2>2, <2>5, <3>1, <3>2, Zenon DEF KernelOK, Mounting, kernelVars
    <3>9. \A i \in Slots : client[i].uuid = u => ToldOK(i)'
      BY <2>7, Zenon DEF NoneTold, ToldOK, Told
    <3> QED
      BY <2>1, <2>6, <3>3, <3>4, <3>5, <3>6, <3>7, <3>8, <3>9, LocalSafe, Zenon DEF FilesystemOK
  <2>11. CASE /\ ms \in m.mg_services /\ (additional \/ m.mg_mount_notified)
              /\ mg' = [mg EXCEPT ![u] = forget]
              /\ UNCHANGED <<cpg, register_list, dlm_fs>>
    <3>1. mg[u].mg_mount_notified /\ mg[u].mg_registered /\ mg[u].mg_services # {}
      <4>1. m.mg_mount_notified
        BY <2>8, <2>11, Zenon DEF is_additional
      <4> QED
        BY <2>1, <2>2, <2>3, <2>5, <2>11, <4>1, Zenon DEF RegisterOK, Mounting
    <3>2. cpg[u] = "joined" /\ mg[u].mg_group /\ mg[u].mg_error = OK
      BY <2>1, <3>1, RegisteredFields, Zenon
    <3> DEFINE b == IF additional THEN FALSE ELSE m.ms_additional
    <3>3. m.ms_additional \in BOOLEAN
      BY Zenon DEF Mountgroup
    <3>4. b \in BOOLEAN
      BY <3>3, Zenon
    <3>5. forget = [m EXCEPT !.ms_additional = b, !.mg_ms_in_progress = NoService]
      BY Zenon
    <3> HIDE DEF b
    <3>6. /\ forget.mg_group = m.mg_group /\ forget.mg_registered = m.mg_registered
          /\ forget.mg_services = m.mg_services /\ forget.mg_error = m.mg_error
          /\ forget.mg_mount_notified = m.mg_mount_notified
          /\ forget.mg_ms_in_progress = NoService
          /\ forget.mg_mount_ci = -1 /\ forget.mg_mount_fd = -1
      BY <2>5, <3>4, <3>5, Zenon DEF Mountgroup
    <3> HIDE DEF forget
    <3>7. mg'[u] = forget /\ \A v \in Uuids \ {u} : mg'[v] = mg[v]
      BY <2>1, <2>2, <2>11, Zenon
    <3>8. cpg' = cpg /\ register_list' = register_list /\ dlm_fs' = dlm_fs
      BY <2>11, Zenon
    <3>9. LocalTo(u)
      BY <1>1, <3>7, <3>8, Zenon DEF LocalTo
    <3>10. mg[u].mg_services \subseteq Services
      BY <2>2, Zenon DEF Mountgroup
    <3>11. /\ mg'[u].mg_group /\ mg'[u].mg_registered /\ mg'[u].mg_services # {}
           /\ mg'[u].mg_ms_in_progress \notin mg'[u].mg_services
           /\ mg'[u].mg_mount_ci = -1 /\ mg'[u].mg_mount_fd = -1
           /\ mg'[u].mg_error = OK /\ mg'[u].mg_mount_notified
           /\ mg'[u].mg_services = mg[u].mg_services
      BY <2>2, <2>5, <3>1, <3>2, <3>6, <3>7, <3>10, ZenonT(40)
    <3>12. kmounts[u] # 0 => OCFS2_FS_NAME \in mg'[u].mg_services
      BY <2>2, <3>11 DEF KernelOK
    <3> QED
      BY <1>1, <2>1, <2>6, <2>7, <3>1, <3>2, <3>8, <3>9, <3>11, <3>12, QuietSafe
  <2>12. CASE /\ ms \in m.mg_services /\ ~additional /\ ~m.mg_mount_notified
              /\ mg' = [mg EXCEPT ![u] = remove_service(m, ms)]
              /\ leave_effect(u, m, ms)
              /\ unregister_effect(u, m, ms)
    <3> DEFINE gone == remove_service(m, ms)
    <3>1. /\ gone \in Mountgroup /\ gone.mg_group = m.mg_group
          /\ gone.mg_services = m.mg_services \ {ms}
          /\ gone.mg_mount_ci = m.mg_mount_ci /\ gone.mg_mount_fd = m.mg_mount_fd
          /\ gone.mg_mount_notified = m.mg_mount_notified
          /\ gone.mg_error = m.mg_error
      BY RemoveServiceFields, Zenon
    <3>2. gone.mg_ms_in_progress = ms
      BY <2>5, RemoveServiceFields, Zenon
    <3>3. /\ ms # OCFS2_FS_NAME => gone.ms_additional = m.ms_additional
          /\ ms = OCFS2_FS_NAME => ~gone.ms_additional
          /\ last_service(m, ms) => ~gone.mg_registered
          /\ ~last_service(m, ms) => gone.mg_registered = m.mg_registered
          /\ last_service(m, ms) /\ ~m.mg_group => gone.mg_leave_on_join
      BY RemoveServiceFlags, Zenon
    <3>4. ~gone.ms_additional /\ ~mg[u].ms_additional
      BY <2>5, <2>8, <2>12, <3>3, Zenon
    <3> HIDE DEF gone
    <3>5. mg'[u] = gone /\ \A v \in Uuids \ {u} : mg'[v] = mg[v]
      BY <2>1, <2>2, <2>12, Zenon DEF gone
    <3>6. client[ci].pc = "wait" /\ mg[u].mg_mount_fd # -1 /\ Mounting(u)
          /\ mg[u].mg_error = OK
      BY <2>1, <2>2, <2>3, <2>5, <2>12, ZenonT(40) DEF AttachOK, Mounting, ToldOK, Told, IdleOK
    <3>7. ms = OCFS2_FS_NAME => kmounts[u] = 0
      BY <2>1, <2>2, <2>3, <3>4, <3>6, Zenon DEF KernelOK
    <3>8. /\ mg'[u].mg_services = mg[u].mg_services \ {ms}
          /\ mg'[u].mg_ms_in_progress = ms /\ mg'[u].mg_error = OK
          /\ mg'[u].mg_mount_ci = -1 /\ mg'[u].mg_mount_fd = -1
          /\ ~mg'[u].ms_additional /\ mg'[u].mg_group = mg[u].mg_group
      BY <2>5, <3>1, <3>2, <3>4, <3>5, <3>6, Zenon
    <3>9. AttachOK(u)'
      BY <3>8, Zenon DEF AttachOK
    <3>10. OK # "EALREADY" /\ ms # NoService
      BY <2>2, <2>3, Zenon DEF OK
    <3>11. CASE last_service(m, ms) /\ m.mg_group
      <4>1. /\ cpg'[u] = "leaving" /\ \A v \in Uuids \ {u} : cpg'[v] = cpg[v]
        BY <2>1, <2>12, <3>11, Zenon DEF leave_effect, TypeOK
      <4>2. \/ /\ mg[u].mg_registered
               /\ register_list' = [register_list EXCEPT ![u].live = FALSE]
               /\ dlm_fs' = [dlm_fs EXCEPT ![u] = FALSE]
            \/ /\ ~mg[u].mg_registered
               /\ register_list' = register_list /\ dlm_fs' = dlm_fs
        BY <2>5, <2>12, <3>11, Zenon DEF unregister_effect
      <4>3. \A v \in Uuids \ {u} : register_list'[v] = register_list[v]
                                   /\ dlm_fs'[v] = dlm_fs[v]
        BY <4>2, Zenon DEF TypeOK
      <4>4. LocalTo(u)
        BY <1>1, <3>5, <4>1, <4>3, Zenon DEF LocalTo
      <4>5. kmounts[u] = 0
        BY <2>2, <2>5, <3>7, <3>11 DEF KernelOK, last_service
      <4>6. mg'[u].mg_services = {} /\ ~mg'[u].mg_registered /\ mg'[u].mg_group
        BY <2>5, <3>3, <3>5, <3>8, <3>11, Zenon DEF last_service
      <4>7. /\ Len(results'[u]) <= 1
            /\ results'[u] # <<>> /\ Head(results'[u]) = OK => dlm_fs'[u]
        BY <1>1, <2>2, <4>2, Zenon DEF RegisterOK
      <4> QED
        BY <1>1, <2>1, <2>6, <2>7, <3>8, <3>9, <3>10, <4>1, <4>4, <4>5, <4>6,
           <4>7, LeavingSafe, ZenonT(40)
    <3>12. CASE last_service(m, ms) /\ ~m.mg_group
      <4>1. /\ cpg[u] = "joining" /\ ~mg[u].mg_registered /\ ~mg[u].mg_group
            /\ ~register_list[u].live
        <5>1. cpg[u] \in {"none", "joining", "joined", "leaving"}
          BY <2>1, Zenon DEF TypeOK
        <5>2. ~mg[u].mg_group /\ mg[u].mg_services # {}
          BY <2>5, <2>12, <3>12, Zenon
        <5> QED
          BY <2>1, <2>2, <5>1, <5>2, Zenon DEF GroupOK, RegisterOK
      <4>2. cpg' = cpg /\ register_list' = register_list /\ dlm_fs' = dlm_fs
        BY <2>5, <2>12, <3>12, <4>1, Zenon DEF leave_effect, unregister_effect
      <4>3. /\ mg'[u].mg_services = {} /\ ~mg'[u].mg_registered
            /\ ~mg'[u].mg_group /\ mg'[u].mg_leave_on_join
        BY <2>5, <3>3, <3>5, <3>8, <3>12, Zenon DEF last_service
      <4>4. LocalTo(u)
        BY <1>1, <3>5, <4>2, Zenon DEF LocalTo
      <4>5. GroupOK(u)'
        BY <1>1, <2>1, <3>8, <3>10, <4>1, <4>2, <4>3, Zenon DEF GroupOK, busy
      <4>6. RegisterOK(u)'
        BY <1>1, <2>1, <2>2, <3>8, <4>1, <4>2, <4>3, Zenon DEF RegisterOK, Mounting
      <4>7. IdleOK(u)'
        BY <3>8, <3>10, <4>3, Zenon DEF IdleOK, busy, Mounting
      <4>8. kmounts[u] = 0 /\ kmounts' = kmounts
        BY <1>1, <2>2, <4>1 DEF KernelOK, kernelVars
      <4>9. KernelOK(u)'
        BY <4>3, <4>8 DEF KernelOK, Mounting
      <4>10. \A i \in Slots : client[i].uuid = u => ToldOK(i)'
        BY <2>7, Zenon DEF NoneTold, ToldOK, Told
      <4> QED
        BY <2>1, <2>6, <3>9, <4>4, <4>5, <4>6, <4>7, <4>9, <4>10, LocalSafe, Zenon
           DEF FilesystemOK
    <3>13. CASE ~last_service(m, ms)
      <4>1. mg[u].mg_services # {ms} /\ ms \in mg[u].mg_services
        BY <2>5, <2>12, <3>13, Zenon DEF last_service
      <4>2. mg[u].mg_registered
        <5>1. cpg[u] \in {"none", "joining", "joined", "leaving"}
          BY <2>1, Zenon DEF TypeOK
        <5> QED
          BY <2>1, <2>2, <2>3, <4>1, <5>1, Zenon DEF GroupOK, RegisterOK
      <4>3. cpg[u] = "joined" /\ mg[u].mg_group
        BY <2>1, <4>1, <4>2, RegisteredFields, Zenon
      <4>4. cpg' = cpg /\ register_list' = register_list /\ dlm_fs' = dlm_fs
        BY <2>12, <3>13, Zenon DEF leave_effect, unregister_effect
      <4>5. mg'[u].mg_registered /\ mg'[u].mg_group /\ mg'[u].mg_services # {}
            /\ mg'[u].mg_ms_in_progress \notin mg'[u].mg_services
        BY <2>5, <3>3, <3>5, <3>8, <3>13, <4>1, <4>2, <4>3, ZenonT(40)
      <4>6. LocalTo(u)
        BY <1>1, <3>5, <4>4, Zenon DEF LocalTo
      <4>7. kmounts[u] # 0 => OCFS2_FS_NAME \in mg'[u].mg_services
        BY <2>2, <3>7, <3>8 DEF KernelOK
      <4> QED
        BY <1>1, <2>1, <2>6, <2>7, <3>8, <4>2, <4>3, <4>4, <4>5, <4>6, <4>7, QuietSafe, Zenon
    <3> QED
      BY <3>11, <3>12, <3>13, Zenon
  <2> QED
    BY <2>9, <2>10, <2>11, <2>12, Zenon
<1> QED
  BY <1>3, <1>4, <1>5, Zenon

=============================================================================
