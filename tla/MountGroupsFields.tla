------------------------- MODULE MountGroupsFields --------------------------
(***************************************************************************)
(* What the helpers of mount.c return, field by field; that every step is  *)
(* type correct, for every environment; and what a step of the daemon      *)
(* leaves alone: it touches one filesystem, and LocalSafe reduces what is  *)
(* to be shown to that one and to the programs that use it.                *)
(***************************************************************************)
EXTENDS MountGroupsInv, TLAPS

-----------------------------------------------------------------------------
(* What the helpers return, field by field. *)

LEMMA ConstTypes ==
  /\ AnyDevice \in Devices /\ AnyUuid \in Uuids /\ -1 \notin Fds /\ -1 \notin Slots
  /\ FreeSlot \in Client /\ NewMg(AnyDevice) \in Mountgroup
  /\ \A d \in Devices : NewMg(d) \in Mountgroup
BY ConstAssumption DEF AnyDevice, AnyUuid, FreeSlot, Client, NewMg,
   Mountgroup, Statuses, OK, Slots

LEMMA StatusTypes ==
  /\ {"EINVAL", "EBUSY", "EALREADY", "ENOENT", "EJOIN", "EREGISTER"} \subseteq Statuses
  /\ OK \in Statuses
  /\ \A m \in Mountgroup : m.mg_error \in Statuses
BY Zenon DEF Statuses, Errors, Mountgroup

(* fill_error() changes nothing but mg_error, and that only once. *)
LEMMA FillErrorFields ==
  ASSUME NEW m \in Mountgroup, NEW e \in Statuses
  PROVE  LET r == fill_error(m, e) IN
         /\ r \in Mountgroup
         /\ r.mg_error = IF m.mg_error # OK THEN m.mg_error ELSE e
         /\ r.mg_group = m.mg_group /\ r.mg_leave_on_join = m.mg_leave_on_join
         /\ r.mg_registered = m.mg_registered /\ r.mg_device = m.mg_device
         /\ r.mg_services = m.mg_services /\ r.ms_additional = m.ms_additional
         /\ r.mg_ms_in_progress = m.mg_ms_in_progress
         /\ r.mg_mount_ci = m.mg_mount_ci /\ r.mg_mount_fd = m.mg_mount_fd
         /\ r.mg_mount_notified = m.mg_mount_notified
BY DEF fill_error, Mountgroup

(* attach() and detach() change nothing but the client. *)
LEMMA AttachFields ==
  ASSUME NEW m \in Mountgroup, NEW ci \in Slots, NEW fd \in Fds \cup {-1}
  PROVE  LET r == attach(m, ci, fd) IN
         /\ r \in Mountgroup
         /\ r.mg_mount_ci = ci /\ r.mg_mount_fd = fd
         /\ r.mg_error = m.mg_error
         /\ r.mg_group = m.mg_group /\ r.mg_leave_on_join = m.mg_leave_on_join
         /\ r.mg_registered = m.mg_registered /\ r.mg_device = m.mg_device
         /\ r.mg_services = m.mg_services /\ r.ms_additional = m.ms_additional
         /\ r.mg_ms_in_progress = m.mg_ms_in_progress
         /\ r.mg_mount_notified = m.mg_mount_notified
BY Zenon DEF attach, Mountgroup

LEMMA DetachFields ==
  ASSUME NEW m \in Mountgroup
  PROVE  LET r == detach(m) IN
         /\ r \in Mountgroup
         /\ r.mg_mount_ci = -1 /\ r.mg_mount_fd = -1
         /\ r.mg_error = m.mg_error
         /\ r.mg_group = m.mg_group /\ r.mg_leave_on_join = m.mg_leave_on_join
         /\ r.mg_registered = m.mg_registered /\ r.mg_device = m.mg_device
         /\ r.mg_services = m.mg_services /\ r.ms_additional = m.ms_additional
         /\ r.mg_ms_in_progress = m.mg_ms_in_progress
         /\ r.mg_mount_notified = m.mg_mount_notified
BY Zenon DEF detach, Mountgroup

(* When add_service() refuses: the device differs, a mount or a leave is in *)
(* progress, or a tool asks for a service that is there.                   *)
Refused(m, d, s) ==
  \/ m.mg_device # d
  \/ busy(m)
  \/ s \in m.mg_services /\ s # OCFS2_FS_NAME

LEMMA AddServiceRefused ==
  ASSUME NEW m \in Mountgroup, NEW d \in Devices, NEW s \in Services,
         NEW ci \in Slots, NEW fd \in Fds \cup {-1}, Refused(m, d, s)
  PROVE  \E e \in {"EINVAL", "EBUSY"} :
           add_service(m, d, s, ci, fd) = fill_error(m, e)
BY Zenon DEF Refused, add_service

(* Otherwise it starts the service for the client. *)
LEMMA AddServiceStarted ==
  ASSUME NEW m \in Mountgroup, NEW d \in Devices, NEW s \in Services,
         NEW ci \in Slots, NEW fd \in Fds \cup {-1}, ~Refused(m, d, s),
         NEW r, r = add_service(m, d, s, ci, fd)
  PROVE  /\ r \in Mountgroup
         /\ r.mg_group = m.mg_group /\ r.mg_leave_on_join = m.mg_leave_on_join
         /\ r.mg_registered = m.mg_registered /\ r.mg_device = m.mg_device
         /\ r.mg_mount_notified = m.mg_mount_notified
         /\ r.mg_services = m.mg_services \cup {s}
         /\ r.mg_ms_in_progress = s
         /\ r.mg_mount_ci = ci /\ r.mg_mount_fd = fd
         /\ r.mg_error = IF m.mg_services = {} \/ m.mg_error # OK
                           THEN m.mg_error ELSE "EALREADY"
<1> DEFINE a == attach(m, ci, fd)
           b == IF s \in m.mg_services THEN TRUE ELSE a.ms_additional
           started == [a EXCEPT !.ms_additional = b,
                                !.mg_ms_in_progress = s,
                                !.mg_services = @ \cup {s}]
<1>1. a \in Mountgroup /\ a.mg_error = m.mg_error
      /\ a.mg_group = m.mg_group /\ a.mg_leave_on_join = m.mg_leave_on_join
      /\ a.mg_registered = m.mg_registered /\ a.mg_device = m.mg_device
      /\ a.mg_services = m.mg_services /\ a.ms_additional = m.ms_additional
      /\ a.mg_mount_ci = ci /\ a.mg_mount_fd = fd
      /\ a.mg_mount_notified = m.mg_mount_notified
  BY AttachFields
<1>2. add_service(m, d, s, ci, fd) =
        IF m.mg_services = {} THEN started ELSE fill_error(started, "EALREADY")
  BY Zenon DEF add_service, Refused
<1> HIDE DEF a
<1>3. b \in BOOLEAN /\ b = IF s \in m.mg_services THEN TRUE ELSE m.ms_additional
  BY <1>1, Zenon DEF Mountgroup
<1> HIDE DEF b
<1>4. started \in Mountgroup /\ started.mg_error = m.mg_error
      /\ started.mg_group = m.mg_group
      /\ started.mg_leave_on_join = m.mg_leave_on_join
      /\ started.mg_registered = m.mg_registered
      /\ started.mg_device = m.mg_device
      /\ started.mg_services = m.mg_services \cup {s}
      /\ started.ms_additional = b
      /\ started.mg_ms_in_progress = s
      /\ started.mg_mount_ci = ci /\ started.mg_mount_fd = fd
      /\ started.mg_mount_notified = m.mg_mount_notified
  BY <1>1, <1>3, Zenon DEF Mountgroup
<1> HIDE DEF started
<1>5. CASE m.mg_services = {}
  BY <1>2, <1>3, <1>4, <1>5, Zenon
<1>6. CASE m.mg_services # {}
  <2>1. "EALREADY" \in Statuses
    BY Zenon DEF Statuses, Errors
  <2> DEFINE x == fill_error(started, "EALREADY")
  <2>2. /\ x \in Mountgroup
        /\ x.mg_error = IF started.mg_error # OK THEN started.mg_error
                                                ELSE "EALREADY"
        /\ x.mg_group = started.mg_group
        /\ x.mg_leave_on_join = started.mg_leave_on_join
        /\ x.mg_registered = started.mg_registered
        /\ x.mg_device = started.mg_device
        /\ x.mg_services = started.mg_services
        /\ x.ms_additional = started.ms_additional
        /\ x.mg_ms_in_progress = started.mg_ms_in_progress
        /\ x.mg_mount_ci = started.mg_mount_ci
        /\ x.mg_mount_fd = started.mg_mount_fd
        /\ x.mg_mount_notified = started.mg_mount_notified
    BY <1>4, <2>1, FillErrorFields
  <2> HIDE DEF x
  <2> QED
    BY <1>2, <1>3, <1>4, <1>6, <2>2 DEF x
<1> QED
  BY <1>5, <1>6, Zenon

LEMMA AddServiceAdditional ==
  ASSUME NEW m \in Mountgroup, NEW d \in Devices, NEW s \in Services,
         NEW ci \in Slots, NEW fd \in Fds \cup {-1}, ~Refused(m, d, s)
  PROVE  LET r == add_service(m, d, s, ci, fd) IN
         /\ s \in m.mg_services => r.ms_additional
         /\ s \notin m.mg_services => r.ms_additional = m.ms_additional
<1> DEFINE a == attach(m, ci, fd)
           b == IF s \in m.mg_services THEN TRUE ELSE a.ms_additional
           started == [a EXCEPT !.ms_additional = b,
                                !.mg_ms_in_progress = s,
                                !.mg_services = @ \cup {s}]
<1>1. a \in Mountgroup /\ a.ms_additional = m.ms_additional
  BY AttachFields
<1>2. add_service(m, d, s, ci, fd) =
        IF m.mg_services = {} THEN started ELSE fill_error(started, "EALREADY")
  BY Zenon DEF add_service, Refused
<1> HIDE DEF a
<1>3. b \in BOOLEAN /\ b = IF s \in m.mg_services THEN TRUE ELSE m.ms_additional
  BY <1>1, Zenon DEF Mountgroup
<1> HIDE DEF b
<1>4. started \in Mountgroup /\ started.ms_additional = b
  BY <1>1, <1>3, Zenon DEF Mountgroup
<1> HIDE DEF started
<1>5. fill_error(started, "EALREADY").ms_additional = started.ms_additional
  BY <1>4, StatusTypes, FillErrorFields, Zenon
<1>6. add_service(m, d, s, ci, fd).ms_additional = b
  BY <1>2, <1>4, <1>5, Zenon
<1> QED
  BY <1>3, <1>6, Zenon

(* remove_service() of the last service starts a leave; of another one, it *)
(* only forgets the service.                                               *)
LEMMA RemoveServiceFields ==
  ASSUME NEW m \in Mountgroup, NEW s \in Services
  PROVE  LET r == remove_service(m, s) IN
         /\ r \in Mountgroup
         /\ r.mg_group = m.mg_group /\ r.mg_device = m.mg_device
         /\ r.mg_services = m.mg_services \ {s}
         /\ r.mg_mount_ci = m.mg_mount_ci /\ r.mg_mount_fd = m.mg_mount_fd
         /\ r.mg_mount_notified = m.mg_mount_notified
         /\ r.mg_error = m.mg_error
         /\ r.mg_ms_in_progress = IF last_service(m, s) THEN s
                                                        ELSE m.mg_ms_in_progress
<1> DEFINE a == IF s = OCFS2_FS_NAME THEN FALSE ELSE m.ms_additional
           left == [m EXCEPT !.mg_services = @ \ {s}, !.ms_additional = a]
           b == IF m.mg_group THEN left.mg_leave_on_join ELSE TRUE
           last == [left EXCEPT !.mg_ms_in_progress = s, !.mg_registered = FALSE,
                                !.mg_leave_on_join = b]
<1>1. remove_service(m, s) = IF last_service(m, s) THEN last ELSE left
  BY Zenon DEF remove_service
<1>2. a \in BOOLEAN
  BY Zenon DEF Mountgroup
<1> HIDE DEF a
<1>3. /\ left \in Mountgroup
      /\ left.mg_group = m.mg_group /\ left.mg_device = m.mg_device
      /\ left.mg_services = m.mg_services \ {s} /\ left.ms_additional = a
      /\ left.mg_mount_ci = m.mg_mount_ci /\ left.mg_mount_fd = m.mg_mount_fd
      /\ left.mg_mount_notified = m.mg_mount_notified
      /\ left.mg_error = m.mg_error
      /\ left.mg_ms_in_progress = m.mg_ms_in_progress
      /\ left.mg_registered = m.mg_registered
      /\ left.mg_leave_on_join = m.mg_leave_on_join
  BY <1>2, Zenon DEF Mountgroup
<1> HIDE DEF left
<1>4. b \in BOOLEAN /\ b = IF m.mg_group THEN m.mg_leave_on_join ELSE TRUE
  BY <1>3, Zenon DEF Mountgroup
<1> HIDE DEF b
<1>5. /\ last \in Mountgroup
      /\ last.mg_group = left.mg_group /\ last.mg_device = left.mg_device
      /\ last.mg_services = left.mg_services
      /\ last.ms_additional = left.ms_additional
      /\ last.mg_mount_ci = left.mg_mount_ci
      /\ last.mg_mount_fd = left.mg_mount_fd
      /\ last.mg_mount_notified = left.mg_mount_notified
      /\ last.mg_error = left.mg_error
      /\ last.mg_ms_in_progress = s /\ last.mg_registered = FALSE
      /\ last.mg_leave_on_join = b
  BY <1>3, <1>4, ZenonT(40) DEF Mountgroup
<1> HIDE DEF last
<1>6. CASE last_service(m, s)
  <2>1. remove_service(m, s) = last
    BY <1>1, <1>6, Zenon
  <2> QED
    BY <2>1, <1>3, <1>4, <1>5, <1>6, Zenon DEF a
<1>7. CASE ~last_service(m, s)
  <2>1. remove_service(m, s) = left
    BY <1>1, <1>7, Zenon
  <2> QED
    BY <2>1, <1>3, <1>7, Zenon DEF a
<1> QED
  BY <1>6, <1>7, Zenon

LEMMA RemoveServiceFlags ==
  ASSUME NEW m \in Mountgroup, NEW s \in Services
  PROVE  LET r == remove_service(m, s) IN
         /\ s = OCFS2_FS_NAME => ~r.ms_additional
         /\ s # OCFS2_FS_NAME => r.ms_additional = m.ms_additional
         /\ last_service(m, s) => ~r.mg_registered
         /\ ~last_service(m, s) => r.mg_registered = m.mg_registered
         /\ last_service(m, s) /\ ~m.mg_group => r.mg_leave_on_join
         /\ ~last_service(m, s) \/ m.mg_group =>
              r.mg_leave_on_join = m.mg_leave_on_join
<1> DEFINE a == IF s = OCFS2_FS_NAME THEN FALSE ELSE m.ms_additional
           left == [m EXCEPT !.mg_services = @ \ {s}, !.ms_additional = a]
           b == IF m.mg_group THEN left.mg_leave_on_join ELSE TRUE
           last == [left EXCEPT !.mg_ms_in_progress = s, !.mg_registered = FALSE,
                                !.mg_leave_on_join = b]
<1>1. remove_service(m, s) = IF last_service(m, s) THEN last ELSE left
  BY Zenon DEF remove_service
<1>2. a \in BOOLEAN
  BY Zenon DEF Mountgroup
<1> HIDE DEF a
<1>3. /\ left \in Mountgroup /\ left.ms_additional = a
      /\ left.mg_registered = m.mg_registered
      /\ left.mg_leave_on_join = m.mg_leave_on_join
  BY <1>2, Zenon DEF Mountgroup
<1> HIDE DEF left
<1>4. b \in BOOLEAN /\ b = IF m.mg_group THEN m.mg_leave_on_join ELSE TRUE
  BY <1>3, Zenon DEF Mountgroup
<1> HIDE DEF b
<1>5. /\ last.ms_additional = a
      /\ last.mg_registered = FALSE /\ last.mg_leave_on_join = b
  BY <1>3, <1>4, Zenon DEF Mountgroup
<1> HIDE DEF last
<1>6. CASE last_service(m, s)
  BY <1>1, <1>4, <1>5, <1>6, Zenon DEF a
<1>7. CASE ~last_service(m, s)
  BY <1>1, <1>3, <1>7, Zenon DEF a
<1> QED
  BY <1>6, <1>7, Zenon

(* notify_mount_client() clears the error and may set the notified flag. *)
LEMMA NotifiedFields ==
  ASSUME NEW m \in Mountgroup
  PROVE  LET r == notified(m) IN
         /\ r \in Mountgroup
         /\ r.mg_error = OK
         /\ r.mg_group = m.mg_group /\ r.mg_leave_on_join = m.mg_leave_on_join
         /\ r.mg_registered = m.mg_registered /\ r.mg_device = m.mg_device
         /\ r.mg_services = m.mg_services /\ r.ms_additional = m.ms_additional
         /\ r.mg_ms_in_progress = m.mg_ms_in_progress
         /\ r.mg_mount_ci = m.mg_mount_ci /\ r.mg_mount_fd = m.mg_mount_fd
<1> DEFINE b == IF peer_alive(m.mg_mount_fd) THEN TRUE ELSE m.mg_mount_notified
           new == [m EXCEPT !.mg_error = OK, !.mg_mount_notified = b]
<1>1. notified(m) = new
  BY Zenon DEF notified
<1>2. b \in BOOLEAN /\ OK \in Statuses
  BY Zenon DEF Mountgroup, Statuses
<1> HIDE DEF b
<1>3. /\ new \in Mountgroup /\ new.mg_error = OK /\ new.mg_mount_notified = b
      /\ new.mg_group = m.mg_group /\ new.mg_leave_on_join = m.mg_leave_on_join
      /\ new.mg_registered = m.mg_registered /\ new.mg_device = m.mg_device
      /\ new.mg_services = m.mg_services /\ new.ms_additional = m.ms_additional
      /\ new.mg_ms_in_progress = m.mg_ms_in_progress
      /\ new.mg_mount_ci = m.mg_mount_ci /\ new.mg_mount_fd = m.mg_mount_fd
  BY <1>2, Zenon DEF Mountgroup
<1> HIDE DEF new
<1> QED
  BY <1>1, <1>3, Zenon DEF b

LEMMA NotifiedFlag ==
  ASSUME NEW m \in Mountgroup
  PROVE  LET r == notified(m) IN
         /\ peer_alive(m.mg_mount_fd) => r.mg_mount_notified
         /\ ~peer_alive(m.mg_mount_fd) => r.mg_mount_notified = m.mg_mount_notified
<1> DEFINE b == IF peer_alive(m.mg_mount_fd) THEN TRUE ELSE m.mg_mount_notified
           new == [m EXCEPT !.mg_error = OK, !.mg_mount_notified = b]
<1>1. notified(m) = new
  BY Zenon DEF notified
<1>2. new.mg_mount_notified = b
  BY Zenon DEF Mountgroup
<1> HIDE DEF new
<1> QED
  BY <1>1, <1>2, Zenon

(* A program that gets a status keeps everything but its place and its     *)
(* verdict.                                                                *)
LEMMA ReceiveFields ==
  ASSUME NEW c \in Client, NEW status \in Statuses
  PROVE  LET r == Receive(c, status) IN
         /\ r \in Client
         /\ r.fd = c.fd /\ r.alive = c.alive /\ r.req = c.req /\ r.uuid = c.uuid
         /\ r.device = c.device /\ r.service = c.service
         /\ r # c =>
              /\ c.alive
              /\ c.pc \in {"wait", "rwait"} /\ r.pc \in {"joined", "done"}
         /\ r.pc = "joined" /\ c.pc # "joined" =>
              /\ c.pc = "wait" /\ c.req = "MOUNT" /\ status \in {OK, "EALREADY"}
              /\ r.failed = c.failed
<1> DEFINE b == IF status = OK THEN FALSE ELSE TRUE
<1>1. b \in BOOLEAN
  BY Zenon
<1>2. CASE ~c.alive
  BY <1>2, Zenon DEF Receive
<1>3. CASE c.alive /\ c.pc = "wait" /\ c.req = "MOUNT" /\ status \in {OK, "EALREADY"}
  <2>1. Receive(c, status) = [c EXCEPT !.pc = "joined"]
    BY <1>3, Zenon DEF Receive
  <2> QED
    BY <1>3, <2>1, Zenon DEF Client
<1>4. CASE c.alive /\ c.pc = "wait"
           /\ ~(c.req = "MOUNT" /\ status \in {OK, "EALREADY"})
  <2>1. Receive(c, status) = [c EXCEPT !.pc = "done", !.failed = b]
    BY <1>4, Zenon DEF Receive
  <2> HIDE DEF b
  <2> QED
    BY <1>1, <1>4, <2>1, Zenon DEF Client
<1>5. CASE c.alive /\ c.pc = "rwait"
  <2>1. Receive(c, status) = [c EXCEPT !.pc = "done"]
    BY <1>5, Zenon DEF Receive
  <2> QED
    BY <1>5, <2>1, Zenon DEF Client
<1>6. CASE c.alive /\ c.pc \notin {"wait", "rwait"}
  BY <1>6, Zenon DEF Receive
<1> QED
  BY <1>2, <1>3, <1>4, <1>5, <1>6, Zenon

(* A step of one slot's program: its place, its life or its verdict. *)
LEMMA SlotTypes ==
  ASSUME TypeOK, NEW ci \in Slots
  PROVE  /\ client[ci] \in Client
         /\ \A pc \in {"wait", "joined", "called", "rsent", "rwait"} :
              [client EXCEPT ![ci].pc = pc] \in [Slots -> Client]
         /\ \A f \in BOOLEAN :
              [client EXCEPT ![ci].pc = "called", ![ci].failed = f]
                \in [Slots -> Client]
         /\ [client EXCEPT ![ci].alive = FALSE] \in [Slots -> Client]
         /\ [client EXCEPT ![ci] = FreeSlot] \in [Slots -> Client]
<1>1. client[ci] \in Client /\ client \in [Slots -> Client]
  BY Zenon DEF TypeOK
<1>2. ASSUME NEW pc \in {"wait", "joined", "called", "rsent", "rwait"}
      PROVE  [client EXCEPT ![ci].pc = pc] \in [Slots -> Client]
  <2>1. [client[ci] EXCEPT !.pc = pc] \in Client
    BY <1>1, Zenon DEF Client
  <2> QED
    BY <1>1, <2>1, Zenon
<1>3. ASSUME NEW f \in BOOLEAN
      PROVE  [client EXCEPT ![ci].pc = "called", ![ci].failed = f]
               \in [Slots -> Client]
  <2>1. [client[ci] EXCEPT !.pc = "called", !.failed = f] \in Client
    BY <1>1, Zenon DEF Client
  <2>2. [client EXCEPT ![ci].pc = "called", ![ci].failed = f] =
          [client EXCEPT ![ci] = [client[ci] EXCEPT !.pc = "called", !.failed = f]]
    BY <1>1, Zenon
  <2> QED
    BY <1>1, <2>1, <2>2, Zenon
<1>4. [client EXCEPT ![ci].alive = FALSE] \in [Slots -> Client]
  <2>1. [client[ci] EXCEPT !.alive = FALSE] \in Client
    BY <1>1, Zenon DEF Client
  <2> QED
    BY <1>1, <2>1, Zenon
<1>5. [client EXCEPT ![ci] = FreeSlot] \in [Slots -> Client]
  BY <1>1, ConstTypes, Zenon
<1> QED
  BY <1>1, <1>2, <1>3, <1>4, <1>5, Zenon

(* What the handlers of a connection need to know of the types. *)
LEMMA HandlerTypes ==
  ASSUME TypeOK, NEW ci \in Slots
  PROVE  /\ client[ci].uuid \in Uuids /\ client[ci].device \in Devices
         /\ client[ci].service \in Services /\ client[ci].fd \in Fds \cup {-1}
         /\ mg[client[ci].uuid] \in Mountgroup
         /\ \A u \in find_mg_by_client(ci) :
              u \in Uuids /\ mounts[u] # 0 /\ mg[u].mg_mount_ci = ci
BY SlotTypes, Zenon DEF Client, TypeOK, find_mg_by_client

(* Only slot ci changes, and its program stays who it is. *)
OnlySlot(ci) ==
  /\ \A i \in Slots : i # ci => client'[i] = client[i]
  /\ client'[ci].fd = client[ci].fd /\ client'[ci].req = client[ci].req
  /\ client'[ci].uuid = client[ci].uuid
  /\ client'[ci].service = client[ci].service

LEMMA PcFields ==
  ASSUME TypeOK, NEW ci \in Slots, NEW p, client' = [client EXCEPT ![ci].pc = p]
  PROVE  /\ OnlySlot(ci) /\ client'[ci].pc = p
         /\ client'[ci].alive = client[ci].alive
         /\ client'[ci].failed = client[ci].failed
<1>1. client[ci] \in Client /\ client \in [Slots -> Client]
  BY Zenon DEF TypeOK
<1>2. client'[ci] = [client[ci] EXCEPT !.pc = p]
  BY <1>1, Zenon
<1>3. \A i \in Slots : i # ci => client'[i] = client[i]
  BY <1>1, Zenon
<1> QED
  BY <1>1, <1>2, <1>3, Zenon DEF OnlySlot, Client

LEMMA CalledFields ==
  ASSUME TypeOK, NEW ci \in Slots, NEW f \in BOOLEAN,
         client' = [client EXCEPT ![ci].pc = "called", ![ci].failed = f]
  PROVE  /\ OnlySlot(ci) /\ client'[ci].pc = "called"
         /\ client'[ci].alive = client[ci].alive /\ client'[ci].failed = f
<1>1. client[ci] \in Client /\ client \in [Slots -> Client]
  BY Zenon DEF TypeOK
<1>2. client'[ci] = [client[ci] EXCEPT !.pc = "called", !.failed = f]
  BY <1>1, Zenon
<1>3. \A i \in Slots : i # ci => client'[i] = client[i]
  BY <1>1, Zenon
<1> QED
  BY <1>1, <1>2, <1>3, Zenon DEF OnlySlot, Client

LEMMA EndedFields ==
  ASSUME TypeOK, NEW ci \in Slots, client' = [client EXCEPT ![ci].alive = FALSE]
  PROVE  /\ OnlySlot(ci) /\ client'[ci].alive = FALSE
         /\ client'[ci].pc = client[ci].pc
         /\ client'[ci].failed = client[ci].failed
<1>1. client[ci] \in Client /\ client \in [Slots -> Client]
  BY Zenon DEF TypeOK
<1>2. client'[ci] = [client[ci] EXCEPT !.alive = FALSE]
  BY <1>1, Zenon
<1>3. \A i \in Slots : i # ci => client'[i] = client[i]
  BY <1>1, Zenon
<1> QED
  BY <1>1, <1>2, <1>3, Zenon DEF OnlySlot, Client

LEMMA KmountsType == ASSUME TypeOK, NEW u \in Uuids PROVE kmounts[u] \in Nat
BY ConstAssumption DEF TypeOK

(* The daemon's side is as it was. *)
LEMMA DaemonUntouched ==
  ASSUME SafeInv, UNCHANGED daemonVars, NEW u \in Uuids
  PROVE  GroupOK(u)' /\ RegisterOK(u)' /\ IdleOK(u)'
BY Zenon DEF SafeInv, daemonVars, GroupOK, RegisterOK, IdleOK, busy, Mounting

(* Whoever is attached to a mountgroup is not on a free slot. *)
LEMMA AttachedSlot ==
  ASSUME TypeOK, SafeInv, NEW u \in Uuids
  PROVE  mg[u].mg_mount_ci # -1 =>
           /\ mg[u].mg_mount_ci \in Slots
           /\ client[mg[u].mg_mount_ci].fd # -1
           /\ client[mg[u].mg_mount_ci].uuid = u
           /\ client[mg[u].mg_mount_ci].pc # "done"
           /\ client[mg[u].mg_mount_ci].pc # "sent"
<1>1. mg[u].mg_mount_ci \in Slots \cup {-1} /\ IdleOK(u) /\ AttachOK(u)
  BY Zenon DEF TypeOK, SafeInv, Mountgroup
<1> QED
  BY <1>1, Zenon DEF IdleOK, AttachOK

-----------------------------------------------------------------------------
(* The daemon's handlers.  Each concerns one filesystem: the others, and   *)
(* the programs that asked for the others, are as they were.               *)

LocalTo(u) ==
  /\ \A v \in Uuids \ {u} :
       /\ mounts'[v] = 0 <=> mounts[v] = 0
       /\ mg'[v] = mg[v] /\ cpg'[v] = cpg[v]
       /\ register_list'[v] = register_list[v] /\ dlm_fs'[v] = dlm_fs[v]
       /\ results'[v] = results[v]
  /\ UNCHANGED kernelVars

(* A slot's program goes on to a place where no request is unread. *)
Kept(i) ==
  /\ client'[i].fd = client[i].fd /\ client[i].fd # -1
  /\ client'[i].req = client[i].req /\ client'[i].uuid = client[i].uuid
  /\ client'[i].service = client[i].service
  /\ client'[i].alive = client[i].alive
  /\ client'[i].pc # "sent"

ClientsOf(u) ==
  \A i \in Slots :
    \/ client'[i] = client[i]
    \/ client[i].uuid = u /\ (client'[i] = FreeSlot \/ Kept(i))

FilesystemOK(u) ==
  GroupOK(u) /\ RegisterOK(u) /\ IdleOK(u) /\ AttachOK(u) /\ KernelOK(u)

LEMMA OthersSafe ==
  ASSUME TypeOK, SafeInv, NEW u \in Uuids, LocalTo(u), ClientsOf(u),
         NEW v \in Uuids, v # u
  PROVE  FilesystemOK(v)'
<1>1. /\ mounts'[v] = 0 <=> mounts[v] = 0
      /\ mg'[v] = mg[v] /\ cpg'[v] = cpg[v]
      /\ register_list'[v] = register_list[v] /\ dlm_fs'[v] = dlm_fs[v]
      /\ results'[v] = results[v] /\ kmounts'[v] = kmounts[v]
      /\ dismount'[v] = dismount[v]
  BY Zenon DEF LocalTo, kernelVars
<1>2. FilesystemOK(v)
  BY Zenon DEF SafeInv, FilesystemOK
<1>3. mg[v].mg_mount_ci # -1 =>
        client'[mg[v].mg_mount_ci] = client[mg[v].mg_mount_ci]
  BY AttachedSlot, Zenon DEF ClientsOf
<1>4. GroupOK(v)'
  BY <1>1, <1>2, Zenon DEF FilesystemOK, GroupOK, busy
<1>5. RegisterOK(v)'
  BY <1>1, <1>2, Zenon DEF FilesystemOK, RegisterOK, busy, Mounting
<1>6. IdleOK(v)'
  BY <1>1, <1>2, SMTT(40) DEF FilesystemOK, IdleOK, busy, Mounting
<1>7. AttachOK(v)'
  BY <1>1, <1>2, <1>3, ZenonT(40) DEF FilesystemOK, AttachOK, busy, Mounting
<1>8. KernelOK(v)'
  BY <1>1, <1>2, <1>3, Zenon DEF FilesystemOK, KernelOK, Mounting, IdleOK
<1> QED
  BY <1>4, <1>5, <1>6, <1>7, <1>8, Zenon DEF FilesystemOK

LEMMA LocalSafe ==
  ASSUME TypeOK, SafeInv, NEW u \in Uuids, LocalTo(u), ClientsOf(u),
         FilesystemOK(u)', \A i \in Slots : client[i].uuid = u => ToldOK(i)'
  PROVE  SafeInv'
<1>1. \A v \in Uuids : FilesystemOK(v)'
  BY OthersSafe, Zenon
<1>2. FreeSlot.fd = -1 /\ ~FreeSlot.alive /\ FreeSlot.pc = "done" /\ FreeSlot.req = "MOUNT"
  BY SMTT(40) DEF FreeSlot
<1>3. ASSUME NEW i \in Slots PROVE SlotOK(i)'
  BY <1>2 DEF ClientsOf, Kept, SafeInv, SlotOK
<1>4. ASSUME NEW i \in Slots PROVE HelperOK(i)'
  <2>1. \A j \in Slots : HelperOK(j)
    BY Zenon DEF SafeInv
  <2>2. dismount' = dismount
    BY Zenon DEF LocalTo, kernelVars
  <2> QED
    BY <1>2, <2>1, <2>2 DEF ClientsOf, Kept, HelperOK, IsHelper
<1>5. ASSUME NEW i \in Slots PROVE ToldOK(i)'
  <2>1. CASE client[i].uuid = u
    BY <2>1, Zenon
  <2>2. CASE client[i].uuid # u
    <3>1. client'[i] = client[i] /\ client[i].uuid \in Uuids /\ ToldOK(i)
      BY <2>2, HandlerTypes, ZenonT(40) DEF ClientsOf, SafeInv
    <3>2. LET v == client[i].uuid IN
          mg'[v] = mg[v] /\ (mounts'[v] = 0 <=> mounts[v] = 0)
      BY <2>2, <3>1, ZenonT(40) DEF LocalTo
    <3> QED
      BY <3>1, <3>2, SMTT(40) DEF ToldOK, Told, Mounting
  <2> QED
    BY <2>1, <2>2, Zenon
<1>6. tools' = tools
  BY Zenon DEF LocalTo, kernelVars
<1> QED
  BY <1>1, <1>3, <1>4, <1>5, <1>6, Zenon DEF SafeInv, FilesystemOK

(* The program on slot ci waits at place p, or has been answered there. *)
Answered(ci, p, status) ==
  /\ \A i \in Slots : i # ci => client'[i] = client[i]
  /\ Kept(ci)
  /\ client'[ci].pc \in {p, "joined", "done"}
  /\ client'[ci].pc = p => client'[ci].failed = client[ci].failed
  /\ client'[ci].pc = p => ~client[ci].alive
  /\ client'[ci].pc = "joined" =>
       /\ p = "wait" /\ client[ci].req = "MOUNT" /\ status \in {OK, "EALREADY"}
       /\ client[ci].alive /\ client'[ci].failed = client[ci].failed
  /\ p = "wait" /\ client[ci].req = "MOUNT" /\ status \in {OK, "EALREADY"} =>
       client'[ci].pc # "done"

Waits(ci, p) ==
  /\ \A i \in Slots : i # ci => client'[i] = client[i]
  /\ Kept(ci) /\ client'[ci].pc = p /\ client'[ci].failed = client[ci].failed

LEMMA WaitsFields ==
  ASSUME TypeOK, NEW ci \in Slots, client[ci].fd # -1, NEW p, p # "sent",
         client' = [client EXCEPT ![ci].pc = p]
  PROVE  Waits(ci, p)
<1>1. /\ OnlySlot(ci) /\ client'[ci].pc = p
      /\ client'[ci].alive = client[ci].alive
      /\ client'[ci].failed = client[ci].failed
  BY PcFields, Zenon
<1> QED
  BY <1>1, Zenon DEF OnlySlot, Waits, Kept

(* A status sent to descriptor fd of slot ci reaches that slot only. *)
LEMMA AnsweredFields ==
  ASSUME TypeOK, SafeInv, NEW ci \in Slots, client[ci].fd # -1,
         NEW p \in {"wait", "rwait"}, NEW status \in Statuses,
         client' = send_status([client EXCEPT ![ci].pc = p], client[ci].fd, status)
  PROVE  Answered(ci, p, status)
<1> DEFINE read == [client EXCEPT ![ci].pc = p]
           c == read[ci]
           r == Receive(c, status)
<1>1. client \in [Slots -> Client] /\ client[ci] \in Client
  BY Zenon DEF TypeOK
<1>2. c = [client[ci] EXCEPT !.pc = p] /\ \A i \in Slots : i # ci => read[i] = client[i]
  BY <1>1, Zenon
<1>3. /\ c \in Client /\ c.fd = client[ci].fd /\ c.req = client[ci].req
      /\ c.uuid = client[ci].uuid /\ c.service = client[ci].service
      /\ c.alive = client[ci].alive /\ c.failed = client[ci].failed /\ c.pc = p
  BY <1>1, <1>2, Zenon DEF Client
<1>4. \A i \in Slots : i # ci => client[i].fd # client[ci].fd
  BY Zenon DEF SafeInv, SlotOK
<1> HIDE DEF read
<1>5. /\ client'[ci] = r
      /\ \A i \in Slots : i # ci => client'[i] = client[i]
  BY <1>2, <1>3, <1>4 DEF send_status, read
<1> HIDE DEF c
<1>6. /\ r.fd = c.fd /\ r.alive = c.alive /\ r.req = c.req /\ r.uuid = c.uuid
      /\ r.service = c.service
      /\ r # c => c.alive /\ r.pc \in {"joined", "done"}
      /\ r.pc = "joined" /\ c.pc # "joined" =>
           /\ c.pc = "wait" /\ c.req = "MOUNT" /\ status \in {OK, "EALREADY"}
           /\ r.failed = c.failed
  BY <1>3, ReceiveFields
<1>7. c.alive => r.pc # p
  BY <1>3, Zenon DEF Receive, Client
<1>8. p = "wait" /\ c.req = "MOUNT" /\ status \in {OK, "EALREADY"} => r.pc # "done"
  BY <1>3, SMTT(40) DEF Receive, Client
<1> HIDE DEF r
<1> QED
  BY <1>3, <1>5, <1>6, <1>7, <1>8, ZenonT(40) DEF Answered, Kept

(* A program that is not attached is told nothing it could mount on. *)
LEMMA UnattachedSafe ==
  ASSUME TypeOK, SafeInv, UNCHANGED daemonVars, UNCHANGED kernelVars,
         NEW ci \in Slots, \A u \in Uuids : mg[u].mg_mount_ci # ci,
         \A i \in Slots : i # ci => client'[i] = client[i],
         \/ client'[ci] = FreeSlot
         \/ /\ Kept(ci) /\ client'[ci].pc \in {"wait", "rwait", "done"}
            /\ client[ci].req = "MOUNT" /\ client'[ci].pc = "wait"
                 => ~client'[ci].failed
  PROVE  SafeInv'
<1>1. PICK u \in Uuids : client[ci].uuid = u
  BY HandlerTypes, Zenon
<1>2. /\ mg' = mg /\ mounts' = mounts /\ cpg' = cpg /\ dlm_fs' = dlm_fs
      /\ register_list' = register_list /\ results' = results
      /\ kmounts' = kmounts /\ dismount' = dismount
  BY Zenon DEF daemonVars, kernelVars
<1>9. LocalTo(u)
  BY <1>2, Zenon DEF LocalTo
<1>10. ClientsOf(u)
  BY <1>1, Zenon DEF ClientsOf
<1>3. GroupOK(u)' /\ RegisterOK(u)' /\ IdleOK(u)'
  BY <1>1, DaemonUntouched, Zenon
<1>4. AttachOK(u) /\ KernelOK(u) /\ IdleOK(u)
      /\ (mg[u].mg_mount_ci # -1 => mg[u].mg_mount_ci \in Slots)
  BY <1>1, AttachedSlot, Zenon DEF SafeInv
<1>11. mg[u].mg_mount_ci # -1 =>
         client'[mg[u].mg_mount_ci] = client[mg[u].mg_mount_ci]
  BY <1>1, <1>4, SMTT(40)
<1>5. AttachOK(u)'
  BY <1>2, <1>4, <1>11, ZenonT(40) DEF AttachOK, busy, Mounting
<1>6. KernelOK(u)'
  BY <1>2, <1>4, <1>11, Zenon DEF KernelOK, IdleOK, Mounting
<1>7. FreeSlot.pc = "done"
  BY SMTT(40) DEF FreeSlot
<1>8. ASSUME NEW i \in Slots PROVE ToldOK(i)'
  BY <1>2, <1>7 DEF SafeInv, ToldOK, Told, Mounting, Kept
<1> QED
  BY <1>1, <1>9, <1>10, <1>3, <1>5, <1>6, <1>8, LocalSafe, Zenon DEF FilesystemOK

(* The list: only u is added or deleted. *)
LEMMA ListZero ==
  ASSUME TypeOK, NEW u \in Uuids
  PROVE  /\ list_add(u)[u] # 0 /\ list_del(u)[u] = 0
         /\ \A v \in Uuids \ {u} :
              /\ list_add(u)[v] = 0 <=> mounts[v] = 0
              /\ mounts[u] # 0 => (list_del(u)[v] = 0 <=> mounts[v] = 0)
BY DEF TypeOK, list_add, list_del

(* free_mg() of a filesystem the kernel has not mounted. *)
LEMMA FreeSafe ==
  ASSUME TypeOK, SafeInv, NEW u \in Uuids, NEW left \in BOOLEAN,
         mounts[u] # 0, free_mg(u, left),
         UNCHANGED <<dlm_fs, results, kernelVars>>, kmounts[u] = 0, ClientsOf(u),
         \A i \in Slots : client[i].uuid = u =>
           /\ client'[i].pc \notin {"joined", "called", "rsent"}
           /\ client'[i].req = "MOUNT" /\ client'[i].pc \in {"sent", "wait"}
                => ~client'[i].failed
  PROVE  SafeInv'
<1>1. /\ mounts' = list_del(u) /\ mg' = [mg EXCEPT ![u] = NewMg(AnyDevice)]
      /\ cpg' = [cpg EXCEPT ![u] = "none"]
      /\ \E r : register_list' = [register_list EXCEPT ![u] = [live |-> FALSE, stale |-> r]]
  <2>1. register_list' = [register_list EXCEPT ![u] =
          [live |-> FALSE, stale |-> IF register_list[u].live THEN TRUE
                                                   ELSE register_list[u].stale]]
    BY Zenon DEF free_mg, TypeOK
  <2> QED
    BY <2>1, Zenon DEF free_mg
<1>2. /\ mounts'[u] = 0 /\ \A v \in Uuids \ {u} : mounts'[v] = 0 <=> mounts[v] = 0
      /\ mg'[u] = NewMg(AnyDevice) /\ \A v \in Uuids \ {u} : mg'[v] = mg[v]
      /\ cpg'[u] = "none" /\ \A v \in Uuids \ {u} : cpg'[v] = cpg[v]
      /\ ~register_list'[u].live
      /\ \A v \in Uuids \ {u} : register_list'[v] = register_list[v]
  BY <1>1, ListZero, SMTT(40) DEF TypeOK
<1>3. LET m == NewMg(AnyDevice) IN
      /\ m.mg_group = FALSE /\ m.mg_leave_on_join = FALSE
      /\ m.mg_registered = FALSE /\ m.mg_mount_notified = FALSE
      /\ m.ms_additional = FALSE /\ m.mg_services = {} /\ m.mg_error = OK
      /\ m.mg_mount_ci = -1 /\ m.mg_mount_fd = -1
      /\ m.mg_ms_in_progress = NoService
  BY Zenon DEF NewMg
<1>4. OK # "EALREADY" /\ RegisterOK(u)
  BY Zenon DEF OK, SafeInv
<1>5. LocalTo(u)
  BY <1>2, SMTT(40) DEF LocalTo
<1>6. GroupOK(u)'
  BY <1>2, <1>3, ZenonT(40) DEF GroupOK, busy
<1>7. RegisterOK(u)'
  BY <1>2, <1>3, <1>4, ZenonT(40) DEF RegisterOK, Mounting
<1>8. IdleOK(u)'
  BY <1>2, <1>3, <1>4, ZenonT(40) DEF IdleOK, Mounting
<1>9. AttachOK(u)'
  BY <1>2, <1>3, ZenonT(40) DEF AttachOK
<1>10. KernelOK(u)'
  BY <1>2, <1>3, SMTT(40) DEF KernelOK, Mounting, kernelVars
<1>11. \A i \in Slots : client[i].uuid = u => ToldOK(i)'
  BY Zenon DEF ToldOK, Told
<1> QED
  BY <1>5, <1>6, <1>7, <1>8, <1>9, <1>10, <1>11, LocalSafe, Zenon DEF FilesystemOK

(* A mountgroup with nothing in progress is joined and registered, and no  *)
(* program is attached to it or told to go ahead.                          *)
LEMMA QuietFields ==
  ASSUME TypeOK, SafeInv, NEW u \in Uuids, mounts[u] # 0, ~busy(mg[u])
  PROVE  /\ cpg[u] = "joined" /\ mg[u].mg_services # {} /\ mg[u].mg_error = OK
         /\ mg[u].mg_group /\ mg[u].mg_registered /\ results[u] = <<>>
         /\ register_list[u].live /\ dlm_fs[u] /\ mg[u].mg_mount_ci = -1
         /\ \A i \in Slots : client[i].uuid = u => ~Told(i)
<1>1. GroupOK(u) /\ RegisterOK(u) /\ IdleOK(u) /\ AttachOK(u)
      /\ cpg[u] \in {"none", "joining", "joined", "leaving"}
      /\ mg[u].mg_services \subseteq Services /\ NoService \notin Services
  BY ConstAssumption, Zenon DEF SafeInv, TypeOK, Mountgroup
<1>2. cpg[u] = "joined" /\ mg[u].mg_services # {} /\ mg[u].mg_group
      /\ mg[u].mg_ms_in_progress = NoService
  BY <1>1, Zenon DEF GroupOK, busy
<1>3. mg[u].mg_registered
  BY <1>1, <1>2, SMTT(40) DEF RegisterOK
<1>4. register_list[u].live /\ dlm_fs[u] /\ results[u] = <<>>
  BY <1>1, <1>3, Zenon DEF RegisterOK
<1>5. mg[u].mg_error = OK /\ mg[u].mg_mount_ci = -1
  BY <1>1, <1>2, Zenon DEF IdleOK, AttachOK
<1>6. \A i \in Slots : client[i].uuid = u => ~Told(i)
  BY <1>1, <1>2, Zenon DEF SafeInv, ToldOK, Mounting
<1> QED
  BY <1>2, <1>3, <1>4, <1>5, <1>6, Zenon

(* No program of u is told to go ahead. *)
NoneTold(u) ==
  \A i \in Slots : client[i].uuid = u =>
    /\ client'[i].pc \notin {"joined", "called", "rsent"}
    /\ client'[i].req = "MOUNT" /\ client'[i].pc \in {"sent", "wait"}
         => ~client'[i].failed

(* What a step leaves when it starts, or keeps, a leave. *)
LEMMA LeavingSafe ==
  ASSUME TypeOK, SafeInv, NEW u \in Uuids, LocalTo(u), ClientsOf(u), NoneTold(u),
         mounts[u] # 0, mounts' = mounts, cpg'[u] = "leaving", kmounts[u] = 0,
         mg'[u].mg_services = {}, mg'[u].mg_ms_in_progress # NoService,
         mg'[u].mg_error # "EALREADY",
         mg'[u].ms_additional => mg'[u].mg_mount_notified,
         mg'[u].mg_mount_ci = -1 <=> mg'[u].mg_mount_fd = -1,
         Len(results'[u]) <= 1,
         results'[u] # <<>> /\ Head(results'[u]) = OK => dlm_fs'[u],
         results'[u] # <<>> /\ register_list'[u].live =>
           mg'[u].mg_group /\ ~mg'[u].mg_registered /\ mg'[u].mg_mount_ci = -1,
         mg'[u].mg_registered =>
           mg'[u].mg_group /\ register_list'[u].live /\ dlm_fs'[u],
         AttachOK(u)'
  PROVE  SafeInv'
<1>1. GroupOK(u)'
  BY Zenon DEF GroupOK, busy
<1>2. RegisterOK(u)'
  BY Zenon DEF RegisterOK, busy, Mounting
<1>3. IdleOK(u)'
  BY Zenon DEF IdleOK, busy, Mounting
<1>4. kmounts' = kmounts
  BY Zenon DEF LocalTo, kernelVars
<1>5. KernelOK(u)'
  BY <1>4 DEF KernelOK, Mounting
<1>6. \A i \in Slots : client[i].uuid = u => ToldOK(i)'
  BY Zenon DEF NoneTold, ToldOK, Told
<1> QED
  BY <1>1, <1>2, <1>3, <1>5, <1>6, LocalSafe DEF FilesystemOK

(* A registered mountgroup with a service is joined. *)
LEMMA RegisteredFields ==
  ASSUME TypeOK, SafeInv, NEW u \in Uuids, mg[u].mg_registered,
         mg[u].mg_services # {}
  PROVE  /\ mounts[u] # 0 /\ cpg[u] = "joined" /\ mg[u].mg_group
         /\ register_list[u].live /\ dlm_fs[u] /\ results[u] = <<>>
         /\ mg[u].mg_error = OK
<1>1. GroupOK(u) /\ RegisterOK(u) /\ IdleOK(u)
      /\ cpg[u] \in {"none", "joining", "joined", "leaving"}
  BY Zenon DEF SafeInv, TypeOK
<1>2. /\ mounts[u] # 0 /\ mg[u].mg_group
      /\ register_list[u].live /\ dlm_fs[u] /\ results[u] = <<>>
  BY <1>1, Zenon DEF RegisterOK
<1>3. cpg[u] = "joined" /\ mg[u].mg_error = OK
  BY <1>1, <1>2, Zenon DEF GroupOK, IdleOK
<1> QED
  BY <1>2, <1>3, Zenon

(* send_status() reaches only the slot that holds the descriptor. *)
LEMMA SendStatusType ==
  ASSUME NEW cl \in [Slots -> Client], NEW fd, NEW status \in Statuses
  PROVE  send_status(cl, fd, status) \in [Slots -> Client]
BY ReceiveFields, Zenon DEF send_status

LEMMA ListTypes ==
  ASSUME mounts \in [Uuids -> Nat], NEW u \in Uuids
  PROVE  list_add(u) \in [Uuids -> Nat] /\ list_del(u) \in [Uuids -> Nat]
BY DEF list_add, list_del

-----------------------------------------------------------------------------
(* Type correctness. *)

LEMMA ConnectionType ==
  ASSUME TypeOK, NEW req \in {"MOUNT", "UNMOUNT"}, NEW u \in Uuids,
         NEW d \in Devices, NEW s \in Services,
         connection_add(Request(req, u, d, s))
  PROVE  client' \in [Slots -> Client]
<1>1. Request(req, u, d, s) \in Client
  BY ConstTypes, Zenon DEF Request, Client
<1>2. \A fd \in Fds : [Request(req, u, d, s) EXCEPT !.fd = fd] \in Client
  BY <1>1, Zenon DEF Client
<1> QED
  BY <1>2, Zenon DEF connection_add, TypeOK

LEMMA FreeTypes ==
  ASSUME TypeOK, NEW u \in Uuids, NEW left \in BOOLEAN, free_mg(u, left)
  PROVE  /\ mounts' \in [Uuids -> Nat]
         /\ mg' \in [Uuids -> Mountgroup]
         /\ cpg' \in [Uuids -> {"none", "joining", "joined", "leaving"}]
         /\ orphan' \in [Uuids -> BOOLEAN]
         /\ register_list' \in [Uuids -> [live : BOOLEAN, stale : BOOLEAN]]
<1>1. mounts' \in [Uuids -> Nat]
  BY ListTypes, Zenon DEF TypeOK, free_mg
<1>2. mg' \in [Uuids -> Mountgroup]
  BY ConstTypes, Zenon DEF TypeOK, free_mg
<1>3. cpg' \in [Uuids -> {"none", "joining", "joined", "leaving"}]
  BY Zenon DEF TypeOK, free_mg
<1>4. orphan' \in [Uuids -> BOOLEAN]
  BY Zenon DEF TypeOK, free_mg
<1>5. register_list' \in [Uuids -> [live : BOOLEAN, stale : BOOLEAN]]
  BY Zenon DEF TypeOK, free_mg
<1> QED
  BY <1>1, <1>2, <1>3, <1>4, <1>5, Zenon

LEMMA EndTypes ==
  ASSUME TypeOK, NEW how \in {"exited", "undefined"}, end_process(how)
  PROVE  TypeOK'
BY ConstTypes DEF TypeOK, end_process, kernelVars, NoMountgroups, NotRegistered

(* The parts of the state the effects of remove_service() touch. *)
LEMMA EffectTypes ==
  ASSUME TypeOK, NEW u \in Uuids, NEW m, NEW s,
         leave_effect(u, m, s), unregister_effect(u, m, s)
  PROVE  /\ cpg' \in [Uuids -> {"none", "joining", "joined", "leaving"}]
         /\ register_list' \in [Uuids -> [live : BOOLEAN, stale : BOOLEAN]]
         /\ dlm_fs' \in [Uuids -> BOOLEAN]
<1>1. cpg' \in [Uuids -> {"none", "joining", "joined", "leaving"}]
  BY Zenon DEF TypeOK, leave_effect
<1>2. register_list' \in [Uuids -> [live : BOOLEAN, stale : BOOLEAN]]
  <2>1. /\ register_list \in [Uuids -> [live : BOOLEAN, stale : BOOLEAN]]
        /\ [register_list[u] EXCEPT !.live = FALSE]
             \in [live : BOOLEAN, stale : BOOLEAN]
    BY ZenonT(40) DEF TypeOK
  <2>2. [register_list EXCEPT ![u].live = FALSE]
          \in [Uuids -> [live : BOOLEAN, stale : BOOLEAN]]
    BY <2>1, Zenon
  <2> QED
    BY <2>1, <2>2, Zenon DEF unregister_effect
<1>3. dlm_fs' \in [Uuids -> BOOLEAN]
  BY Zenon DEF TypeOK, unregister_effect
<1> QED
  BY <1>1, <1>2, <1>3, Zenon

LEMMA ProgramsType == TypeOK /\ Programs => TypeOK'
<1> SUFFICES ASSUME TypeOK, Programs PROVE TypeOK'
  BY Zenon
<1> USE DEF daemonVars, kernelVars
<1>1. ASSUME NEW u \in Uuids, NEW d \in Devices, NEW s \in Services,
             ClientMount(u, d, s)
      PROVE  TypeOK'
  <2>1. client' \in [Slots -> Client]
    BY <1>1, ConnectionType, Zenon DEF ClientMount
  <2> QED
    BY <1>1, <2>1, Zenon DEF ClientMount, TypeOK
<1>2. ASSUME NEW u \in Uuids, NEW s \in Services, ToolUnmount(u, s)
      PROVE  TypeOK'
  <2>1. client' \in [Slots -> Client]
    BY <1>2, ConnectionType, ConstTypes, Zenon DEF ToolUnmount
  <2> QED
    BY <1>2, <2>1, Zenon DEF ToolUnmount, TypeOK
<1>3. ASSUME NEW u \in Uuids, NEW s \in Services, ToolDies(u, s)
      PROVE  TypeOK'
  BY <1>3, Zenon DEF ToolDies, TypeOK
<1>4. ASSUME NEW u \in Uuids, KernelUmount(u) PROVE TypeOK'
  <2>1. kmounts' \in [Uuids -> 0..MaxMounts]
    BY <1>4, ConstAssumption DEF KernelUmount, TypeOK
  <2>2. dismount' \in [Uuids -> {"no", "spawn", "run"}]
    BY <1>4, Zenon DEF KernelUmount, TypeOK
  <2> QED
    BY <1>4, <2>1, <2>2, Zenon DEF KernelUmount, TypeOK
<1>5. ASSUME NEW u \in Uuids, HelperUnmount(u) PROVE TypeOK'
  <2>1. client' \in [Slots -> Client]
    BY <1>5, ConnectionType, ConstTypes, ConstAssumption, Zenon DEF HelperUnmount
  <2> QED
    BY <1>5, <2>1, Zenon DEF HelperUnmount, TypeOK
<1>6. ASSUME NEW u \in Uuids, HelperFails(u) PROVE TypeOK'
  BY <1>6, Zenon DEF HelperFails, TypeOK
<1>7. ASSUME NEW ci \in Slots, MountSyscall(ci) PROVE TypeOK'
  <2>1. client[ci].uuid \in Uuids
    BY SlotTypes, Zenon DEF Client
  <2>2. client' \in [Slots -> Client]
    <3>1. PICK f \in BOOLEAN :
            client' = [client EXCEPT ![ci].pc = "called", ![ci].failed = f]
      BY <1>7, Zenon DEF MountSyscall
    <3> QED
      BY <3>1, SlotTypes, Zenon
  <2>3. kmounts' \in [Uuids -> 0..MaxMounts]
    <3>1. \/ kmounts' = kmounts
          \/ /\ kmounts[client[ci].uuid] < MaxMounts
             /\ kmounts' = [kmounts EXCEPT ![client[ci].uuid] = @ + 1]
      BY <1>7, Zenon DEF MountSyscall
    <3>2. kmounts \in [Uuids -> 0..MaxMounts] /\ MaxMounts \in Nat
      BY ConstAssumption, Zenon DEF TypeOK
    <3> QED
      BY <3>1, <3>2, <2>1
  <2> QED
    BY <1>7, <2>2, <2>3, Zenon DEF MountSyscall, TypeOK
<1>8. ASSUME NEW ci \in Slots, ClientResult(ci) PROVE TypeOK'
  <2>1. client' \in [Slots -> Client]
    BY <1>8, SlotTypes, Zenon DEF ClientResult
  <2> QED
    BY <1>8, <2>1, Zenon DEF ClientResult, TypeOK
<1>9. ASSUME NEW ci \in Slots, ClientClose(ci) PROVE TypeOK'
  <2>1. client[ci].uuid \in Uuids /\ client[ci].service \in Services
    BY SlotTypes, Zenon DEF Client
  <2>2. client' \in [Slots -> Client]
    BY <1>9, SlotTypes, Zenon DEF ClientClose
  <2>3. dismount' \in [Uuids -> {"no", "spawn", "run"}]
    BY <1>9, Zenon DEF ClientClose, TypeOK
  <2>4. tools' \in SUBSET (Uuids \X Services)
    BY <1>9, <2>1 DEF ClientClose, TypeOK
  <2> QED
    BY <1>9, <2>2, <2>3, <2>4, Zenon DEF ClientClose, TypeOK
<1>10. ASSUME NEW ci \in Slots, ClientDies(ci) PROVE TypeOK'
  <2>1. client' \in [Slots -> Client]
    BY <1>10, SlotTypes, Zenon DEF ClientDies
  <2>2. dismount' \in [Uuids -> {"no", "spawn", "run"}]
    BY <1>10, Zenon DEF ClientDies, TypeOK
  <2> QED
    BY <1>10, <2>1, <2>2, Zenon DEF ClientDies, TypeOK
<1> QED
  BY <1>1, <1>2, <1>3, <1>4, <1>5, <1>6, <1>7, <1>8, <1>9, <1>10, Zenon DEF Programs

LEMMA AddServiceType ==
  ASSUME NEW m \in Mountgroup, NEW d \in Devices, NEW s \in Services,
         NEW ci \in Slots, NEW fd \in Fds \cup {-1}
  PROVE  add_service(m, d, s, ci, fd) \in Mountgroup
<1>1. CASE Refused(m, d, s)
  <2>1. PICK e \in {"EINVAL", "EBUSY"} :
          add_service(m, d, s, ci, fd) = fill_error(m, e)
    BY <1>1, AddServiceRefused, Zenon
  <2>2. e \in Statuses
    BY StatusTypes, Zenon
  <2> QED
    BY <2>1, <2>2, FillErrorFields
<1>2. CASE ~Refused(m, d, s)
  BY <1>2, AddServiceStarted, Zenon
<1> QED
  BY <1>1, <1>2, Zenon

(* Small changes of a mountgroup. *)
LEMMA RecordTypes ==
  ASSUME NEW m \in Mountgroup, NEW b \in BOOLEAN
  PROVE  /\ [m EXCEPT !.mg_group = TRUE] \in Mountgroup
         /\ [m EXCEPT !.mg_registered = TRUE] \in Mountgroup
         /\ [m EXCEPT !.mg_ms_in_progress = NoService] \in Mountgroup
         /\ [m EXCEPT !.ms_additional = b] \in Mountgroup
         /\ [m EXCEPT !.ms_additional = b, !.mg_ms_in_progress = NoService]
              \in Mountgroup
         /\ [m EXCEPT !.mg_error = OK, !.mg_mount_notified = b] \in Mountgroup
<1>1. OK \in Statuses
  BY StatusTypes, Zenon
<1>2. [m EXCEPT !.mg_group = TRUE] \in Mountgroup
  BY Zenon DEF Mountgroup
<1>3. [m EXCEPT !.mg_registered = TRUE] \in Mountgroup
  BY Zenon DEF Mountgroup
<1>4. [m EXCEPT !.mg_ms_in_progress = NoService] \in Mountgroup
  BY Zenon DEF Mountgroup
<1>5. [m EXCEPT !.ms_additional = b] \in Mountgroup
  BY Zenon DEF Mountgroup
<1>6. [m EXCEPT !.ms_additional = b, !.mg_ms_in_progress = NoService] \in Mountgroup
  BY Zenon DEF Mountgroup
<1>7. [m EXCEPT !.mg_error = OK, !.mg_mount_notified = b] \in Mountgroup
  BY <1>1, Zenon DEF Mountgroup
<1> QED
  BY <1>2, <1>3, <1>4, <1>5, <1>6, <1>7, Zenon

LEMMA MountType == ASSUME TypeOK, NEW ci \in Slots,
                         RejectMount(ci) \/ StartMountAgain(ci) \/ StartMountNew(ci)
                  PROVE  TypeOK'
<1> DEFINE c == client[ci]
           u == c.uuid
           read == [client EXCEPT ![ci].pc = "wait"]
<1>1. /\ u \in Uuids /\ c.device \in Devices /\ c.service \in Services
      /\ c.fd \in Fds \cup {-1} /\ mg[u] \in Mountgroup
  BY HandlerTypes, Zenon
<1>2. read \in [Slots -> Client]
  BY SlotTypes, Zenon
<1> HIDE DEF read
<1>3. \A e \in Statuses : send_status(read, c.fd, e) \in [Slots -> Client]
  BY <1>2, SendStatusType, Zenon
<1>4. CASE RejectMount(ci)
  <2>1. client' = send_status(read, c.fd, "EINVAL")
    BY <1>4, Zenon DEF RejectMount, read
  <2>2. client' \in [Slots -> Client]
    BY <1>3, <2>1, StatusTypes, Zenon
  <2> QED
    BY <1>4, <2>2, Zenon DEF RejectMount, TypeOK, daemonVars, kernelVars
<1>5. CASE StartMountAgain(ci)
  <2> DEFINE m == add_service(mg[u], c.device, c.service, ci, c.fd)
             b == IF m.mg_error = "EALREADY" THEN TRUE ELSE m.mg_mount_notified
             new == [m EXCEPT !.mg_error = OK, !.mg_mount_notified = b]
  <2>1. m \in Mountgroup
    BY <1>1, AddServiceType, Zenon
  <2>2. /\ client' = IF m.mg_error = OK THEN read
                                        ELSE send_status(read, c.fd, m.mg_error)
        /\ \/ free_mg(u, cpg[u] # "none")
           \/ /\ mg' = [mg EXCEPT ![u] = new]
              /\ UNCHANGED <<mounts, cpg, orphan, register_list>>
        /\ UNCHANGED <<daemon, dlm_fs, results, kernelVars>>
    BY <1>5, Zenon DEF StartMountAgain, read
  <2> HIDE DEF m
  <2>3. b \in BOOLEAN
    BY <2>1, Zenon DEF Mountgroup
  <2> HIDE DEF b
  <2>4. new \in Mountgroup
    BY <2>1, <2>3, RecordTypes, Zenon
  <2> HIDE DEF new
  <2>5. client' \in [Slots -> Client]
    BY <1>2, <1>3, <2>1, <2>2, StatusTypes, Zenon
  <2>6. CASE free_mg(u, cpg[u] # "none")
    BY <1>1, <2>2, <2>5, <2>6, FreeTypes, Zenon DEF TypeOK, kernelVars
  <2>7. CASE mg' = [mg EXCEPT ![u] = new] /\ UNCHANGED <<mounts, cpg, orphan, register_list>>
    BY <2>2, <2>4, <2>5, <2>7, Zenon DEF TypeOK, kernelVars
  <2> QED
    BY <2>2, <2>6, <2>7, Zenon
<1>6. CASE StartMountNew(ci)
  <2> DEFINE m == add_service(NewMg(c.device), c.device, c.service, ci, c.fd)
  <2>1. m \in Mountgroup
    BY <1>1, ConstTypes, AddServiceType, Zenon
  <2>2. /\ UNCHANGED <<daemon, orphan, register_list, dlm_fs, results, kernelVars>>
        /\ \/ /\ mounts' = list_add(u) /\ mg' = [mg EXCEPT ![u] = m]
              /\ cpg' = [cpg EXCEPT ![u] = "joining"]
              /\ client' = read
           \/ /\ client' = send_status(read, c.fd, "EJOIN")
              /\ UNCHANGED <<mounts, mg, cpg>>
    BY <1>6, Zenon DEF StartMountNew, read
  <2> HIDE DEF m
  <2>3. client' \in [Slots -> Client]
    BY <1>2, <1>3, <2>2, StatusTypes, Zenon
  <2>4. mounts' \in [Uuids -> Nat]
    BY <1>1, <2>2, ListTypes DEF TypeOK
  <2>5. mg' \in [Uuids -> Mountgroup]
    <3>1. mg \in [Uuids -> Mountgroup]
      BY Zenon DEF TypeOK
    <3>2. [mg EXCEPT ![u] = m] \in [Uuids -> Mountgroup]
      BY <1>1, <2>1, <3>1, Zenon
    <3> QED
      BY <2>2, <3>1, <3>2, Zenon
  <2>6. cpg' \in [Uuids -> {"none", "joining", "joined", "leaving"}]
    BY <1>1, <2>2, Zenon DEF TypeOK
  <2> QED
    BY <2>2, <2>3, <2>4, <2>5, <2>6 DEF TypeOK, kernelVars
<1> QED
  BY <1>4, <1>5, <1>6, Zenon

LEMMA CompleteType == ASSUME TypeOK, NEW ci \in Slots, CompleteMount(ci)
                      PROVE  TypeOK'
<1> DEFINE c == client[ci]
           read == [client EXCEPT ![ci].pc = "rwait"]
<1>1. c.service \in Services /\ c.fd \in Fds \cup {-1}
  BY HandlerTypes, Zenon
<1>2. read \in [Slots -> Client]
  BY SlotTypes, Zenon
<1> HIDE DEF read
<1>3. \A e \in Statuses : send_status(read, c.fd, e) \in [Slots -> Client]
  BY <1>2, SendStatusType, Zenon
<1>4. UNCHANGED <<daemon, mounts, orphan, results, kernelVars>>
  BY Zenon DEF CompleteMount
<1>5. CASE /\ client' = send_status(read, c.fd, "EINVAL")
           /\ UNCHANGED <<mg, cpg, register_list, dlm_fs>>
  <2>1. client' \in [Slots -> Client]
    BY <1>3, <1>5, StatusTypes, Zenon
  <2> QED
    BY <1>4, <1>5, <2>1, Zenon DEF TypeOK, kernelVars
<1>6. ASSUME NEW u \in find_mg_by_client(ci)
      PROVE
        LET m == mg[u]
            error == mresult_error(c, u, m)
            bad == fill_error(m, error)
            additional == is_additional(m, c.service)
            clear == [m EXCEPT !.mg_ms_in_progress = NoService]
            good == [detach(clear) EXCEPT
                       !.ms_additional = IF additional THEN FALSE ELSE @]
            gone == remove_service(clear, c.service)
        IN
        \/ /\ mg' = [mg EXCEPT ![u] = bad]
           /\ client' = send_status(read, c.fd, bad.mg_error)
           /\ UNCHANGED <<cpg, register_list, dlm_fs>>
        \/ /\ mg' = [mg EXCEPT ![u] = good]
           /\ client' = send_status(read, c.fd, good.mg_error)
           /\ UNCHANGED <<cpg, register_list, dlm_fs>>
        \/ /\ mg' = [mg EXCEPT ![u] = gone]
           /\ client' = IF busy(gone) THEN read
                          ELSE send_status(read, c.fd, gone.mg_error)
           /\ leave_effect(u, clear, c.service)
           /\ unregister_effect(u, clear, c.service)
        => TypeOK'
  <2> DEFINE m == mg[u]
             error == mresult_error(c, u, m)
             bad == fill_error(m, error)
             clear == [m EXCEPT !.mg_ms_in_progress = NoService]
             b == IF is_additional(m, c.service) THEN FALSE
                                                 ELSE detach(clear).ms_additional
             good == [detach(clear) EXCEPT !.ms_additional = b]
             gone == remove_service(clear, c.service)
  <2>1. u \in Uuids /\ m \in Mountgroup
    BY HandlerTypes DEF TypeOK
  <2>2. bad \in Mountgroup
    <3>1. error \in Statuses
      BY StatusTypes, Zenon DEF mresult_error
    <3> QED
      BY <2>1, <3>1, FillErrorFields, Zenon
  <2>3. clear \in Mountgroup
    BY <2>1, RecordTypes, Zenon
  <2> HIDE DEF clear
  <2>4. good \in Mountgroup
    <3>1. detach(clear) \in Mountgroup
      BY <2>3, DetachFields, Zenon
    <3>2. b \in BOOLEAN
      BY <3>1, Zenon DEF Mountgroup
    <3> HIDE DEF b
    <3> QED
      BY <3>1, <3>2, RecordTypes, Zenon
  <2>5. gone \in Mountgroup
    BY <1>1, <2>3, RemoveServiceFields, Zenon
  <2> HIDE DEF bad, good, gone
  <2>6. ASSUME mg' = [mg EXCEPT ![u] = bad],
               client' = send_status(read, c.fd, bad.mg_error),
               UNCHANGED <<cpg, register_list, dlm_fs>>
        PROVE  TypeOK'
    <3>1. client' \in [Slots -> Client]
      BY <1>3, <2>2, <2>6, StatusTypes, Zenon
    <3> QED
      BY <1>4, <2>1, <2>2, <2>6, <3>1, Zenon DEF TypeOK, kernelVars
  <2>7. ASSUME mg' = [mg EXCEPT ![u] = good],
               client' = send_status(read, c.fd, good.mg_error),
               UNCHANGED <<cpg, register_list, dlm_fs>>
        PROVE  TypeOK'
    <3>1. client' \in [Slots -> Client]
      BY <1>3, <2>4, <2>7, StatusTypes, Zenon
    <3> QED
      BY <1>4, <2>1, <2>4, <2>7, <3>1 DEF TypeOK, kernelVars
  <2>8. ASSUME mg' = [mg EXCEPT ![u] = gone],
               client' = IF busy(gone) THEN read
                           ELSE send_status(read, c.fd, gone.mg_error),
               leave_effect(u, clear, c.service),
               unregister_effect(u, clear, c.service)
        PROVE  TypeOK'
    <3>1. client' \in [Slots -> Client]
      BY <1>2, <1>3, <2>5, <2>8, StatusTypes
    <3>2. /\ cpg' \in [Uuids -> {"none", "joining", "joined", "leaving"}]
          /\ register_list' \in [Uuids -> [live : BOOLEAN, stale : BOOLEAN]]
          /\ dlm_fs' \in [Uuids -> BOOLEAN]
      BY <2>1, <2>8, EffectTypes, Zenon
    <3> QED
      BY <1>4, <2>1, <2>5, <2>8, <3>1, <3>2, Zenon DEF TypeOK, kernelVars
  <2> QED
    BY <2>6, <2>7, <2>8, Zenon DEF bad, good, gone, clear
<1> QED
  BY <1>5, <1>6, Zenon DEF CompleteMount, read

LEMMA RemoveType == ASSUME TypeOK, NEW ci \in Slots, RemoveMount(ci)
                    PROVE  TypeOK'
<1> DEFINE c == client[ci]
           u == c.uuid
           m == mg[u]
           read == [client EXCEPT ![ci].pc = "wait"]
           gone == remove_service(m, c.service)
           last == last_service(m, c.service)
           new == IF last THEN attach(gone, ci, c.fd) ELSE gone
           a == IF c.service = OCFS2_FS_NAME THEN FALSE ELSE m.ms_additional
<1>1. u \in Uuids /\ m \in Mountgroup /\ c.service \in Services
      /\ c.fd \in Fds \cup {-1}
  BY HandlerTypes, Zenon
<1>2. read \in [Slots -> Client]
  BY SlotTypes, Zenon
<1> HIDE DEF read
<1>3. \A e \in Statuses : send_status(read, c.fd, e) \in [Slots -> Client]
  BY <1>2, SendStatusType, Zenon
<1>4. new \in Mountgroup
  <2>1. gone \in Mountgroup
    BY <1>1, RemoveServiceFields, Zenon
  <2> HIDE DEF gone
  <2> QED
    BY <1>1, <2>1, AttachFields, Zenon
<1>5. [m EXCEPT !.ms_additional = a] \in Mountgroup
  <2>1. a \in BOOLEAN
    BY <1>1, Zenon DEF Mountgroup
  <2> HIDE DEF a
  <2> QED
    BY <1>1, <2>1, RecordTypes, Zenon
<1>6. /\ UNCHANGED <<daemon, mounts, orphan, results, kernelVars>>
      /\ \/ /\ client' = send_status(read, c.fd, "ENOENT")
            /\ UNCHANGED <<mg, cpg, register_list, dlm_fs>>
         \/ /\ mg' = [mg EXCEPT ![u] = [m EXCEPT !.ms_additional = a]]
            /\ client' = send_status(read, c.fd, "EBUSY")
            /\ UNCHANGED <<cpg, register_list, dlm_fs>>
         \/ /\ mg' = [mg EXCEPT ![u] = new]
            /\ client' = IF last THEN read ELSE send_status(read, c.fd, m.mg_error)
            /\ leave_effect(u, m, c.service)
            /\ unregister_effect(u, m, c.service)
  BY Zenon DEF RemoveMount, read
<1> HIDE DEF a, new, last
<1>7. client' \in [Slots -> Client]
  <2>1. {"ENOENT", "EBUSY", m.mg_error} \subseteq Statuses
    BY <1>1, StatusTypes, Zenon
  <2> QED
    BY <1>2, <1>3, <1>6, <2>1, Zenon
<1>8. CASE /\ client' = send_status(read, c.fd, "ENOENT")
           /\ UNCHANGED <<mg, cpg, register_list, dlm_fs>>
  BY <1>6, <1>7, <1>8, Zenon DEF TypeOK, kernelVars
<1>9. CASE /\ mg' = [mg EXCEPT ![u] = [m EXCEPT !.ms_additional = a]]
           /\ client' = send_status(read, c.fd, "EBUSY")
           /\ UNCHANGED <<cpg, register_list, dlm_fs>>
  BY <1>1, <1>5, <1>6, <1>7, <1>9 DEF TypeOK, kernelVars
<1>10. CASE /\ mg' = [mg EXCEPT ![u] = new]
            /\ leave_effect(u, m, c.service)
            /\ unregister_effect(u, m, c.service)
  <2>1. /\ cpg' \in [Uuids -> {"none", "joining", "joined", "leaving"}]
        /\ register_list' \in [Uuids -> [live : BOOLEAN, stale : BOOLEAN]]
        /\ dlm_fs' \in [Uuids -> BOOLEAN]
    BY <1>1, <1>10, EffectTypes, Zenon
  <2> QED
    BY <1>1, <1>4, <1>6, <1>7, <1>10, <2>1, Zenon DEF TypeOK, kernelVars
<1> QED
  BY <1>6, <1>8, <1>9, <1>10, Zenon

LEMMA DeadType == ASSUME TypeOK, NEW ci \in Slots, DeadClient(ci)
                  PROVE  TypeOK'
<1>1. /\ client' = [client EXCEPT ![ci] = FreeSlot]
      /\ UNCHANGED <<daemon, mounts, orphan, results, kernelVars>>
  BY Zenon DEF DeadClient
<1>2. client' \in [Slots -> Client]
  BY <1>1, SlotTypes, Zenon
<1>3. CASE UNCHANGED <<mg, cpg, register_list, dlm_fs>>
  BY <1>1, <1>2, <1>3 DEF TypeOK, kernelVars
<1>4. ASSUME NEW u \in find_mg_by_client(ci)
      PROVE
        LET ms == mg[u].mg_ms_in_progress
            m == detach(mg[u])
            additional == is_additional(m, ms)
            forget == [m EXCEPT !.ms_additional = IF additional THEN FALSE ELSE @,
                                !.mg_ms_in_progress = NoService]
        IN
        \/ /\ mg' = [mg EXCEPT ![u] = m]
           /\ UNCHANGED <<cpg, register_list, dlm_fs>>
        \/ /\ mg' = [mg EXCEPT ![u] = forget]
           /\ UNCHANGED <<cpg, register_list, dlm_fs>>
        \/ /\ ms \in m.mg_services
           /\ mg' = [mg EXCEPT ![u] = remove_service(m, ms)]
           /\ leave_effect(u, m, ms)
           /\ unregister_effect(u, m, ms)
        => TypeOK'
  <2> DEFINE ms == mg[u].mg_ms_in_progress
             m == detach(mg[u])
             b == IF is_additional(m, ms) THEN FALSE ELSE m.ms_additional
             forget == [m EXCEPT !.ms_additional = b,
                                 !.mg_ms_in_progress = NoService]
             gone == remove_service(m, ms)
  <2>1. u \in Uuids /\ m \in Mountgroup
    BY HandlerTypes, DetachFields DEF TypeOK
  <2>2. forget \in Mountgroup
    <3>1. b \in BOOLEAN
      BY <2>1, Zenon DEF Mountgroup
    <3> HIDE DEF b
    <3> QED
      BY <2>1, <3>1, RecordTypes, Zenon
  <2>3. ms \in m.mg_services => gone \in Mountgroup
    <3>1. m.mg_services \subseteq Services
      BY <2>1, Zenon DEF Mountgroup
    <3> QED
      BY <2>1, <3>1, RemoveServiceFields, Zenon
  <2> HIDE DEF m, ms, forget, gone
  <2>4. ASSUME mg' = [mg EXCEPT ![u] = m], UNCHANGED <<cpg, register_list, dlm_fs>>
        PROVE  TypeOK'
    BY <1>1, <1>2, <2>1, <2>4 DEF TypeOK, kernelVars
  <2>5. ASSUME mg' = [mg EXCEPT ![u] = forget],
               UNCHANGED <<cpg, register_list, dlm_fs>>
        PROVE  TypeOK'
    BY <1>1, <1>2, <2>1, <2>2, <2>5 DEF TypeOK, kernelVars
  <2>6. ASSUME ms \in m.mg_services, mg' = [mg EXCEPT ![u] = gone],
               leave_effect(u, m, ms), unregister_effect(u, m, ms)
        PROVE  TypeOK'
    <3>1. /\ cpg' \in [Uuids -> {"none", "joining", "joined", "leaving"}]
          /\ register_list' \in [Uuids -> [live : BOOLEAN, stale : BOOLEAN]]
          /\ dlm_fs' \in [Uuids -> BOOLEAN]
      BY <2>1, <2>6, EffectTypes, Zenon
    <3> QED
      BY <1>1, <1>2, <2>1, <2>3, <2>6, <3>1, Zenon DEF TypeOK, kernelVars
  <2> QED
    BY <2>4, <2>5, <2>6, Zenon DEF m, ms, forget, gone
<1> QED
  BY <1>3, <1>4, Zenon DEF DeadClient

LEMMA FinishJoinType == ASSUME TypeOK, NEW u \in Uuids, FinishJoin(u)
                        PROVE  TypeOK'
<1> DEFINE m == mg[u]
           ms == m.mg_ms_in_progress
           joined == [m EXCEPT !.mg_group = TRUE]
           gone == remove_service(fill_error(joined, "EREGISTER"), ms)
<1>1. joined \in Mountgroup
  BY RecordTypes, Zenon DEF TypeOK
<1> HIDE DEF joined
<1>2. ms \in m.mg_services => gone \in Mountgroup
  <2>1. fill_error(joined, "EREGISTER") \in Mountgroup
    BY <1>1, StatusTypes, FillErrorFields, Zenon
  <2>2. m.mg_services \subseteq Services
    BY Zenon DEF TypeOK, Mountgroup
  <2> QED
    BY <2>1, <2>2, RemoveServiceFields, Zenon
<1> HIDE DEF gone
<1>3. cpg' \in [Uuids -> {"none", "joining", "joined", "leaving"}]
  BY Zenon DEF FinishJoin, TypeOK
<1>4. UNCHANGED <<daemon, mounts, orphan, client, kernelVars>>
  BY Zenon DEF FinishJoin
<1>5. CASE UNCHANGED <<mg, register_list, dlm_fs, results>>
  BY <1>3, <1>4, <1>5, Zenon DEF TypeOK, kernelVars
<1>6. CASE mg' = [mg EXCEPT ![u] = joined] /\ dlmcontrol_register(u)
  <2>1. PICK status \in {OK, "EREGISTER"} :
          /\ register_list' = [register_list EXCEPT ![u].live = TRUE]
          /\ results' = [results EXCEPT ![u] = Append(@, status)]
          /\ dlm_fs' = [dlm_fs EXCEPT ![u] = IF status = OK THEN TRUE ELSE @]
    BY <1>6, Zenon DEF dlmcontrol_register
  <2>2. register_list' \in [Uuids -> [live : BOOLEAN, stale : BOOLEAN]]
    <3>1. /\ register_list \in [Uuids -> [live : BOOLEAN, stale : BOOLEAN]]
          /\ [register_list[u] EXCEPT !.live = TRUE]
               \in [live : BOOLEAN, stale : BOOLEAN]
      BY ZenonT(40) DEF TypeOK
    <3> QED
      BY <2>1, <3>1, Zenon
  <2>3. results' \in [Uuids -> Seq({OK, "EREGISTER"})]
    <3>1. Append(results[u], status) \in Seq({OK, "EREGISTER"})
      BY <2>1 DEF TypeOK
    <3> QED
      BY <2>1, <3>1, Zenon DEF TypeOK
  <2>4. dlm_fs' \in [Uuids -> BOOLEAN]
    BY <2>1, Zenon DEF TypeOK
  <2> QED
    BY <1>1, <1>3, <1>4, <1>6, <2>2, <2>3, <2>4, Zenon DEF TypeOK, kernelVars
<1>7. CASE /\ ms \in m.mg_services /\ mg' = [mg EXCEPT ![u] = gone]
           /\ UNCHANGED <<register_list, dlm_fs, results>>
  BY <1>2, <1>3, <1>4, <1>7, Zenon DEF TypeOK, kernelVars
<1> QED
  BY <1>5, <1>6, <1>7, Zenon DEF FinishJoin, joined, gone

LEMMA FinishLeaveType == ASSUME TypeOK, NEW u \in Uuids, FinishLeave(u)
                         PROVE  TypeOK'
<1> DEFINE m == mg[u]
           freed == [ci \in Slots |-> IF ci = m.mg_mount_ci THEN FreeSlot
                                                            ELSE client[ci]]
<1>1. mg[u] \in Mountgroup /\ client \in [Slots -> Client]
  BY Zenon DEF TypeOK
<1>2. CASE end_process("exited")
  BY <1>2, EndTypes, Zenon
<1>3. CASE /\ client' \in {notify_mount_client(client, m), freed}
           /\ free_mg(u, FALSE)
           /\ UNCHANGED <<daemon, dlm_fs, results, kernelVars>>
  <2>1. notify_mount_client(client, m) \in [Slots -> Client]
    BY <1>1, SendStatusType, StatusTypes, Zenon DEF notify_mount_client
  <2>2. freed \in [Slots -> Client]
    BY <1>1, ConstTypes, Zenon
  <2>3. client' \in [Slots -> Client]
    BY <1>3, <2>1, <2>2, Zenon
  <2> QED
    BY <1>3, <2>3, FreeTypes, Zenon DEF TypeOK, kernelVars
<1> QED
  BY <1>2, <1>3, Zenon DEF FinishLeave

LEMMA RegisterResultType == ASSUME TypeOK, NEW u \in Uuids, RegisterResult(u)
                            PROVE  TypeOK'
<1> DEFINE m == mg[u]
           ms == m.mg_ms_in_progress
           gone == remove_service(fill_error(m, "EREGISTER"), ms)
           registered == [m EXCEPT !.mg_registered = TRUE]
<1>1. m \in Mountgroup
  BY Zenon DEF TypeOK
<1>2. registered \in Mountgroup
  BY <1>1, RecordTypes, Zenon
<1> HIDE DEF registered
<1>3. ms # NoService => gone \in Mountgroup
  <2>1. fill_error(m, "EREGISTER") \in Mountgroup
    BY <1>1, StatusTypes, FillErrorFields, Zenon
  <2>2. ms \in Services \cup {NoService}
    BY <1>1, Zenon DEF Mountgroup
  <2> QED
    BY <2>1, <2>2, RemoveServiceFields, Zenon
<1> HIDE DEF gone
<1>4. UNCHANGED <<daemon, mounts, orphan, kernelVars>>
      /\ results[u] # <<>> /\ results' = [results EXCEPT ![u] = Tail(@)]
  BY Zenon DEF RegisterResult
<1>5. results' \in [Uuids -> Seq({OK, "EREGISTER"})]
  <2>1. Tail(results[u]) \in Seq({OK, "EREGISTER"})
    BY <1>4 DEF TypeOK
  <2> QED
    BY <1>4, <2>1, Zenon DEF TypeOK
<1>6. CASE UNCHANGED <<mg, cpg, register_list, dlm_fs, client>>
  BY <1>4, <1>5, <1>6, Zenon DEF TypeOK, kernelVars
<1>7. CASE /\ ms # NoService /\ mg' = [mg EXCEPT ![u] = gone]
           /\ leave_effect(u, m, ms) /\ unregister_effect(u, m, ms)
           /\ UNCHANGED client
  <2>1. /\ cpg' \in [Uuids -> {"none", "joining", "joined", "leaving"}]
        /\ register_list' \in [Uuids -> [live : BOOLEAN, stale : BOOLEAN]]
        /\ dlm_fs' \in [Uuids -> BOOLEAN]
    BY <1>7, EffectTypes, Zenon
  <2> QED
    BY <1>3, <1>4, <1>5, <1>7, <2>1, Zenon DEF TypeOK, kernelVars
<1>8. CASE /\ mg' = [mg EXCEPT ![u] = notified(registered)]
           /\ client' = notify_mount_client(client, registered)
           /\ UNCHANGED <<cpg, register_list, dlm_fs>>
  <2>1. notified(registered) \in Mountgroup
    BY <1>2, NotifiedFields, Zenon
  <2>2. client' \in [Slots -> Client]
    BY <1>2, <1>8, SendStatusType, StatusTypes, Zenon DEF notify_mount_client, TypeOK
  <2> QED
    BY <1>4, <1>5, <1>8, <2>1, <2>2, Zenon DEF TypeOK, kernelVars
<1> QED
  BY <1>6, <1>7, <1>8, Zenon DEF RegisterResult, gone, registered

(* Every handler of the daemon keeps every variable in its type. *)
LEMMA DaemonType == TypeOK /\ Daemon => TypeOK'
<1> SUFFICES ASSUME TypeOK, Daemon PROVE TypeOK'
  BY Zenon
<1>1. ASSUME NEW ci \in Slots,
             \/ RejectMount(ci) \/ StartMountAgain(ci) \/ StartMountNew(ci)
             \/ CompleteMount(ci) \/ RemoveMount(ci) \/ DeadClient(ci)
      PROVE  TypeOK'
  BY <1>1, MountType, CompleteType, RemoveType, DeadType, Zenon
<1>2. ASSUME NEW u \in Uuids, FinishJoin(u) \/ RegisterResult(u)
      PROVE  TypeOK'
  BY <1>2, FinishJoinType, RegisterResultType, Zenon
<1>3. ASSUME NEW u \in Uuids, CpgLeft(u) \/ CpgDied(u)
      PROVE  TypeOK'
  BY <1>3, FinishLeaveType, Zenon DEF CpgLeft, CpgDied
<1>4. ASSUME NEW u \in Uuids, OrphanEvent(u) \/ StaleResult(u)
      PROVE  TypeOK'
  BY <1>4, EndTypes, Zenon DEF OrphanEvent, StaleResult
<1>5. ASSUME handle_signal \/ shutdown_daemon PROVE TypeOK'
  BY <1>5, EndTypes, Zenon DEF handle_signal, shutdown_daemon
<1> QED
  BY <1>1, <1>2, <1>3, <1>4, <1>5, Zenon DEF Daemon

(* Whatever programs, dlm_controld, CPG and the kernel do, every variable  *)
(* keeps its type: a slot of mg_mount_ci is a slot of the client table, a  *)
(* list position is never negative, mg_services holds services only.       *)
THEOREM TypeCorrect == Spec => []TypeOK
<1>1. Init => TypeOK
  BY ConstTypes, ConstAssumption
     DEF Init, TypeOK, NoMountgroups, NotRegistered
<1>2. TypeOK /\ [Next /\ Watch]_<<vars, mishap>> => TypeOK'
  <2> SUFFICES ASSUME TypeOK, [Next /\ Watch]_<<vars, mishap>> PROVE TypeOK'
    BY Zenon
  <2>1. CASE UNCHANGED vars
    BY <2>1, Zenon DEF TypeOK, vars
  <2>2. UNCHANGED <<vars, mishap>> => UNCHANGED vars
    BY Zenon
  <2> QED
    BY <2>1, <2>2, ProgramsType, DaemonType, Zenon DEF Next, Stopped
<1> QED
  BY <1>1, <1>2, PTL DEF Spec

=============================================================================
