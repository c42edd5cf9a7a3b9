----------------------------- MODULE CpgGroups -----------------------------
(***************************************************************************)
(* How ocfs2_controld follows the cluster's membership: cpg.c, and the     *)
(* node-down half of dlmcontrol.c.                                         *)
(*                                                                         *)
(* Every daemon is a member of one CPG group, "controld", and of one group *)
(* for each filesystem it has mounted.  Each group has a connection of its *)
(* own.  CPG orders all membership changes, but the daemon reads them      *)
(* connection by connection: a node that dies is reported on controld's    *)
(* connection and again on each mount group's.  The group's report is      *)
(* ignored; controld's makes the daemon tell the kernel and dlm_controld,  *)
(* for each mount group it believes the node to be in.                     *)
(*                                                                         *)
(* The module is one daemon (on node Us), what CPG does, dlm_controld on   *)
(* this node, and the other nodes as this one sees them.                   *)
(***************************************************************************)
EXTENDS Integers, Sequences, FiniteSets

CONSTANTS
  Groups,          \* mount groups (filesystems)
  Nodes,           \* node ids, this one's among them
  Us,              \* our_nodeid
  MaxDeaths,       \* bound: how often a node dies
  MaxUnread        \* bound: changes a connection holds unread

ASSUME CpgAssumption ==
  /\ Nodes \subseteq Nat \ {0} /\ IsFiniteSet(Nodes) /\ IsFiniteSet(Groups)
  /\ "controld" \notin Groups /\ "dlm_controld" \notin Groups
  /\ Us \in Nodes /\ MaxDeaths \in Nat /\ MaxUnread \in Nat

Peers == Nodes \ {Us}
Ctl == "controld"
Dlm == "dlm_controld"
Conns == Groups \cup {Ctl}

VARIABLES
  daemon,        \* "up", "exited", or "lost": exited over its own records
  members,       \* CPG: the members of each group, in the agreed order so far
  bus,           \* CPG: what is still to be delivered of the latest change
  queue,         \* unread changes of each connection
  revents,       \* connections poll() found ready and this pass has to serve
  cg,            \* struct cgroup of each mount group
  df,            \* register_list: struct dlmcontrol_fs of each mount group
  requests,      \* notifications on the way to dlm_controld
  results,       \* its answers on the way back
  dlm,           \* dlm_controld: how it sees each peer in each lockspace
  killed,        \* nodes kill_stack_node() was called for since they started
  deaths,        \* how often each peer has died
  raced          \* history: news has crossed in a way the daemon cannot sort out

cpgVars == <<members, bus, queue>>
dlmVars == <<requests, results, dlm>>
vars == <<daemon, members, bus, queue, revents, cg, df, requests, results,
          dlm, killed, deaths>>

Up == daemon = "up"

(* cpg_state is where CPG is with our membership: "asked" once cpg_join()  *)
(* was called, "in" once that is ordered, "leaving" after cpg_leave().     *)
NoCgroup == [cpg_state |-> "none", cg_joined |-> FALSE, cg_nodes |-> {}]

NoFs == [on |-> FALSE, notifications |-> {}]

-----------------------------------------------------------------------------
(* CPG: changes are agreed one after the other; one that concerns several  *)
(* groups reaches their connections one by one, in no particular order.    *)

Quiet == \A c \in Conns : bus[c] = <<>> /\ Len(queue[c]) < MaxUnread

(* The connections of this node on which a change of the groups gs shows. *)
Heard(gs) == {c \in gs : Us \in members[c]}

(* The nodes of D leave the groups gs. *)
Change(gs, D, reason) ==
  /\ members' = [c \in Conns |-> IF c \in gs THEN members[c] \ D ELSE members[c]]
  /\ bus' = [c \in Conns |->
               IF c \in Heard(gs) /\ members[c] \cap D # {}
               THEN <<[members |-> members[c] \ D, joined |-> {},
                       left |-> members[c] \cap D, reason |-> reason]>>
               ELSE <<>>]
  /\ UNCHANGED queue

(* One node joins one group; the change has one connection to go to. *)
Joins(c, n) ==
  /\ members' = [members EXCEPT ![c] = @ \cup {n}]
  /\ queue' = [queue EXCEPT ![c] =
       IF Us \in members[c] \cup {n}
       THEN Append(@, [members |-> members[c] \cup {n}, joined |-> {n},
                       left |-> {}, reason |-> "JOIN"])
       ELSE @]
  /\ UNCHANGED bus

CpgDeliver(c) ==
  /\ Up
  /\ bus[c] # <<>>
  /\ queue' = [queue EXCEPT ![c] = Append(@, Head(bus[c]))]
  /\ bus' = [bus EXCEPT ![c] = <<>>]
  /\ UNCHANGED <<daemon, members, revents, cg, df, dlmVars, killed,
                 deaths>>

(* CPG gets to our cpg_join() or cpg_leave(). *)
CpgOrdersJoin(g) ==
  /\ Up /\ Quiet
  /\ cg[g].cpg_state = "asked"
  /\ Joins(g, Us)
  /\ cg' = [cg EXCEPT ![g].cpg_state = "in"]
  /\ UNCHANGED <<daemon, revents, df, dlmVars, killed, deaths>>

CpgOrdersLeave(g) ==
  /\ Up /\ Quiet
  /\ cg[g].cpg_state = "leaving" /\ Us \in members[g]
  /\ Change({g}, {Us}, "LEAVE")
  /\ UNCHANGED <<daemon, revents, cg, df, dlmVars, killed, deaths>>

-----------------------------------------------------------------------------
(* The other nodes. *)

Mounted(p) == \E g \in Groups : p \in members[g]

PeerStarts(p) ==
  /\ Up /\ Quiet
  /\ p \notin members[Ctl] /\ ~Mounted(p)
  /\ Joins(Ctl, p)
  /\ UNCHANGED <<daemon, revents, cg, df, dlmVars, killed, deaths>>

PeerMounts(p, g) ==
  /\ Up /\ Quiet
  /\ p \in members[Ctl] /\ p \notin members[g]
  /\ Joins(g, p)
  /\ UNCHANGED <<daemon, revents, cg, df, dlmVars, killed, deaths>>

PeerUnmounts(p, g) ==
  /\ Up /\ Quiet
  /\ p \in members[Ctl] \cap members[g]
  /\ Change({g}, {p}, "LEAVE")
  /\ dlm' = [dlm EXCEPT ![g][p] = "out"]
  /\ UNCHANGED <<daemon, revents, cg, df, requests, results, killed,
                 deaths>>

(* handle_signal() ends a daemon only when it has no mounts. *)
PeerExits(p) ==
  /\ Up /\ Quiet
  /\ p \in members[Ctl] /\ ~Mounted(p)
  /\ Change({Ctl}, {p}, "LEAVE")
  /\ UNCHANGED <<daemon, revents, cg, df, dlmVars, killed, deaths>>

(* Death(D): what dlm_controld will find out in its own time. *)
Dying(D) ==
  dlm' = [g \in Groups |-> [p \in Peers |->
            IF p \in D /\ dlm[g][p] = "in" THEN "dying" ELSE dlm[g][p]]]

Die(D, reason) ==
  /\ Up /\ Quiet
  /\ \A p \in D : deaths[p] < MaxDeaths
  /\ Change(Conns, D, reason)
  /\ Dying(D)
  /\ deaths' = [p \in Peers |-> IF p \in D THEN deaths[p] + 1 ELSE deaths[p]]
  /\ UNCHANGED <<daemon, revents, cg, df, requests, results, killed>>

NodesDie(D) ==
  /\ D # {} /\ D \subseteq members[Ctl]
  /\ Die(D, "NODEDOWN")

(* The daemon of p is killed, or goes after having left controld. *)
DaemonDies(p) ==
  /\ p \in members[Ctl] \/ Mounted(p)
  /\ Die({p}, "PROCDOWN")

-----------------------------------------------------------------------------
(* dlm_controld on this node: refuses the notification of a node it has not *)
(* seen die, and takes it when it has, or when it does not know the node.  *)

DlmUp(g, p) ==
  /\ Up
  /\ df[g].on /\ p \in members[g] /\ dlm[g][p] = "out"
  /\ dlm' = [dlm EXCEPT ![g][p] = "in"]
  /\ UNCHANGED <<daemon, cpgVars, revents, cg, df, requests, results, killed, deaths>>

DlmSees(g, p) ==
  /\ Up
  /\ dlm[g][p] = "dying"
  /\ dlm' = [dlm EXCEPT ![g][p] = "wait"]
  /\ UNCHANGED <<daemon, cpgVars, revents, cg, df, requests, results, killed, deaths>>

DlmAnswer ==
  /\ Up
  /\ requests # <<>>
  /\ LET g == Head(requests)[1]
         p == Head(requests)[2]
     IN  /\ results' = Append(results, <<g, p, dlm[g][p] \in {"wait", "out"}>>)
         /\ dlm' = [dlm EXCEPT ![g][p] = IF @ = "wait" THEN "out" ELSE @]
  /\ requests' = Tail(requests)
  /\ UNCHANGED <<daemon, cpgVars, revents, cg, df, killed, deaths>>
-----------------------------------------------------------------------------
(* The main loop.  One poll(), then one message of every connection that   *)
(* was ready, in the order of the client table: controld's connection is   *)
(* the oldest, dlm_controld's comes next, the groups' come after them.     *)

Ready == {c \in Conns : queue[c] # <<>>}
         \cup (IF results # <<>> THEN {Dlm} ELSE {})

Poll ==
  /\ Up
  /\ revents = {} /\ Ready # {}
  /\ revents' = Ready
  /\ UNCHANGED <<daemon, cpgVars, cg, df, dlmVars, killed, deaths>>

(* Mutant: the groups' connections come before controld's. *)
turn_groups_first(c) ==
  /\ Up
  /\ c \in revents
  /\ c = Ctl => revents \cap Groups = {}

Turn(c) ==
  /\ Up
  /\ c \in revents
  /\ c # Ctl => Ctl \notin revents
  /\ c \in Groups => Dlm \notin revents

(* process_cpg(): one cpg_dispatch(), then the change it delivered. *)
process_cpg(c) ==
  /\ Turn(c)
  /\ queue[c] # <<>>
  /\ queue' = [queue EXCEPT ![c] = Tail(@)]
  /\ revents' = revents \ {c}
  /\ UNCHANGED <<members, bus, deaths>>

(* push_node() shuts the daemon down when the node is already there. *)
push_node(g, ns) ==
  IF cg[g].cg_nodes \cap ns = {}
  THEN /\ cg' = [cg EXCEPT ![g].cg_nodes = @ \cup ns]
       /\ UNCHANGED daemon
  ELSE daemon' = "lost" /\ UNCHANGED cg

(* handle_node_join() of this node: all members are pushed, and the        *)
(* mountgroup is told.  finish_join() registers the filesystem, or the     *)
(* group is left, with nothing to unregister: its mounter has gone, or     *)
(* dlm_controld refuses the filesystem.  The answer is taken to come at    *)
(* once; MountGroups is about the time until it does.                      *)
WeJoin(g) ==
  LET e == Head(queue[g]) IN
  /\ process_cpg(g)
  /\ Us \in e.joined /\ ~cg[g].cg_joined
  /\ \/ /\ cg' = [cg EXCEPT ![g] = [@ EXCEPT !.cg_nodes = e.members, !.cg_joined = TRUE]]
        /\ df' = [df EXCEPT ![g].on = TRUE]
     \/ /\ cg' = [cg EXCEPT ![g] = [cpg_state |-> "leaving", cg_joined |-> TRUE,
                                    cg_nodes |-> e.members]]
        /\ UNCHANGED df
  /\ UNCHANGED <<daemon, dlmVars, killed>>

PeerJoined(g) ==
  LET e == Head(queue[g]) IN
  /\ process_cpg(g)
  /\ e.joined # {} /\ Us \notin e.joined
  /\ push_node(g, e.joined)
  /\ UNCHANGED <<df, dlmVars, killed>>

(* handle_node_leave() *)
PeerLeft(g) ==
  LET e == Head(queue[g]) IN
  /\ process_cpg(g)
  /\ e.left # {} /\ Us \notin e.left
  /\ cg' = [cg EXCEPT ![g].cg_nodes =
               IF e.reason = "LEAVE" THEN @ \ e.left ELSE @]
  /\ UNCHANGED <<daemon, df, dlmVars, killed>>

(* finalize_group() frees the group, and its connection with it. *)
WeLeave(g) ==
  LET e == Head(queue[g]) IN
  /\ Turn(g)
  /\ queue[g] # <<>> /\ Us \in e.left
  /\ cg' = [cg EXCEPT ![g] = NoCgroup]
  /\ df' = [df EXCEPT ![g] = NoFs]
  /\ queue' = [queue EXCEPT ![g] = <<>>]
  /\ revents' = revents \ {g}
  /\ UNCHANGED <<daemon, members, bus, dlmVars, killed, deaths>>

(* daemon_change(): a daemon that died without its node has the node       *)
(* killed; then every mountgroup the dead are in is told, in               *)
(* mount_node_down(), and they are popped.  dlmcontrol_node_down() notes   *)
(* and sends a notification.  (Mutant: a daemon's death is not a node's.)  *)
handle_node_down_node_only(e) == IF e.reason = "NODEDOWN" THEN e.left ELSE {}

handle_node_down(e) ==
  IF e.reason \in {"NODEDOWN", "PROCDOWN"} THEN e.left ELSE {}

(* The members of S one after the other: group_list and cg_cb_left are in  *)
(* no particular order.                                                    *)
Listings(S) ==
  UNION {{s \in [1 .. n -> S] : \A x \in S : \E i \in 1 .. n : s[i] = x}
           : n \in 0 .. Cardinality(S)}

DaemonChange ==
  LET e == Head(queue[Ctl])
      down == handle_node_down(e)
      told == {t \in Groups \X Peers : df[t[1]].on
                                       /\ t[2] \in down \cap cg[t[1]].cg_nodes}
  IN
  /\ process_cpg(Ctl)
  /\ killed' = IF e.reason = "PROCDOWN" THEN killed \cup e.left
               ELSE killed \ e.joined
  /\ cg' = [g \in Groups |-> [cg[g] EXCEPT !.cg_nodes = @ \ down]]
  /\ df' = [g \in Groups |-> [df[g] EXCEPT !.notifications =
               @ \cup {p \in Peers : <<g, p>> \in told}]]
  /\ \E sent \in Listings(told) : requests' = requests \o sent
  /\ UNCHANGED <<daemon, results, dlm>>

(* notify_result(): an answer nobody waits for is dropped, a good one      *)
(* completes the notification, a bad one makes dlmcontrol_node_down() send *)
(* it again.  (Mutant: no notification is found.)                          *)
find_notification_none(g, p) == FALSE

find_notification(g, p) == df[g].on /\ p \in df[g].notifications

NotifyResult ==
  LET g == Head(results)[1]
      p == Head(results)[2]
      ok == Head(results)[3]
  IN
  /\ Turn(Dlm)
  /\ results # <<>>
  /\ results' = Tail(results)
  /\ revents' = revents \ {Dlm}
  /\ df' = IF find_notification(g, p) /\ ok
           THEN [df EXCEPT ![g].notifications = @ \ {p}] ELSE df
  /\ requests' = IF find_notification(g, p) /\ ~ok
                 THEN Append(requests, <<g, p>>) ELSE requests
  /\ UNCHANGED <<daemon, cpgVars, cg, dlm, killed, deaths>>

(* A client's MOUNT of a filesystem that has no mountgroup: group_join(). *)
GroupJoin(g) ==
  /\ Up /\ revents \cap {Ctl, Dlm} = {}
  /\ cg[g].cpg_state = "none"
  /\ cg' = [cg EXCEPT ![g].cpg_state = "asked"]
  /\ UNCHANGED <<daemon, cpgVars, revents, df, dlmVars, killed, deaths>>

(* The last service of a registered mountgroup goes: dlmcontrol_unregister() *)
(* and group_leave().  One whose registration failed leaves in WeJoin.     *)
GroupLeave(g) ==
  /\ Up /\ revents \cap {Ctl, Dlm} = {}
  /\ cg[g].cg_joined /\ cg[g].cpg_state = "in" /\ df[g].on
  /\ cg' = [cg EXCEPT ![g].cpg_state = "leaving"]
  /\ df' = [df EXCEPT ![g] = NoFs]
  /\ dlm' = [dlm EXCEPT ![g] = [p \in Peers |-> "out"]]
  /\ UNCHANGED <<daemon, cpgVars, revents, requests, results, killed,
                 deaths>>

(* dead_cpg() of controld's connection, dead_dlmcontrol(). *)
shutdown_daemon ==
  /\ Up
  /\ daemon' = "exited"
  /\ UNCHANGED <<cpgVars, revents, cg, df, dlmVars, killed, deaths>>

-----------------------------------------------------------------------------
Init ==
  /\ daemon = "up"
  /\ members = [c \in Conns |-> IF c = Ctl THEN Nodes ELSE {}]
  /\ bus = [c \in Conns |-> <<>>]
  /\ queue = [c \in Conns |-> <<>>]
  /\ revents = {}
  /\ cg = [g \in Groups |-> NoCgroup]
  /\ df = [g \in Groups |-> NoFs]
  /\ requests = <<>> /\ results = <<>>
  /\ dlm = [g \in Groups |-> [p \in Peers |-> "out"]]
  /\ killed = {}
  /\ deaths = [p \in Peers |-> 0]
  /\ raced = FALSE

Cluster ==
  \/ \E c \in Conns : CpgDeliver(c)
  \/ \E g \in Groups : CpgOrdersJoin(g) \/ CpgOrdersLeave(g)
  \/ \E p \in Peers : PeerStarts(p) \/ PeerExits(p) \/ DaemonDies(p)
  \/ \E p \in Peers, g \in Groups : PeerMounts(p, g) \/ PeerUnmounts(p, g)
  \/ \E D \in SUBSET Peers : NodesDie(D)
  \/ \E g \in Groups, p \in Peers : DlmUp(g, p) \/ DlmSees(g, p)
  \/ DlmAnswer

Daemon ==
  \/ Poll
  \/ \E g \in Groups : WeJoin(g) \/ PeerJoined(g) \/ PeerLeft(g) \/ WeLeave(g)
  \/ DaemonChange
  \/ NotifyResult
  \/ \E g \in Groups : GroupJoin(g) \/ GroupLeave(g)
  \/ shutdown_daemon

Stopped == ~Up /\ UNCHANGED vars

Next == Cluster \/ Daemon \/ Stopped

-----------------------------------------------------------------------------
(* Three orders of events in which the daemon loses track of a node: it    *)
(* has two connections to hear of one death, and one name for every answer *)
(* about a node.  Once there was one, nothing more is claimed.             *)

(* The join that put p into our idea of group g is agreed, but its report  *)
(* is still unread: p's own, or ours.                                      *)
JoinUnread(g, p) ==
  p \in members[g] /\ \E i \in DOMAIN queue[g] : queue[g][i].joined \cap {p, Us} # {}

(* A member dies while the join is unread: its death, read before, finds   *)
(* no node to take away, and the group's own report of it is ignored.      *)
DeathInJoin ==
  \E g \in Groups, p \in Peers :
    p \notin members'[g] /\ p \notin members'[Ctl] /\ JoinUnread(g, p)

(* p has died since the last news that was read of controld, and something *)
(* else is to be read before that death.                                   *)
Behind(p) ==
  \E i \in DOMAIN queue[Ctl] :
    i > 1 /\ p \in queue[Ctl][i].left /\ queue[Ctl][i].reason # "LEAVE"

(* A node is back in a group, or we join it there, while its death is      *)
(* behind other news: the death then takes the newcomer away, or the join  *)
(* finds the dead one still on the list.                                   *)
DeathBehind ==
  \E g \in Groups, p \in Peers :
    p \in members'[g] /\ {p, Us} \cap (members'[g] \ members[g]) # {} /\ Behind(p)

(* dlm_controld sees a node come back before we have read that it saw the  *)
(* node go: the answer is taken for one to the next death.                 *)
LateAnswer ==
  \E g \in Groups, p \in Peers :
    /\ dlm[g][p] = "out" /\ dlm'[g][p] = "in"
    /\ \E i \in DOMAIN results : results[i] = <<g, p, TRUE>>

Watch == raced' = (raced \/ DeathInJoin \/ DeathBehind \/ LateAnswer)

Spec == Init /\ [][Next /\ Watch]_<<vars, raced>>

(* poll() sees every connection, and each ready one gets its turn; CPG     *)
(* delivers what it has agreed on; dlm_controld answers, and sees the      *)
(* deaths there are.                                                       *)
Fairness ==
  /\ WF_vars(Poll) /\ WF_vars(DaemonChange) /\ WF_vars(NotifyResult)
  /\ \A g \in Groups :
       WF_vars(WeJoin(g) \/ PeerJoined(g) \/ PeerLeft(g) \/ WeLeave(g))
  /\ \A c \in Conns : WF_vars(CpgDeliver(c))
  /\ \A g \in Groups, p \in Peers : WF_vars(DlmSees(g, p))
  /\ WF_vars(DlmAnswer)

FairSpec == Spec /\ Fairness

-----------------------------------------------------------------------------
(* Everything CPG has said about controld and about group g has been read. *)
ReadUp(g) == \A c \in {Ctl, g} : bus[c] = <<>> /\ queue[c] = <<>>

(* cg_nodes is "our idea of the group", which "lags cg_members until       *)
(* join/leave processing is complete": once it is, the two are the same,   *)
(* though the deaths among the members came over another connection than   *)
(* their joins and leaves.  The three orders above are the only ones that  *)
(* part them.                                                              *)
NodesAreMembers ==
  Up /\ ~raced => \A g \in Groups :
          cg[g].cg_joined /\ ReadUp(g) => cg[g].cg_nodes = members[g]

(* push_node() finds a node that joins already there only after one of the *)
(* three orders: nothing else gets the daemon "lost in our group members", *)
(* to shut down with its filesystems mounted.                              *)
NeverLost == daemon = "lost" => raced

(* "If dlm_controld responds in the negative, this function is called      *)
(* again to send.  This goes on until dlm_controld sees the node go down": *)
(* while dlm_controld waits to be told of a death, or will, the news is    *)
(* still unread here, or on its way, or an answer is that will have it     *)
(* sent again, unless one of the three orders came first.                  *)
DeathIsPassedOn ==
  Up /\ ~raced => \A g \in Groups, p \in Peers :
          dlm[g][p] \in {"dying", "wait"} =>
            \/ \E i \in DOMAIN queue[Ctl] : p \in queue[Ctl][i].left
            \/ bus[Ctl] # <<>>
            \/ \E i \in DOMAIN requests : requests[i] = <<g, p>>
            \/ /\ \E i \in DOMAIN results : results[i] = <<g, p, FALSE>>
               /\ p \in df[g].notifications

(* A dead node does not stay in a group for ever: daemon_change() gets to  *)
(* its death and node_down is called, unless one of the three orders came. *)
DeadIsReported ==
  \A g \in Groups, p \in Peers :
    Up /\ p \in cg[g].cg_nodes /\ p \notin members[Ctl]
      ~> ~Up \/ raced \/ p \notin cg[g].cg_nodes \/ p \in members[Ctl]

(* The resending ends: dlm_controld takes every notification, unless the   *)
(* node is back in the group.                                              *)
NotificationEnds ==
  \A g \in Groups, p \in Peers :
    Up /\ p \in df[g].notifications
      ~> ~Up \/ p \notin df[g].notifications \/ p \in members[g]
=============================================================================
