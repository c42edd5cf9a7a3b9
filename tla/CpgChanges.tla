----------------------------- MODULE CpgChanges -----------------------------
(***************************************************************************)
(* The invariant of CpgGroups, and that the changes of the groups keep it: *)
(* CPG's, the peers' joins, leaves and deaths.  CpgProofs has the steps of *)
(* the daemon.                                                             *)
(*                                                                         *)
(* The difficulty is that a peer's joins and leaves are read from one      *)
(* connection and its deaths from another.  CpgInv says, for each group g  *)
(* and peer p, what the unread changes of both connections make of p, in   *)
(* whatever order the daemon gets to them.                                 *)
(***************************************************************************)
EXTENDS CpgGroups, TLAPS

Events == [members : SUBSET Nodes, joined : SUBSET Nodes, left : SUBSET Nodes,
           reason : {"JOIN", "LEAVE", "NODEDOWN", "PROCDOWN"}]

Cgroups == [cpg_state : {"none", "asked", "in", "leaving"},
            cg_joined : BOOLEAN, cg_nodes : SUBSET Nodes]

TypeOK ==
  /\ daemon \in {"up", "exited", "lost"}
  /\ members \in [Conns -> SUBSET Nodes]
  /\ bus \in [Conns -> Seq(Events)]
  /\ queue \in [Conns -> Seq(Events)]
  /\ revents \subseteq Conns \cup {Dlm}
  /\ cg \in [Groups -> Cgroups]
  /\ df \in [Groups -> [on : BOOLEAN, notifications : SUBSET Peers]]
  /\ requests \in Seq(Groups \X Peers)
  /\ results \in Seq(Groups \X Peers \X BOOLEAN)
  /\ dlm \in [Groups -> [Peers -> {"out", "in", "dying", "wait"}]]

(* What a change says of a node. *)
Left(e, p) == e.reason = "LEAVE" /\ p \in e.left
Died(e, p) == e.reason # "LEAVE" /\ p \in e.left
Tells(e, p) == p \in e.joined \/ (Us \in e.joined /\ p \in e.members)

Dead(e) == {p \in Nodes : Died(e, p)}

(* A change is a join or a leave, and ours is ours alone. *)
EventOK(e) ==
  /\ e.joined = {} \/ e.left = {}
  /\ e.joined \subseteq e.members
  /\ e.joined # {} => e.reason = "JOIN"
  /\ e.left # {} => e.reason # "JOIN"
  /\ Us \in e.left => e.reason = "LEAVE"

(* One connection, with M the members, b what CPG has still to deliver, q  *)
(* what is unread, v whether this pass has still to serve it: what is not  *)
(* delivered took nodes out and they are not back.                         *)
BusAt(M, b, q, v) ==
  /\ DOMAIN b \subseteq {1}
  /\ \A i \in DOMAIN b :
       EventOK(b[i]) /\ b[i].joined = {} /\ b[i].left \cap M = {}
  /\ \A i \in DOMAIN q : EventOK(q[i])
  /\ v => 1 \in DOMAIN q

BusOK(c) == BusAt(members[c], bus[c], queue[c], c \in revents)

CtlOK ==
  /\ Us \in members[Ctl]
  /\ \A g \in Groups : members[g] \subseteq members[Ctl] \cup {Us}
  /\ \A i \in DOMAIN bus[Ctl] : Us \notin bus[Ctl][i].left
  /\ \A i \in DOMAIN queue[Ctl] : Us \notin queue[Ctl][i].left

(* How far we are with a group: s is cpg_state, j cg_joined, N cg_nodes,   *)
(* and on whether the filesystem is registered.                            *)
PhaseAt(s, j, N, M, b, q, on) ==
  /\ s \in {"none", "asked"} =>
       Us \notin M /\ DOMAIN q = {} /\ DOMAIN b = {} /\ ~j
  /\ s = "in" => Us \in M
  /\ s = "leaving" => j
  /\ s = "in" /\ ~j => 1 \in DOMAIN q /\ Us \in q[1].joined
  /\ ~j => N = {}
  /\ j => Us \in N
  /\ \A i \in DOMAIN q : Us \in q[i].joined => i = 1 /\ ~j
  /\ Us \in M => /\ \A i \in DOMAIN q : Us \notin q[i].left
                 /\ \A i \in DOMAIN b : Us \notin b[i].left
  /\ Us \notin M =>
       /\ \A i \in DOMAIN b : Us \in b[i].left
       /\ j => 1 \in DOMAIN b \/ \E i \in DOMAIN q : Us \in q[i].left
  /\ (\E i \in DOMAIN q : Us \in q[i].left) => DOMAIN b = {}
  /\ on => s = "in" /\ j

PhaseOK(g) == PhaseAt(cg[g].cpg_state, cg[g].cg_joined, cg[g].cg_nodes,
                      members[g], bus[g], queue[g], df[g].on)

(* p's death is still to be read: C is what is unread of controld, B what  *)
(* CPG has not delivered there yet.                                        *)
DeathIn(p, B, C) ==
  \/ \E j \in DOMAIN C : Died(C[j], p)
  \/ \E j \in DOMAIN B : Died(B[j], p)

(* p's deaths are read before change i of the group; rc and rg say whether *)
(* this pass has still to serve controld and the group.                    *)
ReadFirst(p, C, rc, rg, i) ==
  \A j \in DOMAIN C : Died(C[j], p) => j = 1 /\ (rc \/ ~rg \/ i > 1)

(* A member is in cg_nodes (N) to stay, or there is a change to read that  *)
(* puts it there and nothing after that takes it away.                     *)
MemberAt(p, M, q, B, C, N, rc, rg) ==
  Us \in M /\ p \in M =>
    \/ \E i \in DOMAIN q :
         /\ Tells(q[i], p) /\ ReadFirst(p, C, rc, rg, i)
         /\ \A k \in DOMAIN q : k > i => p \notin q[k].left
    \/ /\ p \in N /\ ~DeathIn(p, B, C)
       /\ \A k \in DOMAIN q : ~Left(q[k], p)

(* A node that is not a member has left, and the last that is to be read   *)
(* of it is that, or nothing will put it into cg_nodes and its death will  *)
(* take it out.                                                            *)
OutsiderAt(p, M, b, q, B, C, N) ==
  Us \in M /\ p \notin M =>
    \/ \E i \in DOMAIN b : Left(b[i], p)
    \/ \E i \in DOMAIN q :
         /\ Left(q[i], p)
         /\ \A k \in DOMAIN q : k > i => ~Tells(q[k], p)
    \/ /\ \A k \in DOMAIN q : ~Tells(q[k], p)
       /\ p \in N => DeathIn(p, B, C)

(* When push_node() gets to a join of p, p is not there. *)
PushAt(p, q, C, N, rc, rg) ==
  \A i \in DOMAIN q : p \in q[i].joined =>
    \/ \E k \in DOMAIN q :
         /\ k < i /\ Left(q[k], p)
         /\ \A m \in DOMAIN q : k < m /\ m < i => ~Tells(q[m], p)
    \/ /\ \A m \in DOMAIN q : m < i => ~Tells(q[m], p)
       /\ p \in N => /\ 1 \in DOMAIN C /\ Died(C[1], p)
                     /\ rc \/ ~rg \/ i > 1

PairAt(p, M, b, q, B, C, N, rc, rg) ==
  /\ MemberAt(p, M, q, B, C, N, rc, rg)
  /\ OutsiderAt(p, M, b, q, B, C, N)
  /\ PushAt(p, q, C, N, rc, rg)

NodeOK(g, p) ==
  PairAt(p, members[g], bus[g], queue[g], bus[Ctl], queue[Ctl],
         cg[g].cg_nodes, Ctl \in revents, g \in revents)

(* p's death will be read, and find p in cg_nodes. *)
Awaits(p, b, q, B, C, N) ==
  /\ p \in N /\ DeathIn(p, B, C)
  /\ \A i \in DOMAIN b : ~Left(b[i], p)
  /\ \A k \in DOMAIN q : ~Left(q[k], p)

Has(s, x) == \E i \in DOMAIN s : s[i] = x

(* dlm_controld and the notifications. *)
DlmOK(g, p) ==
  /\ dlm[g][p] # "out" =>
       df[g].on /\ ~Has(results, <<g, p, TRUE>>)
  /\ dlm[g][p] = "in" => p \in members[g]
  /\ dlm[g][p] \in {"dying", "wait"} =>
       \/ Awaits(p, bus[g], queue[g], bus[Ctl], queue[Ctl], cg[g].cg_nodes)
       \/ /\ p \in df[g].notifications
          /\ Has(requests, <<g, p>>) \/ Has(results, <<g, p, FALSE>>)

(* The inductive invariant. *)
CpgInv ==
  /\ TypeOK /\ daemon # "lost"
  /\ Up =>
       /\ CtlOK
       /\ \A c \in Conns : BusOK(c)
       /\ \A g \in Groups : PhaseOK(g)
       /\ \A g \in Groups, p \in Peers : NodeOK(g, p) /\ DlmOK(g, p)

-----------------------------------------------------------------------------
(* Sequences: one longer, one shorter. *)

Grown(q, r, e) ==
  \E n \in Nat : /\ DOMAIN q = 1 .. n /\ DOMAIN r = 1 .. n + 1
                 /\ r[n + 1] = e /\ \A i \in 1 .. n : r[i] = q[i]

Shrunk(q, r) ==
  \E n \in Nat : /\ DOMAIN q = 1 .. n + 1 /\ DOMAIN r = 1 .. n
                 /\ \A i \in 1 .. n : r[i] = q[i + 1]

LEMMA AppendGrows ==
  ASSUME NEW S, NEW q \in Seq(S), NEW e \in S
  PROVE  Append(q, e) \in Seq(S) /\ Grown(q, Append(q, e), e)
<1>1. /\ Append(q, e) \in Seq(S) /\ Len(q) \in Nat /\ DOMAIN q = 1 .. Len(q)
      /\ DOMAIN Append(q, e) = 1 .. Len(q) + 1 /\ Append(q, e)[Len(q) + 1] = e
      /\ \A i \in 1 .. Len(q) : Append(q, e)[i] = q[i]
  BY SMT
<1> QED
  BY <1>1, Zenon DEF Grown

LEMMA TailShrinks ==
  ASSUME NEW S, NEW q \in Seq(S), q # <<>>
  PROVE  /\ Tail(q) \in Seq(S) /\ Shrunk(q, Tail(q))
         /\ Head(q) = q[1] /\ 1 \in DOMAIN q /\ q[1] \in S
<1> DEFINE n == Len(q) - 1
<1>1. /\ Tail(q) \in Seq(S) /\ n \in Nat /\ DOMAIN q = 1 .. n + 1
      /\ DOMAIN Tail(q) = 1 .. n /\ Head(q) = q[1] /\ 1 \in DOMAIN q /\ q[1] \in S
  BY SMT
<1>2. \A i \in 1 .. n : Tail(q)[i] = q[i + 1]
  BY SMT
<1> HIDE DEF n
<1> QED
  BY <1>1, <1>2, Zenon DEF Shrunk

LEMMA Shifted ==
  ASSUME NEW q, NEW r, Shrunk(q, r)
  PROVE  /\ 1 \in DOMAIN q /\ DOMAIN q \subseteq Nat /\ DOMAIN r \subseteq Nat
         /\ \A i \in DOMAIN q : i = 1 \/ (i > 1 /\ i - 1 \in DOMAIN r /\ r[i - 1] = q[i])
         /\ \A i \in DOMAIN r : i > 0 /\ i + 1 \in DOMAIN q /\ r[i] = q[i + 1]
<1>1. PICK n \in Nat : /\ DOMAIN q = 1 .. n + 1 /\ DOMAIN r = 1 .. n
                       /\ \A i \in 1 .. n : r[i] = q[i + 1]
  BY Zenon DEF Shrunk
<1>2. ASSUME NEW i \in DOMAIN q, i # 1
      PROVE  i > 1 /\ i - 1 \in DOMAIN r /\ r[i - 1] = q[i]
  <2>1. i - 1 \in 1 .. n /\ i = (i - 1) + 1
    BY <1>1, <1>2, SMT
  <2> QED
    BY <1>1, <1>2, <2>1, SMT
<1>3. ASSUME NEW i \in DOMAIN r PROVE i > 0 /\ i + 1 \in DOMAIN q /\ r[i] = q[i + 1]
  BY <1>1, <1>3, SMT
<1>4. 1 \in 1 .. n + 1
  BY SMT
<1>5. \A m \in Nat : 1 .. m \subseteq Nat
  BY SMT
<1>6. n + 1 \in Nat
  BY SMT
<1> QED
  BY <1>1, <1>2, <1>3, <1>4, <1>5, <1>6, Zenon

LEMMA NothingIn ==
  /\ DOMAIN <<>> = {} /\ \A S : <<>> \in Seq(S)
BY SMT

LEMMA OneIn ==
  ASSUME NEW S, NEW e \in S
  PROVE  <<e>> \in Seq(S) /\ DOMAIN <<e>> = {1} /\ <<e>>[1] = e /\ Len(<<e>>) = 1
BY SMT
-----------------------------------------------------------------------------
(* What each step does to what is unread of one node, whatever the group.  *)

(* CPG delivers a change on the group's connection. *)
GroupNews(M, b, q, b2, r) ==
  /\ DOMAIN b2 = {} /\ Grown(q, r, b[1]) /\ DOMAIN b = {1}
  /\ EventOK(b[1]) /\ b[1].joined = {} /\ b[1].left \cap M = {}

LEMMA DeliverGroup ==
  ASSUME NEW p, NEW M, NEW b, NEW q, NEW B, NEW C, NEW N, NEW rc, NEW rg,
         NEW b2, NEW r,
         GroupNews(M, b, q, b2, r)
  PROVE  PairAt(p, M, b, q, B, C, N, rc, rg) => PairAt(p, M, b2, r, B, C, N, rc, rg)
<1> USE DEF GroupNews
<1> DEFINE e == b[1]
<1>1. PICK n \in Nat : /\ DOMAIN q = 1 .. n /\ DOMAIN r = 1 .. n + 1
                       /\ r[n + 1] = e /\ \A i \in 1 .. n : r[i] = q[i]
  BY Zenon DEF Grown
<1>2. ~Tells(e, p) /\ (p \in M => p \notin e.left) /\ p \notin e.joined
  BY Zenon DEF Tells
<1>3. ASSUME MemberAt(p, M, q, B, C, N, rc, rg)
      PROVE  MemberAt(p, M, r, B, C, N, rc, rg)
  BY <1>1, <1>2, <1>3, SMT DEF MemberAt, Left
<1>4. ASSUME OutsiderAt(p, M, b, q, B, C, N)
      PROVE  OutsiderAt(p, M, b2, r, B, C, N)
  BY <1>1, <1>2, <1>4, SMT DEF OutsiderAt
<1>5. ASSUME PushAt(p, q, C, N, rc, rg) PROVE PushAt(p, r, C, N, rc, rg)
  BY <1>1, <1>2, <1>5, SMT DEF PushAt
<1> QED
  BY <1>3, <1>4, <1>5, Zenon DEF PairAt

LEMMA DeliverGroupAwaits ==
  ASSUME NEW p, NEW M, NEW b, NEW q, NEW B, NEW C, NEW N, NEW b2, NEW r,
         GroupNews(M, b, q, b2, r)
  PROVE  Awaits(p, b, q, B, C, N) => Awaits(p, b2, r, B, C, N)
<1>1. PICK n \in Nat : /\ DOMAIN q = 1 .. n /\ DOMAIN r = 1 .. n + 1
                       /\ r[n + 1] = b[1] /\ \A i \in 1 .. n : r[i] = q[i]
  BY Zenon DEF Grown, GroupNews
<1>2. DOMAIN b = {1} /\ DOMAIN b2 = {}
  BY Zenon DEF GroupNews
<1>3. ASSUME Awaits(p, b, q, B, C, N) PROVE Awaits(p, b2, r, B, C, N)
  BY <1>1, <1>2, <1>3, SMT DEF Awaits
<1> QED
  BY <1>3, Zenon

(* ... and on controld's. *)
CtlNews(p, M, B, C, B2, D, e) ==
  /\ DOMAIN B2 = {} /\ Grown(C, D, e)
  /\ \A i \in DOMAIN B : B[i] = e
  /\ p \in M => ~Died(e, p)

LEMMA DeliverCtl ==
  ASSUME NEW p, NEW M, NEW b, NEW q, NEW B, NEW C, NEW N, NEW rc, NEW rg,
         NEW B2, NEW D, NEW e,
         CtlNews(p, M, B, C, B2, D, e)
  PROVE  PairAt(p, M, b, q, B, C, N, rc, rg) => PairAt(p, M, b, q, B2, D, N, rc, rg)
<1> USE DEF CtlNews
<1>1. PICK n \in Nat : /\ DOMAIN C = 1 .. n /\ DOMAIN D = 1 .. n + 1
                       /\ D[n + 1] = e /\ \A i \in 1 .. n : D[i] = C[i]
  BY Zenon DEF Grown
<1>2. DeathIn(p, B, C) => DeathIn(p, B2, D)
  BY <1>1, SMT DEF DeathIn
<1>3. p \in M /\ ~DeathIn(p, B, C) => ~DeathIn(p, B2, D)
  BY <1>1, SMT DEF DeathIn
<1>4. ASSUME p \in M, NEW i, ReadFirst(p, C, rc, rg, i) PROVE ReadFirst(p, D, rc, rg, i)
  BY <1>1, <1>4, SMT DEF ReadFirst
<1>5. 1 \in DOMAIN C => 1 \in DOMAIN D /\ D[1] = C[1]
  BY <1>1, SMT
<1>6. ASSUME MemberAt(p, M, q, B, C, N, rc, rg)
      PROVE  MemberAt(p, M, q, B2, D, N, rc, rg)
  BY <1>3, <1>4, <1>6, Zenon DEF MemberAt
<1>7. ASSUME OutsiderAt(p, M, b, q, B, C, N)
      PROVE  OutsiderAt(p, M, b, q, B2, D, N)
  BY <1>2, <1>7, Zenon DEF OutsiderAt
<1>8. ASSUME PushAt(p, q, C, N, rc, rg) PROVE PushAt(p, q, D, N, rc, rg)
  BY <1>5, <1>8, Zenon DEF PushAt
<1> QED
  BY <1>6, <1>7, <1>8, Zenon DEF PairAt

LEMMA DeliverCtlAwaits ==
  ASSUME NEW p, NEW M, NEW b, NEW q, NEW B, NEW C, NEW N,
         NEW B2, NEW D, NEW e, CtlNews(p, M, B, C, B2, D, e)
  PROVE  Awaits(p, b, q, B, C, N) => Awaits(p, b, q, B2, D, N)
<1>1. PICK n \in Nat : /\ DOMAIN C = 1 .. n /\ DOMAIN D = 1 .. n + 1
                       /\ D[n + 1] = e /\ \A i \in 1 .. n : D[i] = C[i]
  BY Zenon DEF Grown, CtlNews
<1>2. DeathIn(p, B, C) => DeathIn(p, B2, D)
  BY <1>1, SMT DEF DeathIn, CtlNews
<1> QED
  BY <1>2, Zenon DEF Awaits

(* A join is ordered in controld's group. *)
LEMMA CtlJoin ==
  ASSUME NEW p, NEW M, NEW b, NEW q, NEW B, NEW C, NEW N, NEW rc, NEW rg,
         NEW D, NEW e, Grown(C, D, e), ~Died(e, p)
  PROVE  PairAt(p, M, b, q, B, C, N, rc, rg) => PairAt(p, M, b, q, B, D, N, rc, rg)
<1>1. PICK n \in Nat : /\ DOMAIN C = 1 .. n /\ DOMAIN D = 1 .. n + 1
                       /\ D[n + 1] = e /\ \A i \in 1 .. n : D[i] = C[i]
  BY Zenon DEF Grown
<1>2. DeathIn(p, B, C) <=> DeathIn(p, B, D)
  BY <1>1, SMT DEF DeathIn
<1>4. ASSUME NEW i, ReadFirst(p, C, rc, rg, i) PROVE ReadFirst(p, D, rc, rg, i)
  BY <1>1, <1>4, SMT DEF ReadFirst
<1>5. 1 \in DOMAIN C => 1 \in DOMAIN D /\ D[1] = C[1]
  BY <1>1, SMT
<1>6. ASSUME MemberAt(p, M, q, B, C, N, rc, rg)
      PROVE  MemberAt(p, M, q, B, D, N, rc, rg)
  BY <1>2, <1>4, <1>6, Zenon DEF MemberAt
<1>7. ASSUME OutsiderAt(p, M, b, q, B, C, N)
      PROVE  OutsiderAt(p, M, b, q, B, D, N)
  BY <1>2, <1>7, Zenon DEF OutsiderAt
<1>8. ASSUME PushAt(p, q, C, N, rc, rg) PROVE PushAt(p, q, D, N, rc, rg)
  BY <1>5, <1>8, Zenon DEF PushAt
<1> QED
  BY <1>6, <1>7, <1>8, Zenon DEF PairAt

LEMMA CtlJoinAwaits ==
  ASSUME NEW p, NEW b, NEW q, NEW B, NEW C, NEW N, NEW D, NEW e, Grown(C, D, e)
  PROVE  Awaits(p, b, q, B, C, N) => Awaits(p, b, q, B, D, N)
<1>1. PICK n \in Nat : /\ DOMAIN C = 1 .. n /\ DOMAIN D = 1 .. n + 1
                       /\ D[n + 1] = e /\ \A i \in 1 .. n : D[i] = C[i]
  BY Zenon DEF Grown
<1>2. DeathIn(p, B, C) => DeathIn(p, B, D)
  BY <1>1, SMT DEF DeathIn
<1> QED
  BY <1>2, Zenon DEF Awaits

(* Our own join is ordered: the members are in the change that tells us. *)
OurJoins(p, M, q, C, N, rg, r, e) ==
  /\ p # Us /\ p \notin N
  /\ DOMAIN q = {} /\ Grown(q, r, e) /\ ~rg
  /\ e.joined = {Us} /\ e.left = {} /\ e.members = M \cup {Us}
  /\ p \in M => \A j \in DOMAIN C : Died(C[j], p) => j = 1

LEMMA OurJoin ==
  ASSUME NEW p, NEW M, NEW b, NEW q, NEW B, NEW C, NEW N, NEW rc, NEW rg,
         NEW r, NEW e,
         OurJoins(p, M, q, C, N, rg, r, e)
  PROVE  PairAt(p, M \cup {Us}, b, r, B, C, N, rc, rg)
<1> USE DEF OurJoins
<1>1. PICK n \in Nat : /\ DOMAIN q = 1 .. n /\ DOMAIN r = 1 .. n + 1
                       /\ r[n + 1] = e /\ \A i \in 1 .. n : r[i] = q[i]
  BY Zenon DEF Grown
<1>2. n = 0
  BY <1>1, SMT
<1>3. DOMAIN r = {1} /\ r[1] = e
  BY <1>1, <1>2, SMT
<1>4. Tells(e, p) <=> p \in M
  BY Zenon DEF Tells
<1>5. p \in M => ReadFirst(p, C, rc, rg, 1)
  BY Zenon DEF ReadFirst
<1>6. MemberAt(p, M \cup {Us}, r, B, C, N, rc, rg)
  BY <1>3, <1>4, <1>5, SMT DEF MemberAt
<1>7. OutsiderAt(p, M \cup {Us}, b, r, B, C, N)
  BY <1>3, <1>4, Zenon DEF OutsiderAt
<1>8. PushAt(p, r, C, N, rc, rg)
  BY <1>3, Zenon DEF PushAt
<1> QED
  BY <1>6, <1>7, <1>8, Zenon DEF PairAt

(* A peer's join is ordered: p's own, or another's. *)
PeerJoins(p, x, M, b, q, B, C, rg, r, e) ==
  /\ p # Us /\ x # Us /\ Us \in M /\ x \notin M
  /\ DOMAIN b = {} /\ DOMAIN B = {} /\ Grown(q, r, e)
  /\ rg => 1 \in DOMAIN q
  /\ e.joined = {x} /\ e.left = {} /\ e.reason = "JOIN"
  /\ x = p => \A j \in DOMAIN C : Died(C[j], p) => j = 1

LEMMA PeerJoin ==
  ASSUME NEW p, NEW M, NEW b, NEW q, NEW B, NEW C, NEW N, NEW rc, NEW rg,
         NEW r, NEW e, NEW x,
         PeerJoins(p, x, M, b, q, B, C, rg, r, e)
  PROVE  PairAt(p, M, b, q, B, C, N, rc, rg) =>
           PairAt(p, M \cup {x}, b, r, B, C, N, rc, rg)
<1> USE DEF PeerJoins
<1>1. PICK n \in Nat : /\ DOMAIN q = 1 .. n /\ DOMAIN r = 1 .. n + 1
                       /\ r[n + 1] = e /\ \A i \in 1 .. n : r[i] = q[i]
  BY Zenon DEF Grown
<1>2. /\ Tells(e, p) <=> p = x
      /\ ~Left(e, p) /\ p \notin e.left /\ (p \in e.joined <=> p = x)
  BY Zenon DEF Tells, Left
<1>3. x = p => ReadFirst(p, C, rc, rg, n + 1)
  BY <1>1, SMT DEF ReadFirst
<1>4. ASSUME MemberAt(p, M, q, B, C, N, rc, rg)
      PROVE  MemberAt(p, M \cup {x}, r, B, C, N, rc, rg)
  <2>1. CASE p = x
    <3>1. n + 1 \in DOMAIN r /\ \A k \in DOMAIN r : ~(k > n + 1)
      BY <1>1, SMT
    <3> QED
      BY <1>1, <1>2, <1>3, <2>1, <3>1, Zenon DEF MemberAt
  <2>2. CASE p # x
    BY <1>1, <1>2, <1>4, <2>2, SMT DEF MemberAt
  <2> QED
    BY <2>1, <2>2, Zenon
<1>5. ASSUME OutsiderAt(p, M, b, q, B, C, N)
      PROVE  OutsiderAt(p, M \cup {x}, b, r, B, C, N)
  BY <1>1, <1>2, <1>5, SMT DEF OutsiderAt
<1>6. ASSUME PushAt(p, q, C, N, rc, rg), OutsiderAt(p, M, b, q, B, C, N)
      PROVE  PushAt(p, r, C, N, rc, rg)
  <2> SUFFICES ASSUME NEW i \in DOMAIN r, p \in r[i].joined
               PROVE  \/ \E k \in DOMAIN r :
                           /\ k < i /\ Left(r[k], p)
                           /\ \A m \in DOMAIN r : k < m /\ m < i => ~Tells(r[m], p)
                      \/ /\ \A m \in DOMAIN r : m < i => ~Tells(r[m], p)
                         /\ p \in N => /\ 1 \in DOMAIN C /\ Died(C[1], p)
                                       /\ rc \/ ~rg \/ i > 1
    BY Zenon DEF PushAt
  <2>1. CASE i \in 1 .. n
    BY <1>1, <1>6, <2>1, SMT DEF PushAt
  <2>2. CASE i = n + 1
    <3>1. p = x /\ p \notin M
      BY <1>1, <1>2, <2>2, Zenon
    <3>2. CASE \E k \in DOMAIN q : Left(q[k], p) /\ \A m \in DOMAIN q : m > k => ~Tells(q[m], p)
      BY <1>1, <2>2, <3>2, SMT
    <3>3. CASE (\A k \in DOMAIN q : ~Tells(q[k], p)) /\ (p \in N => DeathIn(p, B, C))
      <4>1. p \in N => 1 \in DOMAIN C /\ Died(C[1], p)
        BY <3>1, <3>3, Zenon DEF DeathIn
      <4>2. rc \/ ~rg \/ i > 1
        BY <1>1, <2>2, SMT
      <4>3. \A m \in DOMAIN r : m < i => ~Tells(r[m], p)
        BY <1>1, <2>2, <3>3, SMT
      <4> QED
        BY <4>1, <4>2, <4>3, Zenon
    <3> QED
      BY <1>6, <3>1, <3>2, <3>3, Zenon DEF OutsiderAt
  <2> QED
    BY <1>1, <2>1, <2>2, SMT
<1> QED
  BY <1>4, <1>5, <1>6, Zenon DEF PairAt

LEMMA JoinAwaits ==
  ASSUME NEW p, NEW b, NEW q, NEW B, NEW C, NEW N, NEW r, NEW e, Grown(q, r, e),
         ~Left(e, p)
  PROVE  Awaits(p, b, q, B, C, N) => Awaits(p, b, r, B, C, N)
<1>1. PICK n \in Nat : /\ DOMAIN q = 1 .. n /\ DOMAIN r = 1 .. n + 1
                       /\ r[n + 1] = e /\ \A i \in 1 .. n : r[i] = q[i]
  BY Zenon DEF Grown
<1>2. ASSUME Awaits(p, b, q, B, C, N) PROVE Awaits(p, b, r, B, C, N)
  BY <1>1, <1>2, SMT DEF Awaits
<1> QED
  BY <1>2, Zenon

(* We are not a member: only the joins that are unread matter. *)
LEMMA NotMember ==
  ASSUME NEW p, NEW M, NEW b, NEW q, NEW B, NEW C, NEW N, NEW rc, NEW rg,
         Us \notin M, PushAt(p, q, C, N, rc, rg)
  PROVE  PairAt(p, M, b, q, B, C, N, rc, rg)
BY Zenon DEF PairAt, MemberAt, OutsiderAt

(* A change that takes nodes out of the group, or none, with p not dying:  *)
(* p stays, was not there, or unmounts.                                    *)
Stays(p, M, b, B, M2, b2, B2) ==
  /\ DOMAIN b = {} /\ DOMAIN B = {}
  /\ Us \in M2 => Us \in M
  /\ p \in M2 <=> p \in M
  /\ \A j \in DOMAIN b2 : ~Left(b2[j], p)
  /\ \A j \in DOMAIN B2 : p \in M => ~Died(B2[j], p)

LEMMA OthersGo ==
  ASSUME NEW p, NEW M, NEW b, NEW q, NEW B, NEW C, NEW N, NEW rc, NEW rg,
         NEW M2, NEW b2, NEW B2,
         Stays(p, M, b, B, M2, b2, B2)
  PROVE  PairAt(p, M, b, q, B, C, N, rc, rg) => PairAt(p, M2, b2, q, B2, C, N, rc, rg)
<1> USE DEF Stays
<1>1. DeathIn(p, B, C) => DeathIn(p, B2, C)
  BY Zenon DEF DeathIn
<1>2. p \in M => (DeathIn(p, B2, C) => DeathIn(p, B, C))
  BY Zenon DEF DeathIn
<1>3. ASSUME MemberAt(p, M, q, B, C, N, rc, rg)
      PROVE  MemberAt(p, M2, q, B2, C, N, rc, rg)
  BY <1>2, <1>3, Zenon DEF MemberAt
<1>4. ASSUME OutsiderAt(p, M, b, q, B, C, N)
      PROVE  OutsiderAt(p, M2, b2, q, B2, C, N)
  BY <1>1, <1>4, Zenon DEF OutsiderAt
<1> QED
  BY <1>3, <1>4, Zenon DEF PairAt

LEMMA GoAwaits ==
  ASSUME NEW p, NEW b, NEW q, NEW B, NEW C, NEW N, NEW b2, NEW B2,
         DOMAIN B = {}, \A j \in DOMAIN b2 : ~Left(b2[j], p)
  PROVE  Awaits(p, b, q, B, C, N) => Awaits(p, b2, q, B2, C, N)
BY Zenon DEF Awaits, DeathIn

Goes(p, M2, b2) ==
  /\ p \notin M2
  /\ 1 \in DOMAIN b2 /\ Left(b2[1], p)

LEMMA Unmounts ==
  ASSUME NEW p, NEW M, NEW b, NEW q, NEW B, NEW C, NEW N, NEW rc, NEW rg,
         Goes(p, M, b), PushAt(p, q, C, N, rc, rg)
  PROVE  PairAt(p, M, b, q, B, C, N, rc, rg)
BY Zenon DEF PairAt, MemberAt, OutsiderAt, Goes

(* p dies, with no join unread that would put it into cg_nodes later. *)
IsDying(p, M, b, q, B, M2, b2, B2) ==
  /\ p \in M /\ p \notin M2
  /\ DOMAIN b = {} /\ DOMAIN B = {}
  /\ \A i \in DOMAIN q : q[i].joined \cap {p, Us} = {}
  /\ \A j \in DOMAIN b2 : ~Left(b2[j], p)
  /\ 1 \in DOMAIN B2 /\ Died(B2[1], p)

LEMMA Dies ==
  ASSUME NEW p, NEW M, NEW b, NEW q, NEW B, NEW C, NEW N, NEW rc, NEW rg,
         NEW M2, NEW b2, NEW B2,
         IsDying(p, M, b, q, B, M2, b2, B2),
         PairAt(p, M, b, q, B, C, N, rc, rg)
  PROVE  PairAt(p, M2, b2, q, B2, C, N, rc, rg)
<1> USE DEF IsDying
<1>1. \A k \in DOMAIN q : ~Tells(q[k], p) /\ p \notin q[k].joined
  BY Zenon DEF Tells
<1>2. DeathIn(p, B2, C)
  BY Zenon DEF DeathIn
<1>3. MemberAt(p, M2, q, B2, C, N, rc, rg) /\ OutsiderAt(p, M2, b2, q, B2, C, N)
  BY <1>1, <1>2, Zenon DEF MemberAt, OutsiderAt
<1>4. PushAt(p, q, C, N, rc, rg)
  BY <1>1, Zenon DEF PushAt
<1> QED
  BY <1>3, <1>4, Zenon DEF PairAt

LEMMA DiesAwaits ==
  ASSUME NEW p, NEW M, NEW b, NEW q, NEW B, NEW C, NEW N, NEW rc, NEW rg,
         NEW M2, NEW b2, NEW B2, Us \in M,
         IsDying(p, M, b, q, B, M2, b2, B2),
         PairAt(p, M, b, q, B, C, N, rc, rg)
  PROVE  Awaits(p, b2, q, B2, C, N)
<1> USE DEF IsDying
<1>1. \A k \in DOMAIN q : ~Tells(q[k], p)
  BY Zenon DEF Tells
<1>2. DeathIn(p, B2, C)
  BY Zenon DEF DeathIn
<1>3. p \in N /\ \A k \in DOMAIN q : ~Left(q[k], p)
  BY <1>1, Zenon DEF PairAt, MemberAt
<1> QED
  BY <1>2, <1>3, Zenon DEF Awaits

(* poll() returns: what is unread of controld's is served first. *)
PolledCtl(C, rc) ==
  /\ \E n \in Nat : DOMAIN C = 1 .. n
  /\ 1 \in DOMAIN C => rc

LEMMA Polled ==
  ASSUME NEW p, NEW M, NEW b, NEW q, NEW B, NEW C, NEW N, NEW rc, NEW rg,
         PolledCtl(C, rc)
  PROVE  PairAt(p, M, b, q, B, C, N, FALSE, FALSE) => PairAt(p, M, b, q, B, C, N, rc, rg)
<1> USE DEF PolledCtl
<1>1. \A j : j \in DOMAIN C => 1 \in DOMAIN C
  BY SMT
<1>2. ASSUME NEW i, ReadFirst(p, C, FALSE, FALSE, i) PROVE ReadFirst(p, C, rc, rg, i)
  BY <1>1, <1>2, Zenon DEF ReadFirst
<1>3. ASSUME MemberAt(p, M, q, B, C, N, FALSE, FALSE)
      PROVE  MemberAt(p, M, q, B, C, N, rc, rg)
  BY <1>2, <1>3, Zenon DEF MemberAt
<1>4. ASSUME PushAt(p, q, C, N, FALSE, FALSE) PROVE PushAt(p, q, C, N, rc, rg)
  BY <1>4, Zenon DEF PushAt
<1> QED
  BY <1>3, <1>4, Zenon DEF PairAt

(* daemon_change(): the dead leave cg_nodes. *)
CtlRead(p, C, D, N, N2) ==
  /\ Shrunk(C, D)
  /\ p \in N2 <=> p \in N /\ ~Died(C[1], p)

LEMMA ReadCtl ==
  ASSUME NEW p, NEW M, NEW b, NEW q, NEW B, NEW C, NEW N, NEW rc, NEW rg,
         NEW D, NEW N2,
         CtlRead(p, C, D, N, N2)
  PROVE  PairAt(p, M, b, q, B, C, N, rc, rg) => PairAt(p, M, b, q, B, D, N2, FALSE, rg)
<1> USE DEF CtlRead
<1>1. /\ 1 \in DOMAIN C
      /\ \A i \in DOMAIN C : i = 1 \/ (i - 1 \in DOMAIN D /\ D[i - 1] = C[i])
      /\ \A i \in DOMAIN D : i + 1 \in DOMAIN C /\ i + 1 # 1 /\ D[i] = C[i + 1]
  BY Shifted, SMT
<1>2. /\ DeathIn(p, B, D) => DeathIn(p, B, C)
      /\ DeathIn(p, B, C) => DeathIn(p, B, D) \/ Died(C[1], p)
  BY <1>1, Zenon DEF DeathIn
<1>3. ~DeathIn(p, B, C) => ~Died(C[1], p)
  BY <1>1, Zenon DEF DeathIn
<1>4. ASSUME NEW i, ReadFirst(p, C, rc, rg, i) PROVE ReadFirst(p, D, FALSE, rg, i)
  BY <1>1, <1>4, Zenon DEF ReadFirst
<1>5. ASSUME MemberAt(p, M, q, B, C, N, rc, rg)
      PROVE  MemberAt(p, M, q, B, D, N2, FALSE, rg)
  BY <1>2, <1>3, <1>4, <1>5, Zenon DEF MemberAt
<1>6. ASSUME OutsiderAt(p, M, b, q, B, C, N)
      PROVE  OutsiderAt(p, M, b, q, B, D, N2)
  BY <1>2, <1>6, Zenon DEF OutsiderAt
<1>7. ASSUME PushAt(p, q, C, N, rc, rg) PROVE PushAt(p, q, D, N2, FALSE, rg)
  BY <1>7, Zenon DEF PushAt
<1> QED
  BY <1>5, <1>6, <1>7, Zenon DEF PairAt

LEMMA ReadCtlAwaits ==
  ASSUME NEW p, NEW b, NEW q, NEW B, NEW C, NEW N, NEW D, NEW N2,
         CtlRead(p, C, D, N, N2), ~Died(C[1], p)
  PROVE  Awaits(p, b, q, B, C, N) => Awaits(p, b, q, B, D, N2)
<1>1. \A i \in DOMAIN C : i = 1 \/ (i - 1 \in DOMAIN D /\ D[i - 1] = C[i])
  BY Shifted, SMT DEF CtlRead
<1>2. DeathIn(p, B, C) => DeathIn(p, B, D)
  BY <1>1, Zenon DEF DeathIn
<1> QED
  BY <1>2, Zenon DEF Awaits, CtlRead

(* A change of the group is read, in a pass that is done with controld. *)
GroupRead(p, M, q, B, N, r, N2) ==
  /\ Shrunk(q, r) /\ EventOK(q[1])
  /\ p \in N2 <=> Tells(q[1], p) \/ (p \in N /\ ~Left(q[1], p))
  /\ p \in M => \A j \in DOMAIN B : ~Died(B[j], p)

LEMMA ReadGroup ==
  ASSUME NEW p, NEW M, NEW b, NEW q, NEW B, NEW C, NEW N,
         NEW r, NEW N2,
         GroupRead(p, M, q, B, N, r, N2)
  PROVE  PairAt(p, M, b, q, B, C, N, FALSE, TRUE) => PairAt(p, M, b, r, B, C, N2, FALSE, FALSE)
<1> USE DEF GroupRead
<1>1. /\ 1 \in DOMAIN q /\ DOMAIN q \subseteq Nat /\ DOMAIN r \subseteq Nat
      /\ \A i \in DOMAIN q : i = 1 \/ (i > 1 /\ i - 1 \in DOMAIN r /\ r[i - 1] = q[i])
      /\ \A i \in DOMAIN r : i > 0 /\ i + 1 \in DOMAIN q /\ r[i] = q[i + 1]
  BY Shifted, Zenon
<1>2. ~(Tells(q[1], p) /\ Left(q[1], p))
  BY Zenon DEF EventOK, Tells, Left
<1>3. ASSUME MemberAt(p, M, q, B, C, N, FALSE, TRUE)
      PROVE  MemberAt(p, M, r, B, C, N2, FALSE, FALSE)
  <2> SUFFICES ASSUME Us \in M, p \in M
               PROVE  \/ \E i \in DOMAIN r :
                           /\ Tells(r[i], p) /\ ReadFirst(p, C, FALSE, FALSE, i)
                           /\ \A k \in DOMAIN r : k > i => p \notin r[k].left
                      \/ /\ p \in N2 /\ ~DeathIn(p, B, C)
                         /\ \A k \in DOMAIN r : ~Left(r[k], p)
    BY Zenon DEF MemberAt
  <2>1. ASSUME NEW i \in DOMAIN q, Tells(q[i], p), ReadFirst(p, C, FALSE, TRUE, i),
               \A k \in DOMAIN q : k > i => p \notin q[k].left, i = 1
        PROVE  /\ p \in N2 /\ ~DeathIn(p, B, C)
               /\ \A k \in DOMAIN r : ~Left(r[k], p)
    BY <1>1, <2>1, SMT DEF ReadFirst, DeathIn, Left
  <2>2. ASSUME NEW i \in DOMAIN q, Tells(q[i], p), ReadFirst(p, C, FALSE, TRUE, i),
               \A k \in DOMAIN q : k > i => p \notin q[k].left, i # 1
        PROVE  \E h \in DOMAIN r :
                  /\ Tells(r[h], p) /\ ReadFirst(p, C, FALSE, FALSE, h)
                  /\ \A k \in DOMAIN r : k > h => p \notin r[k].left
    <3>1. i - 1 \in DOMAIN r /\ r[i - 1] = q[i]
      BY <1>1, <2>2, Zenon
    <3>2. ReadFirst(p, C, FALSE, FALSE, i - 1)
      BY <2>2, Zenon DEF ReadFirst
    <3>4. \A k \in DOMAIN r : k > i - 1 => k + 1 > i
      BY <1>1, <2>2, SMT
    <3>3. \A k \in DOMAIN r : k > i - 1 => p \notin r[k].left
      BY <1>1, <2>2, <3>4, Zenon
    <3> QED
      BY <2>2, <3>1, <3>2, <3>3, Zenon
  <2>3. ASSUME p \in N, ~DeathIn(p, B, C), \A k \in DOMAIN q : ~Left(q[k], p)
        PROVE  p \in N2 /\ \A k \in DOMAIN r : ~Left(r[k], p)
    BY <1>1, <2>3, Zenon
  <2> QED
    BY <1>3, <2>1, <2>2, <2>3, Zenon DEF MemberAt
<1>4. ASSUME OutsiderAt(p, M, b, q, B, C, N)
      PROVE  OutsiderAt(p, M, b, r, B, C, N2)
  <2> SUFFICES ASSUME Us \in M, p \notin M
               PROVE  \/ \E i \in DOMAIN b : Left(b[i], p)
                      \/ \E i \in DOMAIN r :
                           /\ Left(r[i], p)
                           /\ \A k \in DOMAIN r : k > i => ~Tells(r[k], p)
                      \/ /\ \A k \in DOMAIN r : ~Tells(r[k], p)
                         /\ p \in N2 => DeathIn(p, B, C)
    BY Zenon DEF OutsiderAt
  <2>1. ASSUME NEW i \in DOMAIN q, Left(q[i], p),
               \A k \in DOMAIN q : k > i => ~Tells(q[k], p), i = 1
        PROVE  p \notin N2 /\ \A k \in DOMAIN r : ~Tells(r[k], p)
    <3>1. \A k \in DOMAIN r : k + 1 > 1
      BY <1>1, SMT
    <3> QED
      BY <1>1, <1>2, <2>1, <3>1, Zenon
  <2>2. ASSUME NEW i \in DOMAIN q, Left(q[i], p),
               \A k \in DOMAIN q : k > i => ~Tells(q[k], p), i # 1
        PROVE  \E h \in DOMAIN r :
                  Left(r[h], p) /\ \A k \in DOMAIN r : k > h => ~Tells(r[k], p)
    <3>1. i - 1 \in DOMAIN r /\ r[i - 1] = q[i]
      BY <1>1, <2>2, Zenon
    <3>2. \A k \in DOMAIN r : k > i - 1 => k + 1 > i
      BY <1>1, <2>2, SMT
    <3> QED
      BY <1>1, <2>2, <3>1, <3>2, Zenon
  <2>3. ASSUME \A k \in DOMAIN q : ~Tells(q[k], p), p \in N => DeathIn(p, B, C)
        PROVE  (\A k \in DOMAIN r : ~Tells(r[k], p)) /\ (p \in N2 => DeathIn(p, B, C))
    BY <1>1, <2>3, Zenon
  <2> QED
    BY <1>4, <2>1, <2>2, <2>3, Zenon DEF OutsiderAt
<1>5. ASSUME PushAt(p, q, C, N, FALSE, TRUE) PROVE PushAt(p, r, C, N2, FALSE, FALSE)
  <2> SUFFICES ASSUME NEW i \in DOMAIN r, p \in r[i].joined
               PROVE  \/ \E k \in DOMAIN r :
                           /\ k < i /\ Left(r[k], p)
                           /\ \A m \in DOMAIN r : k < m /\ m < i => ~Tells(r[m], p)
                      \/ /\ \A m \in DOMAIN r : m < i => ~Tells(r[m], p)
                         /\ p \in N2 => 1 \in DOMAIN C /\ Died(C[1], p)
    BY Zenon DEF PushAt
  <2>1. i + 1 \in DOMAIN q /\ p \in q[i + 1].joined
    BY <1>1, Zenon
  <2>2. \A m \in DOMAIN r : m < i => 1 < m + 1 /\ m + 1 < i + 1
    BY <1>1, SMT
  <2>3. ASSUME NEW k \in DOMAIN q, k < i + 1, Left(q[k], p), k = 1,
               \A m \in DOMAIN q : k < m /\ m < i + 1 => ~Tells(q[m], p)
        PROVE  (\A m \in DOMAIN r : m < i => ~Tells(r[m], p)) /\ p \notin N2
    BY <1>1, <1>2, <2>2, <2>3, Zenon
  <2>4. ASSUME NEW k \in DOMAIN q, k < i + 1, Left(q[k], p), k # 1,
               \A m \in DOMAIN q : k < m /\ m < i + 1 => ~Tells(q[m], p)
        PROVE  \E h \in DOMAIN r :
                  /\ h < i /\ Left(r[h], p)
                  /\ \A m \in DOMAIN r : h < m /\ m < i => ~Tells(r[m], p)
    <3>1. k - 1 \in DOMAIN r /\ r[k - 1] = q[k]
      BY <1>1, <2>4, Zenon
    <3>2. k - 1 < i /\ \A m \in DOMAIN r : k - 1 < m /\ m < i => k < m + 1 /\ m + 1 < i + 1
      BY <1>1, <2>4, SMT
    <3> QED
      BY <1>1, <2>4, <3>1, <3>2, Zenon
  <2>5. ASSUME \A m \in DOMAIN q : m < i + 1 => ~Tells(q[m], p),
               p \in N => 1 \in DOMAIN C /\ Died(C[1], p)
        PROVE  /\ \A m \in DOMAIN r : m < i => ~Tells(r[m], p)
               /\ p \in N2 => 1 \in DOMAIN C /\ Died(C[1], p)
    <3>1. 1 < i + 1
      BY <1>1, SMT
    <3> QED
      BY <1>1, <2>2, <2>5, <3>1, Zenon
  <2> QED
    BY <1>5, <2>1, <2>3, <2>4, <2>5, ZenonT(40) DEF PushAt
<1> QED
  BY <1>3, <1>4, <1>5, Zenon DEF PairAt

LEMMA ReadGroupAwaits ==
  ASSUME NEW p, NEW M, NEW b, NEW q, NEW B, NEW C, NEW N, NEW r, NEW N2,
         GroupRead(p, M, q, B, N, r, N2)
  PROVE  Awaits(p, b, q, B, C, N) => Awaits(p, b, r, B, C, N2)
<1>1. PICK n \in Nat : /\ DOMAIN q = 1 .. n + 1 /\ DOMAIN r = 1 .. n
                       /\ \A i \in 1 .. n : r[i] = q[i + 1]
  BY Zenon DEF Shrunk, GroupRead
<1>2. 1 \in DOMAIN q
  BY <1>1, SMT
<1>3. \A i \in DOMAIN r : i + 1 \in DOMAIN q /\ r[i] = q[i + 1]
  BY <1>1, SMT
<1> QED
  BY <1>2, <1>3, Zenon DEF Awaits, GroupRead

(* push_node() finds nobody. *)
LEMMA PushFindsNone ==
  ASSUME NEW p, NEW q, NEW C, NEW N, PushAt(p, q, C, N, FALSE, TRUE),
         NEW n \in Nat, DOMAIN q = 1 .. n, 1 \in DOMAIN q, p \in q[1].joined
  PROVE  p \notin N
BY SMT DEF PushAt

-----------------------------------------------------------------------------
(* What each step does to our own place in the group. *)

LEMMA PhaseDeliver ==
  ASSUME NEW s, NEW j, NEW N, NEW M, NEW b, NEW q, NEW on, NEW b2, NEW r, NEW e,
         DOMAIN b = {1}, b[1] = e, e.joined = {}, DOMAIN b2 = {}, Grown(q, r, e),
         PhaseAt(s, j, N, M, b, q, on)
  PROVE  PhaseAt(s, j, N, M, b2, r, on)
<1>1. PICK n \in Nat : /\ DOMAIN q = 1 .. n /\ DOMAIN r = 1 .. n + 1
                       /\ r[n + 1] = e /\ \A i \in 1 .. n : r[i] = q[i]
  BY Zenon DEF Grown
<1>2. /\ \A i \in DOMAIN q : i \in DOMAIN r /\ r[i] = q[i]
      /\ n + 1 \in DOMAIN r
      /\ \A i \in DOMAIN r : i = n + 1 \/ i \in DOMAIN q
  BY <1>1, SMT
<1> QED
  BY <1>1, <1>2, Zenon DEF PhaseAt

LEMMA PhaseOurJoin ==
  ASSUME NEW N, NEW M, NEW b, NEW q, NEW on, NEW r, NEW e, NEW j,
         Grown(q, r, e), e.joined = {Us}, e.left = {},
         PhaseAt("asked", j, N, M, b, q, on)
  PROVE  PhaseAt("in", j, N, M \cup {Us}, b, r, on)
<1>1. PICK n \in Nat : /\ DOMAIN q = 1 .. n /\ DOMAIN r = 1 .. n + 1
                       /\ r[n + 1] = e /\ \A i \in 1 .. n : r[i] = q[i]
  BY Zenon DEF Grown
<1>2. DOMAIN q = {} /\ DOMAIN b = {} /\ ~j /\ N = {} /\ ~on
  BY Zenon DEF PhaseAt
<1>3. n = 0
  BY <1>1, <1>2, SMT
<1>4. DOMAIN r = {1} /\ r[1] = e
  BY <1>1, <1>3, SMT
<1> QED
  BY <1>2, <1>4, Zenon DEF PhaseAt

LEMMA PhasePeerJoin ==
  ASSUME NEW s, NEW j, NEW N, NEW M, NEW b, NEW q, NEW on, NEW r, NEW e, NEW x,
         x # Us, Us \in M, Grown(q, r, e), e.joined = {x}, e.left = {},
         PhaseAt(s, j, N, M, b, q, on)
  PROVE  PhaseAt(s, j, N, M \cup {x}, b, r, on)
<1>1. PICK n \in Nat : /\ DOMAIN q = 1 .. n /\ DOMAIN r = 1 .. n + 1
                       /\ r[n + 1] = e /\ \A i \in 1 .. n : r[i] = q[i]
  BY Zenon DEF Grown
<1>2. /\ \A i \in DOMAIN q : i \in DOMAIN r /\ r[i] = q[i]
      /\ \A i \in DOMAIN r : r[i] = e \/ (i \in DOMAIN q /\ r[i] = q[i])
  BY <1>1, SMT
<1> QED
  BY <1>2, Zenon DEF PhaseAt

(* Members come or go, and we are not among them. *)
PeersGo(M, b, M2, b2) ==
  /\ Us \in M2 <=> Us \in M
  /\ DOMAIN b = {} /\ \A i \in DOMAIN b2 : Us \in M /\ Us \notin b2[i].left

LEMMA PhasePeers ==
  ASSUME NEW s, NEW j, NEW N, NEW M, NEW b, NEW q, NEW on, NEW M2, NEW b2,
         PeersGo(M, b, M2, b2), PhaseAt(s, j, N, M, b, q, on)
  PROVE  PhaseAt(s, j, N, M2, b2, q, on)
BY Zenon DEF PhaseAt, PeersGo

LEMMA PhaseOurLeave ==
  ASSUME NEW j, NEW N, NEW M, NEW b, NEW q, NEW on, NEW M2, NEW b2,
         Us \in M, Us \notin M2, DOMAIN b2 = {1}, Us \in b2[1].left,
         PhaseAt("leaving", j, N, M, b, q, on)
  PROVE  PhaseAt("leaving", j, N, M2, b2, q, on)
BY Zenon DEF PhaseAt

WeRead(s, j, q, on, r, s2, j2, N2, on2) ==
  /\ j2 /\ N2 = q[1].members
  /\ s \in {"none", "asked", "in", "leaving"} /\ ~j
  /\ Shrunk(q, r) /\ EventOK(q[1]) /\ Us \in q[1].joined
  /\ \/ s2 = s
     \/ s2 = "leaving" /\ on2 = on

LEMMA PhaseWeJoin ==
  ASSUME NEW s, NEW j, NEW N, NEW M, NEW b, NEW q, NEW on, NEW r, NEW s2, NEW j2, NEW N2,
         NEW on2,
         WeRead(s, j, q, on, r, s2, j2, N2, on2), PhaseAt(s, j, N, M, b, q, on)
  PROVE  PhaseAt(s2, j2, N2, M, b, r, on2)
<1> USE DEF WeRead
<1>1. /\ 1 \in DOMAIN q
      /\ \A i \in DOMAIN r : i + 1 \in DOMAIN q /\ i + 1 # 1 /\ r[i] = q[i + 1]
  BY Shifted, SMT
<1>2. s = "in" /\ Us \in q[1].members /\ ~on
  BY <1>1, Zenon DEF PhaseAt, EventOK
<1>3. /\ \A i \in DOMAIN r : Us \notin r[i].joined
      /\ \A i \in DOMAIN r : Us \notin r[i].left
  BY <1>1, <1>2, Zenon DEF PhaseAt
<1>4. Us \in M /\ \A i \in DOMAIN b : Us \notin b[i].left
  BY <1>2, Zenon DEF PhaseAt
<1>5. s2 = "in" \/ (s2 = "leaving" /\ ~on2)
  BY <1>2, Zenon
<1>6. s2 \notin {"none", "asked"} /\ (on2 => s2 = "in")
  BY <1>5, Zenon
<1> QED
  BY <1>2, <1>3, <1>4, <1>6, Zenon DEF PhaseAt

PeersRead(s, N, q, r, N2) ==
  /\ s \in {"none", "asked", "in", "leaving"}
  /\ Shrunk(q, r) /\ Us \notin q[1].joined /\ Us \notin q[1].left
  /\ Us \in N => Us \in N2

LEMMA PhaseRead ==
  ASSUME NEW s, NEW j, NEW N, NEW M, NEW b, NEW q, NEW on, NEW r, NEW N2,
         PeersRead(s, N, q, r, N2), PhaseAt(s, j, N, M, b, q, on)
  PROVE  PhaseAt(s, j, N2, M, b, r, on)
<1> USE DEF PeersRead
<1>1. /\ 1 \in DOMAIN q
      /\ \A i \in DOMAIN q : i = 1 \/ (i - 1 \in DOMAIN r /\ r[i - 1] = q[i])
      /\ \A i \in DOMAIN r : i + 1 \in DOMAIN q /\ i + 1 # 1 /\ r[i] = q[i + 1]
  BY Shifted, SMT
<1>2. j
  BY <1>1, Zenon DEF PhaseAt
<1>3. s \notin {"none", "asked"}
  BY <1>1, Zenon DEF PhaseAt
<1>4. /\ \A i \in DOMAIN r : Us \notin r[i].joined
      /\ (\E i \in DOMAIN q : Us \in q[i].left) <=> \E i \in DOMAIN r : Us \in r[i].left
  BY <1>1, <1>2, Zenon DEF PhaseAt
<1> QED
  BY <1>2, <1>3, <1>4, Zenon DEF PhaseAt

LEMMA PhaseDone ==
  ASSUME NEW s, NEW j, NEW N, NEW M, NEW b, NEW q, NEW on,
         1 \in DOMAIN q, Us \in q[1].left, PhaseAt(s, j, N, M, b, q, on)
  PROVE  Us \notin M /\ ~on /\ DOMAIN b = {}
BY Zenon DEF PhaseAt

LEMMA PhaseDown ==
  ASSUME NEW s, NEW j, NEW N, NEW M, NEW b, NEW q, NEW on, NEW D, Us \notin D,
         PhaseAt(s, j, N, M, b, q, on)
  PROVE  PhaseAt(s, j, N \ D, M, b, q, on)
BY Zenon DEF PhaseAt

LEMMA PhaseAsk ==
  ASSUME NEW j, NEW N, NEW M, NEW b, NEW q, NEW on, PhaseAt("none", j, N, M, b, q, on)
  PROVE  PhaseAt("asked", j, N, M, b, q, on)
BY Zenon DEF PhaseAt

LEMMA PhaseGoing ==
  ASSUME NEW j, NEW N, NEW M, NEW b, NEW q, NEW on, j, PhaseAt("in", j, N, M, b, q, on)
  PROVE  PhaseAt("leaving", j, N, M, b, q, FALSE)
BY Zenon DEF PhaseAt

-----------------------------------------------------------------------------
(* What each step does to one connection. *)

LEMMA BusDeliver ==
  ASSUME NEW M, NEW b, NEW q, NEW v, NEW b2, NEW r, NEW e,
         1 \in DOMAIN b, b[1] = e, DOMAIN b2 = {}, Grown(q, r, e), BusAt(M, b, q, v)
  PROVE  BusAt(M, b2, r, v)
<1>1. PICK n \in Nat : /\ DOMAIN q = 1 .. n /\ DOMAIN r = 1 .. n + 1
                       /\ r[n + 1] = e /\ \A i \in 1 .. n : r[i] = q[i]
  BY Zenon DEF Grown
<1>2. /\ 1 \in DOMAIN r
      /\ \A i \in DOMAIN r : r[i] = e \/ (i \in DOMAIN q /\ r[i] = q[i])
  BY <1>1, SMT
<1> QED
  BY <1>2, Zenon DEF BusAt

LEMMA BusJoin ==
  ASSUME NEW M, NEW b, NEW q, NEW v, NEW M2, NEW r, NEW e,
         DOMAIN b = {}, EventOK(e), Grown(q, r, e), BusAt(M, b, q, v)
  PROVE  BusAt(M2, b, r, v)
<1>1. PICK n \in Nat : /\ DOMAIN q = 1 .. n /\ DOMAIN r = 1 .. n + 1
                       /\ r[n + 1] = e /\ \A i \in 1 .. n : r[i] = q[i]
  BY Zenon DEF Grown
<1>2. /\ 1 \in DOMAIN r
      /\ \A i \in DOMAIN r : r[i] = e \/ (i \in DOMAIN q /\ r[i] = q[i])
  BY <1>1, SMT
<1> QED
  BY <1>2, Zenon DEF BusAt

LEMMA BusChange ==
  ASSUME NEW M, NEW b, NEW q, NEW v, NEW M2, NEW b2, DOMAIN b2 \subseteq {1},
         \A i \in DOMAIN b2 :
            EventOK(b2[i]) /\ b2[i].joined = {} /\ b2[i].left \cap M2 = {},
         BusAt(M, b, q, v)
  PROVE  BusAt(M2, b2, q, v)
BY Zenon DEF BusAt

LEMMA BusRead ==
  ASSUME NEW M, NEW b, NEW q, NEW v, NEW r, Shrunk(q, r), BusAt(M, b, q, v)
  PROVE  BusAt(M, b, r, FALSE) /\ EventOK(q[1])
<1>1. PICK n \in Nat : /\ DOMAIN q = 1 .. n + 1 /\ DOMAIN r = 1 .. n
                       /\ \A i \in 1 .. n : r[i] = q[i + 1]
  BY Zenon DEF Shrunk
<1>2. 1 \in DOMAIN q
  BY <1>1, SMT
<1>3. \A i \in DOMAIN r : i + 1 \in DOMAIN q
  BY <1>1, SMT
<1> QED
  BY <1>1, <1>2, <1>3, Zenon DEF BusAt

-----------------------------------------------------------------------------
(* The constants, and what the types give. *)

LEMMA Constants ==
  /\ Ctl \notin Groups /\ Dlm \notin Conns /\ Dlm # Ctl
  /\ Conns = Groups \cup {Ctl} /\ Us \in Nodes /\ Peers = Nodes \ {Us}
BY CpgAssumption DEF Ctl, Dlm, Conns, Peers

LEMMA JoinEvent ==
  ASSUME NEW M \in SUBSET Nodes, NEW n \in Nodes, NEW e,
         e = [members |-> M \cup {n}, joined |-> {n}, left |-> {}, reason |-> "JOIN"]
  PROVE  /\ e \in Events /\ EventOK(e)
         /\ e.members = M \cup {n} /\ e.joined = {n} /\ e.left = {} /\ e.reason = "JOIN"
<1>1. e.members = M \cup {n} /\ e.joined = {n} /\ e.left = {} /\ e.reason = "JOIN"
  OBVIOUS
<1>2. e \in Events
  BY SMT DEF Events
<1> QED
  BY <1>1, <1>2, Zenon DEF EventOK

(* The join of n to M is one more change to read. *)
Reported(M, n, q, r) ==
  \E e \in Events :
    /\ Grown(q, r, e) /\ EventOK(e)
    /\ e.members = M \cup {n} /\ e.joined = {n} /\ e.left = {} /\ e.reason = "JOIN"

(* What CPG orders, connection by connection. *)
LEMMA JoinsDoes ==
  ASSUME TypeOK, NEW c \in Conns, NEW n \in Nodes, Joins(c, n)
  PROVE  /\ members' \in [Conns -> SUBSET Nodes] /\ queue' \in [Conns -> Seq(Events)]
         /\ bus' = bus /\ members'[c] = members[c] \cup {n}
         /\ \A d \in Conns \ {c} : members'[d] = members[d] /\ queue'[d] = queue[d]
         /\ Us \notin members[c] \cup {n} => queue'[c] = queue[c]
         /\ Us \in members[c] \cup {n} => Reported(members[c], n, queue[c], queue'[c])
<1> DEFINE e == [members |-> members[c] \cup {n}, joined |-> {n},
                 left |-> {}, reason |-> "JOIN"]
<1>1. members[c] \in SUBSET Nodes /\ queue[c] \in Seq(Events)
  BY Zenon DEF TypeOK
<1>2. /\ e \in Events /\ EventOK(e)
      /\ e.members = members[c] \cup {n} /\ e.joined = {n}
      /\ e.left = {} /\ e.reason = "JOIN"
  BY <1>1, JoinEvent, Zenon
<1>3. /\ members' = [members EXCEPT ![c] = @ \cup {n}] /\ bus' = bus
      /\ queue' = [queue EXCEPT ![c] =
           IF Us \in members[c] \cup {n} THEN Append(@, e) ELSE @]
  BY Zenon DEF Joins
<1> HIDE DEF e
<1>4. Append(queue[c], e) \in Seq(Events) /\ Grown(queue[c], Append(queue[c], e), e)
  BY <1>1, <1>2, AppendGrows, Zenon
<1>5. members \in [Conns -> SUBSET Nodes] /\ queue \in [Conns -> Seq(Events)]
  BY Zenon DEF TypeOK
<1>6. /\ members' \in [Conns -> SUBSET Nodes] /\ members'[c] = members[c] \cup {n}
      /\ \A d \in Conns \ {c} : members'[d] = members[d]
  BY <1>3, <1>5, SMT
<1>7. /\ queue' \in [Conns -> Seq(Events)]
      /\ \A d \in Conns \ {c} : queue'[d] = queue[d]
      /\ Us \notin members[c] \cup {n} => queue'[c] = queue[c]
      /\ Us \in members[c] \cup {n} => queue'[c] = Append(queue[c], e)
  BY <1>3, <1>4, <1>5, Zenon
<1>8. Us \in members[c] \cup {n} => Reported(members[c], n, queue[c], queue'[c])
  BY <1>2, <1>4, <1>7, Zenon DEF Reported
<1> QED
  BY <1>3, <1>6, <1>7, <1>8, Zenon

(* The change that took D out of M, if b is not empty. *)
Shown(M, D, why, b) ==
  /\ DOMAIN b \subseteq {1}
  /\ \A i \in DOMAIN b : /\ EventOK(b[i]) /\ b[i].joined = {}
                         /\ b[i].left = M \cap D /\ b[i].reason = why

Departs(gs, D, why) ==
  /\ gs \in SUBSET Conns /\ D \in SUBSET Nodes
  /\ why \in {"LEAVE", "NODEDOWN", "PROCDOWN"} /\ (Us \in D => why = "LEAVE")
  /\ Change(gs, D, why)

Departed(gs, D, why) ==
  /\ members' \in [Conns -> SUBSET Nodes] /\ bus' \in [Conns -> Seq(Events)]
  /\ queue' = queue
  /\ \A c \in gs : members'[c] = members[c] \ D
  /\ \A c \in Conns \ gs : members'[c] = members[c] /\ DOMAIN bus'[c] = {}
  /\ \A c \in Conns : Shown(members[c], D, why, bus'[c])
  /\ \A c \in Conns : Us \notin members[c] => DOMAIN bus'[c] = {}
  /\ \A c \in gs : Us \in members[c] /\ members[c] \cap D # {} => DOMAIN bus'[c] = {1}

LEMMA ChangeDoes ==
  ASSUME TypeOK, NEW gs, NEW D, NEW reason, Departs(gs, D, reason)
  PROVE  Departed(gs, D, reason)
<1>20. /\ gs \in SUBSET Conns /\ D \in SUBSET Nodes
       /\ reason \in {"LEAVE", "NODEDOWN", "PROCDOWN"} /\ (Us \in D => reason = "LEAVE")
       /\ Change(gs, D, reason)
  BY Zenon DEF Departs
<1> DEFINE e(c) == [members |-> members[c] \ D, joined |-> {},
                    left |-> members[c] \cap D, reason |-> reason]
<1>1. members \in [Conns -> SUBSET Nodes]
  BY Zenon DEF TypeOK
<1>2. ASSUME NEW c \in Conns
      PROVE  /\ e(c) \in Events /\ EventOK(e(c)) /\ e(c).joined = {}
             /\ e(c).left = members[c] \cap D /\ e(c).reason = reason
  <2>1. members[c] \in SUBSET Nodes
    BY <1>1, Zenon
  <2>2. e(c) = [members |-> members[c] \ D, joined |-> {},
                left |-> members[c] \cap D, reason |-> reason]
    OBVIOUS
  <2>3. e(c).joined = {} /\ e(c).left = members[c] \cap D /\ e(c).reason = reason
    OBVIOUS
  <2>4. reason # "JOIN"
    BY <1>20
  <2>5. e(c) \in Events
    BY <1>20, <2>1, <2>2, SMT DEF Events
  <2> HIDE DEF e
  <2> QED
    BY <1>20, <2>3, <2>4, <2>5, Zenon DEF EventOK
<1>3. /\ members' = [c \in Conns |-> IF c \in gs THEN members[c] \ D ELSE members[c]]
      /\ bus' = [c \in Conns |-> IF c \in gs /\ Us \in members[c] /\ members[c] \cap D # {}
                                 THEN <<e(c)>> ELSE <<>>]
      /\ queue' = queue
  BY <1>20, Zenon DEF Change, Heard
<1> HIDE DEF e
<1>4. ASSUME NEW c \in Conns
      PROVE  /\ <<e(c)>> \in Seq(Events) /\ <<>> \in Seq(Events)
             /\ DOMAIN <<e(c)>> = {1} /\ <<e(c)>>[1] = e(c)
  BY <1>2, OneIn, NothingIn, Zenon
<1>5. /\ members' \in [Conns -> SUBSET Nodes]
      /\ \A c \in gs : members'[c] = members[c] \ D
      /\ \A c \in Conns \ gs : members'[c] = members[c]
  BY <1>1, <1>3, <1>20, SMT
<1>6. bus' \in [Conns -> Seq(Events)]
  BY <1>3, <1>4, Zenon
<1>7. ASSUME NEW c \in Conns
      PROVE  \/ bus'[c] = <<>> /\ ~(c \in gs /\ Us \in members[c] /\ members[c] \cap D # {})
             \/ bus'[c] = <<e(c)>> /\ c \in gs /\ Us \in members[c]
  BY <1>3, Zenon
<1>8. ASSUME NEW c \in Conns
      PROVE  /\ Shown(members[c], D, reason, bus'[c])
             /\ Us \notin members[c] => DOMAIN bus'[c] = {}
  <2>1. CASE bus'[c] = <<>>
    BY <2>1, NothingIn, Zenon DEF Shown
  <2>2. CASE bus'[c] = <<e(c)>> /\ c \in gs /\ Us \in members[c]
    <3>1. DOMAIN bus'[c] = {1} /\ bus'[c][1] = e(c)
      BY <1>4, <2>2, Zenon
    <3> QED
      BY <1>2, <2>2, <3>1, Zenon DEF Shown
  <2> QED
    BY <1>7, <2>1, <2>2, Zenon
<1>9. \A c \in Conns \ gs : DOMAIN bus'[c] = {}
  BY <1>7, NothingIn, Zenon
<1>10. ASSUME NEW c \in gs, Us \in members[c], members[c] \cap D # {}
       PROVE  DOMAIN bus'[c] = {1}
  <2>1. bus'[c] = <<e(c)>>
    BY <1>7, <1>10, <1>20, Zenon
  <2> QED
    BY <1>4, <1>10, <1>20, <2>1, Zenon
<1> QED
  BY <1>3, <1>5, <1>6, <1>8, <1>9, <1>10, Zenon DEF Departed

-----------------------------------------------------------------------------
(* Types. *)

LEMMA QuietDoes ==
  ASSUME TypeOK, Quiet PROVE \A c \in Conns : DOMAIN bus[c] = {}
BY NothingIn, Zenon DEF Quiet

LEMMA DeliverDoes ==
  ASSUME TypeOK, NEW c \in Conns, CpgDeliver(c)
  PROVE  /\ bus' \in [Conns -> Seq(Events)] /\ queue' \in [Conns -> Seq(Events)]
         /\ \A d \in Conns \ {c} : bus'[d] = bus[d] /\ queue'[d] = queue[d]
         /\ 1 \in DOMAIN bus[c] /\ bus[c][1] \in Events /\ DOMAIN bus'[c] = {}
         /\ Grown(queue[c], queue'[c], bus[c][1])
<1>1. /\ bus \in [Conns -> Seq(Events)] /\ queue \in [Conns -> Seq(Events)]
      /\ bus[c] \in Seq(Events) /\ queue[c] \in Seq(Events)
  BY Zenon DEF TypeOK
<1>2. /\ bus[c] # <<>> /\ bus' = [bus EXCEPT ![c] = <<>>]
      /\ queue' = [queue EXCEPT ![c] = Append(@, Head(bus[c]))]
  BY Zenon DEF CpgDeliver
<1>3. Head(bus[c]) = bus[c][1] /\ 1 \in DOMAIN bus[c] /\ bus[c][1] \in Events
  BY <1>1, <1>2, TailShrinks, Zenon
<1>4. /\ Append(queue[c], bus[c][1]) \in Seq(Events)
      /\ Grown(queue[c], Append(queue[c], bus[c][1]), bus[c][1])
  BY <1>1, <1>3, AppendGrows, Zenon
<1>5. /\ queue' \in [Conns -> Seq(Events)] /\ queue'[c] = Append(queue[c], bus[c][1])
      /\ \A d \in Conns \ {c} : queue'[d] = queue[d]
  BY <1>1, <1>2, <1>3, <1>4, Zenon
<1>6. /\ bus' \in [Conns -> Seq(Events)] /\ bus'[c] = <<>>
      /\ \A d \in Conns \ {c} : bus'[d] = bus[d]
  BY <1>1, <1>2, NothingIn, Zenon
<1> QED
  BY <1>3, <1>4, <1>5, <1>6, NothingIn, Zenon

LEMMA ProcessDoes ==
  ASSUME TypeOK, NEW c \in Conns, process_cpg(c)
  PROVE  /\ queue' \in [Conns -> Seq(Events)] /\ members' = members /\ bus' = bus
         /\ \A d \in Conns \ {c} : queue'[d] = queue[d] /\ (d \in revents' <=> d \in revents)
         /\ Shrunk(queue[c], queue'[c]) /\ Head(queue[c]) = queue[c][1]
         /\ 1 \in DOMAIN queue[c] /\ queue[c][1] \in Events
         /\ revents' \subseteq revents /\ c \in revents /\ c \notin revents'
         /\ c # Ctl => Ctl \notin revents
<1>1. queue \in [Conns -> Seq(Events)] /\ queue[c] \in Seq(Events)
  BY Zenon DEF TypeOK
<1>2. /\ queue[c] # <<>> /\ queue' = [queue EXCEPT ![c] = Tail(@)]
      /\ revents' = revents \ {c} /\ members' = members /\ bus' = bus
      /\ c \in revents /\ (c # Ctl => Ctl \notin revents)
  BY Zenon DEF process_cpg, Turn
<1>3. /\ Tail(queue[c]) \in Seq(Events) /\ Shrunk(queue[c], Tail(queue[c]))
      /\ Head(queue[c]) = queue[c][1] /\ 1 \in DOMAIN queue[c] /\ queue[c][1] \in Events
  BY <1>1, <1>2, TailShrinks, Zenon
<1>4. /\ queue' \in [Conns -> Seq(Events)] /\ queue'[c] = Tail(queue[c])
      /\ \A d \in Conns \ {c} : queue'[d] = queue[d]
  BY <1>1, <1>2, <1>3, Zenon
<1> QED
  BY <1>2, <1>3, <1>4, Zenon

LEMMA ListingsDo ==
  ASSUME NEW S, NEW s \in Listings(S)
  PROVE  /\ \A T : S \subseteq T => s \in Seq(T)
         /\ \A x \in S : Has(s, x)
<1>2. PICK n \in 0 .. Cardinality(S) :
        s \in {t \in [1 .. n -> S] : \A x \in S : \E i \in 1 .. n : t[i] = x}
  BY Zenon DEF Listings
<1>3. n \in Nat
  BY SMT
<1>4. s \in [1 .. n -> S] /\ DOMAIN s = 1 .. n /\ \A x \in S : \E i \in 1 .. n : s[i] = x
  BY <1>2, Zenon
<1>6. ASSUME NEW T, S \subseteq T PROVE s \in Seq(T)
  <2>1. s \in [1 .. n -> T]
    BY <1>4, <1>6, Zenon
  <2> QED
    BY <1>3, <2>1, SMT
<1> QED
  BY <1>4, <1>6, Zenon DEF Has

LEMMA ConcatHas ==
  ASSUME NEW T, NEW s \in Seq(T), NEW t \in Seq(T)
  PROVE  /\ s \o t \in Seq(T)
         /\ \A x : Has(s, x) \/ Has(t, x) => Has(s \o t, x)
<1>1. s \o t \in Seq(T)
  BY SMT
<1>2. \A i \in DOMAIN s : i \in DOMAIN (s \o t) /\ (s \o t)[i] = s[i]
  BY SMT
<1>3. \A i \in DOMAIN t : Len(s) + i \in DOMAIN (s \o t) /\ (s \o t)[Len(s) + i] = t[i]
  BY SMT
<1> QED
  BY <1>1, <1>2, <1>3, Zenon DEF Has

LEMMA AppendHas ==
  ASSUME NEW T, NEW s \in Seq(T), NEW e \in T
  PROVE  Append(s, e) \in Seq(T) /\ \A x : Has(Append(s, e), x) <=> Has(s, x) \/ x = e
<1>1. /\ Append(s, e) \in Seq(T) /\ Len(s) + 1 \in DOMAIN Append(s, e)
      /\ Append(s, e)[Len(s) + 1] = e
  BY SMT
<1>2. \A i \in DOMAIN s : i \in DOMAIN Append(s, e) /\ Append(s, e)[i] = s[i]
  BY SMT
<1>3. \A i \in DOMAIN Append(s, e) : i \in DOMAIN s \/ i = Len(s) + 1
  BY SMT
<1> QED
  BY <1>1, <1>2, <1>3, Zenon DEF Has

LEMMA TailHas ==
  ASSUME NEW T, NEW s \in Seq(T), s # <<>>
  PROVE  /\ Tail(s) \in Seq(T) /\ Head(s) \in T
         /\ \A x : Has(s, x) <=> Has(Tail(s), x) \/ x = Head(s)
<1>1. /\ Tail(s) \in Seq(T) /\ Head(s) \in T /\ 1 \in DOMAIN s /\ Head(s) = s[1]
  BY SMT
<1>2. \A i \in DOMAIN Tail(s) : i + 1 \in DOMAIN s /\ Tail(s)[i] = s[i + 1]
  BY SMT
<1>3. \A i \in DOMAIN s : i = 1 \/ (i - 1 \in DOMAIN Tail(s) /\ Tail(s)[i - 1] = s[i])
  BY SMT
<1>4. ASSUME NEW x, Has(Tail(s), x) PROVE Has(s, x)
  BY <1>2, <1>4, Zenon DEF Has
<1>5. ASSUME NEW x, Has(s, x) PROVE Has(Tail(s), x) \/ x = s[1]
  BY <1>3, <1>5, Zenon DEF Has
<1>6. Has(s, s[1])
  BY <1>1, Zenon DEF Has
<1> QED
  BY <1>1, <1>4, <1>5, <1>6, Zenon

(* daemon_change(), group by group. *)
LEMMA DownDoes ==
  ASSUME TypeOK, DaemonChange, EventOK(queue[Ctl][1]), Us \notin queue[Ctl][1].left
  PROVE  /\ cg' \in [Groups -> Cgroups]
         /\ df' \in [Groups -> [on : BOOLEAN, notifications : SUBSET Peers]]
         /\ requests' \in Seq(Groups \X Peers)
         /\ \A g \in Groups :
              /\ cg'[g].cpg_state = cg[g].cpg_state /\ cg'[g].cg_joined = cg[g].cg_joined
              /\ cg'[g].cg_nodes = cg[g].cg_nodes \ Dead(queue[Ctl][1])
         /\ \A g \in Groups :
              /\ df'[g].on = df[g].on
              /\ df[g].notifications \subseteq df'[g].notifications
         /\ \A g \in Groups, p \in Peers :
              df[g].on /\ p \in Dead(queue[Ctl][1]) /\ p \in cg[g].cg_nodes =>
                /\ p \in df'[g].notifications
                /\ Has(requests', <<g, p>>)
         /\ \A x : Has(requests, x) => Has(requests', x)
<1> DEFINE e == queue[Ctl][1]
           D == handle_node_down(e)
           told == {t \in Groups \X Peers : df[t[1]].on /\ t[2] \in D \cap cg[t[1]].cg_nodes}
<1>1. Ctl \in Conns
  BY Constants, Zenon
<1>2. Head(queue[Ctl]) = e /\ e \in Events
  BY <1>1, ProcessDoes, Zenon DEF DaemonChange
<1>3. /\ cg' = [g \in Groups |-> [cg[g] EXCEPT !.cg_nodes = @ \ D]]
      /\ df' = [g \in Groups |-> [df[g] EXCEPT !.notifications =
                   @ \cup {p \in Peers : <<g, p>> \in told}]]
      /\ \E sent \in Listings(told) : requests' = requests \o sent
  BY <1>2, Zenon DEF DaemonChange
<1>4. D = Dead(e)
  <2>1. e.left \in SUBSET Nodes /\ e.reason \in {"JOIN", "LEAVE", "NODEDOWN", "PROCDOWN"}
    BY <1>2 DEF Events
  <2>2. ASSUME NEW p \in Nodes PROVE p \in D <=> Died(e, p)
    <3>1. CASE e.reason \in {"NODEDOWN", "PROCDOWN"}
      <4>1. e.reason # "LEAVE"
        BY <3>1
      <4> QED
        BY <3>1, <4>1, Zenon DEF handle_node_down, Died
    <3>2. CASE e.reason = "LEAVE"
      <4>1. e.reason \notin {"NODEDOWN", "PROCDOWN"}
        BY <3>2
      <4> QED
        BY <3>2, <4>1, Zenon DEF handle_node_down, Died
    <3>3. CASE e.reason = "JOIN"
      <4>1. e.reason \notin {"NODEDOWN", "PROCDOWN"}
        BY <3>3
      <4>2. e.left = {}
        BY <3>3, Zenon DEF EventOK
      <4> QED
        BY <4>1, <4>2, Zenon DEF handle_node_down, Died
    <3> QED
      BY <2>1, <3>1, <3>2, <3>3, Zenon
  <2>3. D \subseteq e.left
    BY Zenon DEF handle_node_down
  <2> QED
    BY <2>1, <2>2, <2>3, Zenon DEF Dead
<1> HIDE DEF D, e
<1>5. told \subseteq Groups \X Peers
  BY Zenon
<1>6. PICK sent : /\ requests' = requests \o sent /\ sent \in Seq(Groups \X Peers)
                  /\ \A x \in told : Has(sent, x)
  <2> HIDE DEF told
  <2>1. PICK sent \in Listings(told) : requests' = requests \o sent
    BY <1>3, Zenon
  <2>2. sent \in Seq(Groups \X Peers)
    BY <1>5, <2>1, ListingsDo, Zenon
  <2>3. \A x \in told : Has(sent, x)
    BY <2>1, ListingsDo, Zenon
  <2> QED
    BY <2>1, <2>2, <2>3, Zenon
<1>7. requests \in Seq(Groups \X Peers)
  BY Zenon DEF TypeOK
<1>8. requests' \in Seq(Groups \X Peers) /\ \A x : Has(requests, x) \/ Has(sent, x) => Has(requests', x)
  <2> HIDE DEF told
  <2> QED
    BY <1>6, <1>7, ConcatHas, Zenon
<1>9. \A g \in Groups, p \in Peers : df[g].on /\ p \in D /\ p \in cg[g].cg_nodes => <<g, p>> \in told
  BY SMT
<1>10. \A x \in told : Has(requests', x)
  <2> HIDE DEF told
  <2> QED
    BY <1>6, <1>8, Zenon
<1> HIDE DEF told
<1>11. ASSUME NEW g \in Groups
       PROVE  /\ cg'[g] \in Cgroups
              /\ cg'[g].cpg_state = cg[g].cpg_state /\ cg'[g].cg_joined = cg[g].cg_joined
              /\ cg'[g].cg_nodes = cg[g].cg_nodes \ D
  <2>1. cg[g] \in Cgroups
    BY Zenon DEF TypeOK
  <2>2. cg'[g] = [cg[g] EXCEPT !.cg_nodes = @ \ D]
    BY <1>3, Zenon
  <2> QED
    BY <2>1, <2>2, SMT DEF Cgroups
<1>12. ASSUME NEW g \in Groups
       PROVE  /\ df'[g] \in [on : BOOLEAN, notifications : SUBSET Peers]
              /\ df'[g].on = df[g].on
              /\ df'[g].notifications = df[g].notifications \cup {p \in Peers : <<g, p>> \in told}
  <2>1. df[g] \in [on : BOOLEAN, notifications : SUBSET Peers]
    BY Zenon DEF TypeOK
  <2>2. df'[g] = [df[g] EXCEPT !.notifications = @ \cup {p \in Peers : <<g, p>> \in told}]
    BY <1>3, Zenon
  <2> QED
    BY <2>1, <2>2, Zenon
<1>13. cg' \in [Groups -> Cgroups]
  BY <1>3, <1>11, Zenon
<1>14. df' \in [Groups -> [on : BOOLEAN, notifications : SUBSET Peers]]
  BY <1>3, <1>12, Zenon
<1>15. ASSUME NEW g \in Groups, NEW p \in Peers, df[g].on, p \in D, p \in cg[g].cg_nodes
       PROVE  /\ p \in df'[g].notifications
              /\ Has(requests', <<g, p>>)
  BY <1>9, <1>10, <1>12, <1>15, Zenon
<1>16. /\ \A g \in Groups :
             /\ cg'[g].cpg_state = cg[g].cpg_state /\ cg'[g].cg_joined = cg[g].cg_joined
             /\ cg'[g].cg_nodes = cg[g].cg_nodes \ Dead(e)
       /\ \A g \in Groups :
             /\ df'[g].on = df[g].on
             /\ df[g].notifications \subseteq df'[g].notifications
       /\ \A g \in Groups, p \in Peers :
             df[g].on /\ p \in Dead(e) /\ p \in cg[g].cg_nodes =>
               /\ p \in df'[g].notifications
               /\ Has(requests', <<g, p>>)
  BY <1>4, <1>11, <1>12, <1>15, Zenon
<1> QED
  BY <1>8, <1>13, <1>14, <1>16, Zenon DEF e

(* The answers and the notifications are of a group and a peer. *)
LEMMA AnswerDoes ==
  ASSUME TypeOK, DlmAnswer
  PROVE  \E g \in Groups, p \in Peers :
           /\ requests' \in Seq(Groups \X Peers)
           /\ results' \in Seq(Groups \X Peers \X BOOLEAN)
           /\ \A x : Has(requests, x) <=> Has(requests', x) \/ x = <<g, p>>
           /\ \A x : Has(results', x) <=>
                       Has(results, x) \/ x = <<g, p, dlm[g][p] \in {"wait", "out"}>>
           /\ dlm' = [dlm EXCEPT ![g][p] = IF @ = "wait" THEN "out" ELSE @]
<1> DEFINE T == Groups \X Peers
           U == Groups \X Peers \X BOOLEAN
<1>1. requests \in Seq(T) /\ requests # <<>> /\ results \in Seq(U)
  BY Zenon DEF TypeOK, DlmAnswer
<1>2. /\ Tail(requests) \in Seq(T) /\ Head(requests) \in T
      /\ \A x : Has(requests, x) <=> Has(Tail(requests), x) \/ x = Head(requests)
  <2> HIDE DEF T
  <2> QED
    BY <1>1, TailHas, Zenon
<1>3. PICK g \in Groups, p \in Peers : Head(requests) = <<g, p>>
  BY <1>2, SMT
<1>4. Head(requests)[1] = g /\ Head(requests)[2] = p
  BY <1>3
<1> DEFINE ok == dlm[g][p] \in {"wait", "out"}
           a == <<g, p, ok>>
<1>5. /\ results' = Append(results, a)
      /\ dlm' = [dlm EXCEPT ![g][p] = IF @ = "wait" THEN "out" ELSE @]
      /\ requests' = Tail(requests)
  BY <1>4, Zenon DEF DlmAnswer
<1>6. a \in U
  <2>1. ok \in BOOLEAN
    BY SMT
  <2> HIDE DEF ok
  <2> QED
    BY <2>1, SMT
<1>7. results' \in Seq(U) /\ \A x : Has(results', x) <=> Has(results, x) \/ x = a
  <2> HIDE DEF T, U, a
  <2> QED
    BY <1>1, <1>5, <1>6, AppendHas, Zenon
<1> QED
  BY <1>2, <1>3, <1>5, <1>7, Zenon

Answered(g, p, ok) ==
  /\ requests' \in Seq(Groups \X Peers)
  /\ results' \in Seq(Groups \X Peers \X BOOLEAN)
  /\ df' \in [Groups -> [on : BOOLEAN, notifications : SUBSET Peers]]
  /\ \A x : Has(results, x) <=> Has(results', x) \/ x = <<g, p, ok>>
  /\ \A x : Has(requests, x) => Has(requests', x)
  /\ find_notification(g, p) /\ ~ok => Has(requests', <<g, p>>)
  /\ \A h \in Groups :
       /\ df'[h].on = df[h].on
       /\ \A x \in Peers : x \in df[h].notifications =>
            x \in df'[h].notifications \/ (h = g /\ x = p /\ ok)

LEMMA ResultDoes ==
  ASSUME TypeOK, NotifyResult
  PROVE  \E g \in Groups, p \in Peers, ok \in BOOLEAN : Answered(g, p, ok)
<1> DEFINE T == Groups \X Peers
           U == Groups \X Peers \X BOOLEAN
<1>1. requests \in Seq(T) /\ results # <<>> /\ results \in Seq(U)
  BY Zenon DEF TypeOK, NotifyResult
<1>2. /\ Tail(results) \in Seq(U) /\ Head(results) \in U
      /\ \A x : Has(results, x) <=> Has(Tail(results), x) \/ x = Head(results)
  <2> HIDE DEF U
  <2> QED
    BY <1>1, TailHas, Zenon
<1>3. PICK g \in Groups, p \in Peers, ok \in BOOLEAN : Head(results) = <<g, p, ok>>
  BY <1>2, SMT
<1>4. Head(results)[1] = g /\ Head(results)[2] = p /\ Head(results)[3] = ok
  BY <1>3
<1>5. /\ results' = Tail(results)
      /\ df' = IF find_notification(g, p) /\ ok
               THEN [df EXCEPT ![g].notifications = @ \ {p}] ELSE df
      /\ requests' = IF find_notification(g, p) /\ ~ok
                     THEN Append(requests, <<g, p>>) ELSE requests
  BY <1>4, Zenon DEF NotifyResult
<1>6. /\ Append(requests, <<g, p>>) \in Seq(T)
      /\ \A x : Has(Append(requests, <<g, p>>), x) <=> Has(requests, x) \/ x = <<g, p>>
  <2>1. <<g, p>> \in T
    BY Zenon
  <2> HIDE DEF T
  <2> QED
    BY <1>1, <2>1, AppendHas, Zenon
<1>7. /\ requests' \in Seq(T)
      /\ \A x : Has(requests, x) => Has(requests', x)
      /\ find_notification(g, p) /\ ~ok => Has(requests', <<g, p>>)
  BY <1>1, <1>5, <1>6, Zenon
<1>8. df \in [Groups -> [on : BOOLEAN, notifications : SUBSET Peers]]
  BY Zenon DEF TypeOK
<1>9. /\ df' \in [Groups -> [on : BOOLEAN, notifications : SUBSET Peers]]
      /\ \A h \in Groups :
           /\ df'[h].on = df[h].on
           /\ \A x \in Peers : x \in df[h].notifications =>
                x \in df'[h].notifications \/ (h = g /\ x = p /\ ok)
  <2>1. CASE find_notification(g, p) /\ ok
    <3>1. df' = [df EXCEPT ![g].notifications = @ \ {p}]
      BY <1>5, <2>1, Zenon
    <3> QED
      BY <1>8, <2>1, <3>1, SMT
  <2>2. CASE ~(find_notification(g, p) /\ ok)
    BY <1>5, <1>8, <2>2, Zenon
  <2> QED
    BY <2>1, <2>2, Zenon
<1>10. \A x : Has(results, x) <=> Has(results', x) \/ x = <<g, p, ok>>
  BY <1>2, <1>3, <1>5, Zenon
<1>11. results' \in Seq(U)
  BY <1>2, <1>5, Zenon
<1>12. Answered(g, p, ok)
  BY <1>7, <1>9, <1>10, <1>11, Zenon DEF Answered
<1> QED
  BY <1>12, SMT

-----------------------------------------------------------------------------
(* One lemma for each action of the cluster. *)

LEMMA InvSays ==
  ASSUME CpgInv, Up
  PROVE  /\ TypeOK /\ CtlOK
         /\ \A c \in Conns : BusOK(c)
         /\ \A g \in Groups : PhaseOK(g)
         /\ \A g \in Groups, p \in Peers : NodeOK(g, p)
         /\ \A g \in Groups, p \in Peers : DlmOK(g, p)
BY Zenon DEF CpgInv

(* The next state's facts, put together. *)
LEMMA InvNext ==
  ASSUME TypeOK', daemon' = daemon, Up, CtlOK',
         \A c \in Conns : BusOK(c)',
         \A g \in Groups : PhaseOK(g)',
         \A g \in Groups, p \in Peers : NodeOK(g, p)',
         \A g \in Groups, p \in Peers : DlmOK(g, p)'
  PROVE  CpgInv'
<1>1. daemon' # "lost"
  BY Zenon DEF Up
<1> QED
  BY <1>1, Zenon DEF CpgInv

(* What CPG or dlm_controld of this group did not touch. *)
LEMMA DlmFrame ==
  ASSUME NEW g, NEW p, DlmOK(g, p),
         dlm' = dlm, df' = df, requests' = requests, results' = results,
         p \in members[g] => p \in members'[g],
         Awaits(p, bus[g], queue[g], bus[Ctl], queue[Ctl], cg[g].cg_nodes)
           => Awaits(p, bus[g], queue[g], bus[Ctl], queue[Ctl], cg[g].cg_nodes)'
  PROVE  DlmOK(g, p)'
BY Zenon DEF DlmOK

LEMMA CpgDeliverStep ==
  ASSUME CpgInv, Up, NEW c \in Conns, CpgDeliver(c)
  PROVE  CpgInv'
<1>1. /\ TypeOK /\ CtlOK
      /\ \A d \in Conns : BusOK(d)
      /\ \A g \in Groups : PhaseOK(g)
      /\ \A g \in Groups, p \in Peers : NodeOK(g, p)
      /\ \A g \in Groups, p \in Peers : DlmOK(g, p)
  BY InvSays, Zenon
<1>2. /\ daemon' = daemon /\ members' = members /\ revents' = revents /\ cg' = cg /\ df' = df
      /\ requests' = requests /\ results' = results /\ dlm' = dlm
  BY Zenon DEF CpgDeliver, dlmVars
<1>3. /\ bus' \in [Conns -> Seq(Events)] /\ queue' \in [Conns -> Seq(Events)]
      /\ \A d \in Conns \ {c} : bus'[d] = bus[d] /\ queue'[d] = queue[d]
      /\ 1 \in DOMAIN bus[c] /\ DOMAIN bus'[c] = {}
      /\ Grown(queue[c], queue'[c], bus[c][1])
  BY <1>1, DeliverDoes, Zenon
<1>4. Ctl \in Conns /\ Groups \subseteq Conns /\ Ctl \notin Groups
  BY Constants, Zenon
<1>5. TypeOK'
  BY <1>1, <1>2, <1>3, Zenon DEF TypeOK
<1>6. DOMAIN bus[c] = {1} /\ EventOK(bus[c][1]) /\ bus[c][1].joined = {}
      /\ bus[c][1].left \cap members[c] = {}
  BY <1>1, <1>3, Zenon DEF BusOK, BusAt
<1>7. CtlOK'
  <2>1. \A i \in DOMAIN bus'[Ctl] : Us \notin bus'[Ctl][i].left
    BY <1>1, <1>3, <1>4, Zenon DEF CtlOK
  <2>2. \A i \in DOMAIN queue'[Ctl] : Us \notin queue'[Ctl][i].left
    <3>1. CASE c = Ctl
      <4>1. \A i \in DOMAIN queue'[c] : queue'[c][i] = bus[c][1] \/
                                         (i \in DOMAIN queue[c] /\ queue'[c][i] = queue[c][i])
        BY <1>3, SMT DEF Grown
      <4> QED
        BY <1>1, <1>3, <3>1, <4>1, Zenon DEF CtlOK
    <3>2. CASE c # Ctl
      BY <1>1, <1>3, <1>4, <3>2, Zenon DEF CtlOK
    <3> QED
      BY <3>1, <3>2, Zenon
  <2> QED
    BY <1>1, <1>2, <2>1, <2>2, Zenon DEF CtlOK
<1>8. ASSUME NEW d \in Conns PROVE BusOK(d)'
  <2>1. BusAt(members[d], bus[d], queue[d], d \in revents)
    BY <1>1, Zenon DEF BusOK
  <2>2. CASE d = c
    <3>1. BusAt(members[c], bus'[c], queue'[c], c \in revents)
      BY <1>3, <2>1, <2>2, BusDeliver, Zenon
    <3> QED
      BY <1>2, <2>2, <3>1, SMT DEF BusOK
  <2>3. CASE d # c
    BY <1>2, <1>3, <2>1, <2>3, Zenon DEF BusOK
  <2> QED
    BY <2>2, <2>3, Zenon
<1>9. ASSUME NEW g \in Groups PROVE PhaseOK(g)'
  <2>1. PhaseAt(cg[g].cpg_state, cg[g].cg_joined, cg[g].cg_nodes,
                members[g], bus[g], queue[g], df[g].on)
    BY <1>1, Zenon DEF PhaseOK
  <2>2. CASE g = c
    <3>1. PhaseAt(cg[c].cpg_state, cg[c].cg_joined, cg[c].cg_nodes,
                  members[c], bus'[c], queue'[c], df[c].on)
      BY <1>3, <1>6, <2>1, <2>2, PhaseDeliver, Zenon
    <3> QED
      BY <1>2, <2>2, <3>1, SMT DEF PhaseOK
  <2>3. CASE g # c
    BY <1>2, <1>3, <1>4, <2>1, <2>3, Zenon DEF PhaseOK
  <2> QED
    BY <2>2, <2>3, Zenon
<1>10. ASSUME NEW g \in Groups, NEW p \in Peers
       PROVE  /\ NodeOK(g, p)'
              /\ Awaits(p, bus[g], queue[g], bus[Ctl], queue[Ctl], cg[g].cg_nodes)
                   => Awaits(p, bus[g], queue[g], bus[Ctl], queue[Ctl], cg[g].cg_nodes)'
  <2>1. PairAt(p, members[g], bus[g], queue[g], bus[Ctl], queue[Ctl],
               cg[g].cg_nodes, Ctl \in revents, g \in revents)
    BY <1>1, Zenon DEF NodeOK
  <2>2. CASE g = c
    <3>1. bus'[Ctl] = bus[Ctl] /\ queue'[Ctl] = queue[Ctl]
      BY <1>3, <1>4, <2>2, Zenon
    <3>2. GroupNews(members[c], bus[c], queue[c], bus'[c], queue'[c])
      BY <1>3, <1>6, Zenon DEF GroupNews
    <3>4. PairAt(p, members[c], bus[c], queue[c], bus[Ctl], queue[Ctl],
               cg[c].cg_nodes, Ctl \in revents, c \in revents)
      BY <2>1, <2>2, Zenon
    <3>3. PairAt(p, members[c], bus'[c], queue'[c], bus[Ctl], queue[Ctl],
                 cg[c].cg_nodes, Ctl \in revents, c \in revents)
      BY <3>2, <3>4, DeliverGroup, Zenon
    <3>5. Awaits(p, bus[c], queue[c], bus[Ctl], queue[Ctl], cg[c].cg_nodes)
            => Awaits(p, bus'[c], queue'[c], bus[Ctl], queue[Ctl], cg[c].cg_nodes)
      BY <3>2, DeliverGroupAwaits, Zenon
    <3> QED
      BY <1>2, <2>2, <3>1, <3>3, <3>5, SMT DEF NodeOK
  <2>3. CASE c = Ctl
    <3>1. bus'[g] = bus[g] /\ queue'[g] = queue[g]
      BY <1>3, <1>4, <2>3, Zenon
    <3>3. p \in members[g] => ~Died(bus[Ctl][1], p)
      BY <1>1, <1>6, <2>3, Constants, Zenon DEF CtlOK, Died
    <3>2. CtlNews(p, members[g], bus[Ctl], queue[Ctl], bus'[Ctl], queue'[Ctl], bus[Ctl][1])
      BY <1>3, <1>6, <2>3, <3>3, Zenon DEF CtlNews
    <3>4. PairAt(p, members[g], bus[g], queue[g], bus'[Ctl], queue'[Ctl],
                 cg[g].cg_nodes, Ctl \in revents, g \in revents)
      BY <2>1, <3>2, DeliverCtl, Zenon
    <3>5. Awaits(p, bus[g], queue[g], bus[Ctl], queue[Ctl], cg[g].cg_nodes)
            => Awaits(p, bus[g], queue[g], bus'[Ctl], queue'[Ctl], cg[g].cg_nodes)
      BY <3>2, DeliverCtlAwaits, Zenon
    <3> QED
      BY <1>2, <3>1, <3>4, <3>5, SMT DEF NodeOK
  <2>4. CASE c # Ctl /\ c # g
    <3>1. bus'[g] = bus[g] /\ queue'[g] = queue[g] /\ bus'[Ctl] = bus[Ctl] /\ queue'[Ctl] = queue[Ctl]
      BY <1>3, <1>4, <2>4, Zenon
    <3> QED
      BY <1>2, <2>1, <3>1, SMT DEF NodeOK
  <2> QED
    BY <2>2, <2>3, <2>4, Zenon
<1>11. ASSUME NEW g \in Groups, NEW p \in Peers PROVE DlmOK(g, p)'
  BY <1>1, <1>2, <1>10, DlmFrame, Zenon
<1> QED
  BY <1>2, <1>5, <1>7, <1>8, <1>9, <1>10, <1>11, InvNext, Zenon

(* What a step leaves alone. *)
LEMMA BusFrame ==
  ASSUME NEW c, BusOK(c), members'[c] = members[c], bus'[c] = bus[c],
         queue'[c] = queue[c], revents' = revents
  PROVE  BusOK(c)'
BY SMT DEF BusOK

LEMMA PhaseFrame ==
  ASSUME NEW g, PhaseOK(g), members'[g] = members[g], bus'[g] = bus[g],
         queue'[g] = queue[g], cg'[g] = cg[g], df'[g].on = df[g].on
  PROVE  PhaseOK(g)'
BY SMT DEF PhaseOK

LEMMA NodeFrame ==
  ASSUME NEW g, NEW p, NodeOK(g, p), members'[g] = members[g], bus'[g] = bus[g],
         queue'[g] = queue[g], cg'[g].cg_nodes = cg[g].cg_nodes,
         bus'[Ctl] = bus[Ctl], queue'[Ctl] = queue[Ctl], revents' = revents
  PROVE  /\ NodeOK(g, p)'
         /\ Awaits(p, bus[g], queue[g], bus[Ctl], queue[Ctl], cg[g].cg_nodes)
              => Awaits(p, bus[g], queue[g], bus[Ctl], queue[Ctl], cg[g].cg_nodes)'
BY SMT DEF NodeOK

LEMMA ChangeBus ==
  ASSUME NEW c, NEW D, NEW why, BusOK(c), Shown(members[c], D, why, bus'[c]),
         members'[c] \subseteq members[c] \ D \/ DOMAIN bus'[c] = {},
         queue' = queue, revents' = revents
  PROVE  BusOK(c)'
<1>1. BusAt(members[c], bus[c], queue[c], c \in revents)
  BY Zenon DEF BusOK
<1>2. DOMAIN bus'[c] \subseteq {1}
  BY Zenon DEF Shown
<1>3. ASSUME NEW i \in DOMAIN bus'[c]
      PROVE  /\ EventOK(bus'[c][i]) /\ bus'[c][i].joined = {}
             /\ bus'[c][i].left \cap members'[c] = {}
  <2>1. /\ EventOK(bus'[c][i]) /\ bus'[c][i].joined = {} /\ bus'[c][i].left = members[c] \cap D
        /\ members'[c] \subseteq members[c] \ D
    BY <1>3, Zenon DEF Shown
  <2> QED
    BY <2>1, Zenon
<1>4. BusAt(members'[c], bus'[c], queue[c], c \in revents)
  BY <1>1, <1>2, <1>3, BusChange, Zenon
<1> QED
  BY <1>4, Zenon DEF BusOK

LEMMA OrdersJoinStep ==
  ASSUME CpgInv, Up, ~DeathBehind, NEW h \in Groups, CpgOrdersJoin(h)
  PROVE  CpgInv'
<1>1. /\ TypeOK /\ CtlOK
      /\ \A d \in Conns : BusOK(d)
      /\ \A g \in Groups : PhaseOK(g)
      /\ \A g \in Groups, p \in Peers : NodeOK(g, p)
      /\ \A g \in Groups, p \in Peers : DlmOK(g, p)
  BY InvSays, Zenon
<1>2. /\ daemon' = daemon /\ revents' = revents /\ df' = df
      /\ requests' = requests /\ results' = results /\ dlm' = dlm
      /\ cg[h].cpg_state = "asked" /\ cg' = [cg EXCEPT ![h].cpg_state = "in"]
      /\ Joins(h, Us)
  BY Zenon DEF CpgOrdersJoin, dlmVars
<1>3. /\ Ctl \in Conns /\ h \in Conns /\ Groups \subseteq Conns /\ h # Ctl
      /\ Us \in Nodes /\ Ctl \notin Groups
  BY Constants, Zenon
<1>4. /\ members' \in [Conns -> SUBSET Nodes] /\ queue' \in [Conns -> Seq(Events)]
      /\ bus' = bus /\ members'[h] = members[h] \cup {Us}
      /\ \A d \in Conns \ {h} : members'[d] = members[d] /\ queue'[d] = queue[d]
  BY <1>1, <1>2, <1>3, JoinsDoes, Zenon
<1>5. PICK e \in Events :
        /\ Grown(queue[h], queue'[h], e) /\ EventOK(e)
        /\ e.members = members[h] \cup {Us} /\ e.joined = {Us} /\ e.left = {}
  <2>1. Us \in members[h] \cup {Us}
    OBVIOUS
  <2>2. Reported(members[h], Us, queue[h], queue'[h])
    BY <1>1, <1>2, <1>3, <2>1, JoinsDoes, Zenon
  <2> QED
    BY <2>2, Zenon DEF Reported
<1>6. /\ cg' \in [Groups -> Cgroups] /\ cg'[h].cpg_state = "in"
      /\ cg'[h].cg_joined = cg[h].cg_joined /\ cg'[h].cg_nodes = cg[h].cg_nodes
      /\ \A g \in Groups : g # h => cg'[g] = cg[g]
  <2>1. cg \in [Groups -> Cgroups]
    BY <1>1, Zenon DEF TypeOK
  <2> QED
    BY <1>2, <2>1, SMT DEF Cgroups
<1>7. TypeOK'
  BY <1>1, <1>2, <1>4, <1>6, Zenon DEF TypeOK
<1>15. /\ members'[h] = members[h] \cup {Us} /\ bus'[h] = bus[h] /\ bus'[Ctl] = bus[Ctl]
       /\ queue'[Ctl] = queue[Ctl] /\ revents' = revents /\ df'[h].on = df[h].on
  BY <1>2, <1>3, <1>4, Zenon
<1>16. /\ cg'[h].cpg_state = "in" /\ cg'[h].cg_joined = cg[h].cg_joined
       /\ cg'[h].cg_nodes = cg[h].cg_nodes
  BY <1>6, Zenon
<1>8. PhaseAt("asked", cg[h].cg_joined, cg[h].cg_nodes, members[h], bus[h], queue[h], df[h].on)
  BY <1>1, <1>2, Zenon DEF PhaseOK
<1>9. DOMAIN queue[h] = {} /\ DOMAIN bus[h] = {} /\ cg[h].cg_nodes = {} /\ h \notin revents
  BY <1>1, <1>3, <1>8, Zenon DEF PhaseAt, BusOK, BusAt
<1>17. ASSUME NEW p \in Peers, p \in members[h] PROVE ~Behind(p)
  <2>1. Us \notin members[h]
    BY <1>8, Zenon DEF PhaseAt
  <2>2. Us \in {p, Us} \cap (members'[h] \ members[h]) /\ p \in members'[h]
    BY <1>15, <1>17, <2>1, Zenon
  <2> QED
    BY <1>17, <2>2, Zenon DEF DeathBehind
<1>10. CtlOK'
  <2>1. \A g \in Groups : members'[g] \subseteq members'[Ctl] \cup {Us}
    BY <1>1, <1>3, <1>4, Zenon DEF CtlOK
  <2> QED
    BY <1>1, <1>3, <1>4, <2>1, Zenon DEF CtlOK
<1>11. ASSUME NEW d \in Conns PROVE BusOK(d)'
  <2>1. CASE d = h
    <3>1. BusAt(members[h], bus[h], queue[h], h \in revents)
      BY <1>1, <1>3, Zenon DEF BusOK
    <3>2. BusAt(members'[h], bus[h], queue'[h], h \in revents)
      BY <1>5, <1>9, <3>1, BusJoin, Zenon
    <3> QED
      BY <1>15, <2>1, <3>2, Zenon DEF BusOK
  <2>2. CASE d # h
    BY <1>1, <1>2, <1>4, <2>2, BusFrame, Zenon
  <2> QED
    BY <2>1, <2>2, Zenon
<1>12. ASSUME NEW g \in Groups PROVE PhaseOK(g)'
  <2>1. CASE g = h
    <3>1. PhaseAt("in", cg[h].cg_joined, cg[h].cg_nodes, members[h] \cup {Us}, bus[h],
                  queue'[h], df[h].on)
      BY <1>5, <1>8, PhaseOurJoin, Zenon
    <3> QED
      BY <1>15, <1>16, <2>1, <3>1, SMT DEF PhaseOK
  <2>2. CASE g # h
    BY <1>1, <1>2, <1>3, <1>4, <1>6, <2>2, PhaseFrame, Zenon
  <2> QED
    BY <2>1, <2>2, Zenon
<1>13. ASSUME NEW g \in Groups, NEW p \in Peers
       PROVE  /\ NodeOK(g, p)'
              /\ Awaits(p, bus[g], queue[g], bus[Ctl], queue[Ctl], cg[g].cg_nodes)
                   => Awaits(p, bus[g], queue[g], bus[Ctl], queue[Ctl], cg[g].cg_nodes)'
  <2>1. CASE g = h
    <3>1. p \in members[h] => \A j \in DOMAIN queue[Ctl] : Died(queue[Ctl][j], p) => j = 1
      <4>1. ASSUME p \in members[h], NEW j \in DOMAIN queue[Ctl], Died(queue[Ctl][j], p)
            PROVE  j = 1
        <5>1. ~(j > 1)
          BY <1>17, <4>1, Zenon DEF Behind, Died
        <5>2. queue[Ctl] \in Seq(Events)
          BY <1>1, <1>3, Zenon DEF TypeOK
        <5> QED
          BY <4>1, <5>1, <5>2, SMT
      <4> QED
        BY <4>1, Zenon
    <3>2. OurJoins(p, members[h], queue[h], queue[Ctl], cg[h].cg_nodes, h \in revents,
                   queue'[h], e)
      BY <1>5, <1>9, <3>1, Constants, Zenon DEF OurJoins
    <3>3. PairAt(p, members[h] \cup {Us}, bus[h], queue'[h], bus[Ctl], queue[Ctl],
                 cg[h].cg_nodes, Ctl \in revents, h \in revents)
      BY <3>2, OurJoin, Zenon
    <3>4. ~Awaits(p, bus[h], queue[h], bus[Ctl], queue[Ctl], cg[h].cg_nodes)
      BY <1>9, Zenon DEF Awaits
    <3> QED
      BY <1>15, <1>16, <2>1, <3>3, <3>4, Zenon DEF NodeOK
  <2>2. CASE g # h
    BY <1>1, <1>2, <1>3, <1>4, <1>6, <2>2, NodeFrame, Zenon
  <2> QED
    BY <2>1, <2>2, Zenon
<1>14. ASSUME NEW g \in Groups, NEW p \in Peers PROVE DlmOK(g, p)'
  <2>1. members[g] \subseteq members'[g]
    BY <1>3, <1>4, Zenon
  <2> QED
    BY <1>1, <1>2, <1>13, <2>1, DlmFrame, Zenon
<1> QED
  BY <1>2, <1>7, <1>10, <1>11, <1>12, <1>13, <1>14, InvNext, Zenon

LEMMA PeerStartsStep ==
  ASSUME CpgInv, Up, NEW x \in Peers, PeerStarts(x)
  PROVE  CpgInv'
<1>1. /\ TypeOK /\ CtlOK
      /\ \A d \in Conns : BusOK(d)
      /\ \A g \in Groups : PhaseOK(g)
      /\ \A g \in Groups, p \in Peers : NodeOK(g, p)
      /\ \A g \in Groups, p \in Peers : DlmOK(g, p)
  BY InvSays, Zenon
<1>2. /\ daemon' = daemon /\ revents' = revents /\ df' = df /\ cg' = cg
      /\ requests' = requests /\ results' = results /\ dlm' = dlm
      /\ Joins(Ctl, x) /\ Quiet
  BY Zenon DEF PeerStarts, dlmVars
<1>3. Ctl \in Conns /\ Groups \subseteq Conns /\ Ctl \notin Groups /\ x \in Nodes /\ x # Us
  BY Constants, Zenon
<1>4. /\ members' \in [Conns -> SUBSET Nodes] /\ queue' \in [Conns -> Seq(Events)]
      /\ bus' = bus /\ members'[Ctl] = members[Ctl] \cup {x}
      /\ \A d \in Conns \ {Ctl} : members'[d] = members[d] /\ queue'[d] = queue[d]
  BY <1>1, <1>2, <1>3, JoinsDoes, Zenon
<1>5. PICK e \in Events :
        /\ Grown(queue[Ctl], queue'[Ctl], e) /\ EventOK(e) /\ e.joined = {x} /\ e.left = {}
  <2>1. Us \in members[Ctl] \cup {x}
    BY <1>1, Zenon DEF CtlOK
  <2>2. Reported(members[Ctl], x, queue[Ctl], queue'[Ctl])
    BY <1>1, <1>2, <1>3, <2>1, JoinsDoes, Zenon
  <2> QED
    BY <2>2, Zenon DEF Reported
<1>6. TypeOK'
  BY <1>1, <1>2, <1>4, Zenon DEF TypeOK
<1>7. DOMAIN bus[Ctl] = {}
  BY <1>1, <1>2, <1>3, QuietDoes, Zenon
<1>8. CtlOK'
  <2>1. \A i \in DOMAIN queue'[Ctl] : queue'[Ctl][i] = e \/
               (i \in DOMAIN queue[Ctl] /\ queue'[Ctl][i] = queue[Ctl][i])
    BY <1>5, SMT DEF Grown
  <2>2. \A i \in DOMAIN queue'[Ctl] : Us \notin queue'[Ctl][i].left
    BY <1>1, <1>5, <2>1, Zenon DEF CtlOK
  <2>3. \A g \in Groups : members'[g] \subseteq members'[Ctl] \cup {Us}
    BY <1>1, <1>3, <1>4, Zenon DEF CtlOK
  <2> QED
    BY <1>1, <1>4, <2>2, <2>3, Zenon DEF CtlOK
<1>9. ASSUME NEW d \in Conns PROVE BusOK(d)'
  <2>1. CASE d = Ctl
    <3>1. BusAt(members[Ctl], bus[Ctl], queue[Ctl], Ctl \in revents)
      BY <1>1, <1>3, Zenon DEF BusOK
    <3>2. BusAt(members'[Ctl], bus[Ctl], queue'[Ctl], Ctl \in revents)
      BY <1>5, <1>7, <3>1, BusJoin, Zenon
    <3> QED
      BY <1>2, <1>4, <2>1, <3>2, Zenon DEF BusOK
  <2>2. CASE d # Ctl
    BY <1>1, <1>2, <1>4, <2>2, BusFrame, Zenon
  <2> QED
    BY <2>1, <2>2, Zenon
<1>10. ASSUME NEW g \in Groups
       PROVE  /\ members'[g] = members[g] /\ bus'[g] = bus[g] /\ queue'[g] = queue[g]
              /\ cg'[g] = cg[g] /\ df'[g].on = df[g].on /\ bus'[Ctl] = bus[Ctl]
  BY <1>2, <1>3, <1>4, Zenon
<1>11. ASSUME NEW g \in Groups PROVE PhaseOK(g)'
  BY <1>1, <1>10, PhaseFrame, Zenon
<1>12. ASSUME NEW g \in Groups, NEW p \in Peers PROVE NodeOK(g, p)'
  <2>1. ~Died(e, p)
    BY <1>5, Zenon DEF Died
  <2>2. PairAt(p, members[g], bus[g], queue[g], bus[Ctl], queue[Ctl],
               cg[g].cg_nodes, Ctl \in revents, g \in revents)
    BY <1>1, Zenon DEF NodeOK
  <2>3. PairAt(p, members[g], bus[g], queue[g], bus[Ctl], queue'[Ctl],
               cg[g].cg_nodes, Ctl \in revents, g \in revents)
    BY <1>5, <2>1, <2>2, CtlJoin, Zenon
  <2> QED
    BY <1>2, <1>10, <2>3, Zenon DEF NodeOK
<1>13. ASSUME NEW g \in Groups, NEW p \in Peers PROVE DlmOK(g, p)'
  <2>1. Awaits(p, bus[g], queue[g], bus[Ctl], queue[Ctl], cg[g].cg_nodes)
          => Awaits(p, bus[g], queue[g], bus[Ctl], queue'[Ctl], cg[g].cg_nodes)
    BY <1>5, CtlJoinAwaits, Zenon
  <2>2. Awaits(p, bus[g], queue[g], bus[Ctl], queue[Ctl], cg[g].cg_nodes)
          => Awaits(p, bus[g], queue[g], bus[Ctl], queue[Ctl], cg[g].cg_nodes)'
    BY <1>10, <2>1, Zenon
  <2> QED
    BY <1>1, <1>2, <1>10, <2>2, DlmFrame, Zenon
<1> QED
  BY <1>2, <1>6, <1>8, <1>9, <1>11, <1>12, <1>13, InvNext, Zenon

LEMMA PeerMountsStep ==
  ASSUME CpgInv, Up, ~DeathBehind, NEW x \in Peers, NEW h \in Groups, PeerMounts(x, h)
  PROVE  CpgInv'
<1>1. /\ TypeOK /\ CtlOK
      /\ \A d \in Conns : BusOK(d)
      /\ \A g \in Groups : PhaseOK(g)
      /\ \A g \in Groups, p \in Peers : NodeOK(g, p)
      /\ \A g \in Groups, p \in Peers : DlmOK(g, p)
  BY InvSays, Zenon
<1>2. /\ daemon' = daemon /\ revents' = revents /\ df' = df /\ cg' = cg
      /\ requests' = requests /\ results' = results /\ dlm' = dlm
      /\ Joins(h, x) /\ Quiet /\ x \notin members[h] /\ x \in members[Ctl]
  BY Zenon DEF PeerMounts, dlmVars
<1>3. /\ Ctl \in Conns /\ h \in Conns /\ Groups \subseteq Conns /\ h # Ctl
      /\ Ctl \notin Groups /\ x \in Nodes /\ x # Us
  BY Constants, Zenon
<1>4. /\ members' \in [Conns -> SUBSET Nodes] /\ queue' \in [Conns -> Seq(Events)]
      /\ bus' = bus /\ members'[h] = members[h] \cup {x}
      /\ \A d \in Conns \ {h} : members'[d] = members[d] /\ queue'[d] = queue[d]
      /\ Us \notin members[h] \cup {x} => queue'[h] = queue[h]
  BY <1>1, <1>2, <1>3, JoinsDoes, Zenon
<1>5. TypeOK'
  BY <1>1, <1>2, <1>4, Zenon DEF TypeOK
<1>16. ~Behind(x)
  <2>1. x \in {x, Us} \cap (members'[h] \ members[h]) /\ x \in members'[h]
    BY <1>2, <1>4, Zenon
  <2> QED
    BY <2>1, Zenon DEF DeathBehind
<1>6. DOMAIN bus[h] = {} /\ DOMAIN bus[Ctl] = {}
  BY <1>1, <1>2, <1>3, QuietDoes, Zenon
<1>7. CtlOK'
  <2>1. \A g \in Groups : members'[g] \subseteq members'[Ctl] \cup {Us}
    BY <1>1, <1>2, <1>3, <1>4, Zenon DEF CtlOK
  <2> QED
    BY <1>1, <1>3, <1>4, <2>1, Zenon DEF CtlOK
<1>8. /\ members'[h] = members[h] \cup {x} /\ bus'[h] = bus[h] /\ bus'[Ctl] = bus[Ctl]
      /\ queue'[Ctl] = queue[Ctl] /\ revents' = revents /\ df'[h].on = df[h].on
      /\ cg'[h] = cg[h]
  BY <1>2, <1>3, <1>4, Zenon
<1>9. /\ BusAt(members[h], bus[h], queue[h], h \in revents)
      /\ PhaseAt(cg[h].cpg_state, cg[h].cg_joined, cg[h].cg_nodes,
                 members[h], bus[h], queue[h], df[h].on)
  BY <1>1, <1>3, Zenon DEF BusOK, PhaseOK
<1>10. /\ BusAt(members'[h], bus[h], queue'[h], h \in revents)
       /\ PhaseAt(cg[h].cpg_state, cg[h].cg_joined, cg[h].cg_nodes,
                  members'[h], bus[h], queue'[h], df[h].on)
       /\ \A p \in Peers :
            PairAt(p, members'[h], bus[h], queue'[h], bus[Ctl], queue[Ctl],
                   cg[h].cg_nodes, Ctl \in revents, h \in revents)
       /\ \A p \in Peers :
            Awaits(p, bus[h], queue[h], bus[Ctl], queue[Ctl], cg[h].cg_nodes)
              => Awaits(p, bus[h], queue'[h], bus[Ctl], queue[Ctl], cg[h].cg_nodes)
  <2>1. CASE Us \notin members[h]
    <3>1. queue'[h] = queue[h] /\ Us \notin members'[h]
      BY <1>3, <1>4, <2>1, Zenon
    <3>2. BusAt(members'[h], bus[h], queue[h], h \in revents)
      BY <1>6, <1>9, BusChange, Zenon
    <3>3. PhaseAt(cg[h].cpg_state, cg[h].cg_joined, cg[h].cg_nodes,
                  members'[h], bus[h], queue[h], df[h].on)
      <4>1. PeersGo(members[h], bus[h], members'[h], bus[h])
        BY <1>6, <2>1, <3>1, Zenon DEF PeersGo
      <4> QED
        BY <1>9, <4>1, PhasePeers, Zenon
    <3>4. ASSUME NEW p \in Peers
          PROVE  PairAt(p, members'[h], bus[h], queue[h], bus[Ctl], queue[Ctl],
                        cg[h].cg_nodes, Ctl \in revents, h \in revents)
      <4>1. PushAt(p, queue[h], queue[Ctl], cg[h].cg_nodes, Ctl \in revents, h \in revents)
        BY <1>1, Zenon DEF NodeOK, PairAt
      <4> QED
        BY <3>1, <4>1, NotMember, Zenon
    <3> QED
      BY <3>1, <3>2, <3>3, <3>4, Zenon
  <2>2. CASE Us \in members[h]
    <3>1. PICK e \in Events :
            /\ Grown(queue[h], queue'[h], e) /\ EventOK(e)
            /\ e.joined = {x} /\ e.left = {} /\ e.reason = "JOIN"
      <4>1. Us \in members[h] \cup {x}
        BY <2>2, Zenon
      <4>2. Reported(members[h], x, queue[h], queue'[h])
        BY <1>1, <1>2, <1>3, <4>1, JoinsDoes, Zenon
      <4> QED
        BY <4>2, Zenon DEF Reported
    <3>2. BusAt(members'[h], bus[h], queue'[h], h \in revents)
      BY <1>6, <1>9, <3>1, BusJoin, Zenon
    <3>3. PhaseAt(cg[h].cpg_state, cg[h].cg_joined, cg[h].cg_nodes,
                  members[h] \cup {x}, bus[h], queue'[h], df[h].on)
      BY <1>3, <1>9, <2>2, <3>1, PhasePeerJoin, Zenon
    <3>4. ASSUME NEW p \in Peers
          PROVE  PairAt(p, members[h] \cup {x}, bus[h], queue'[h], bus[Ctl], queue[Ctl],
                        cg[h].cg_nodes, Ctl \in revents, h \in revents)
      <4>1. PairAt(p, members[h], bus[h], queue[h], bus[Ctl], queue[Ctl],
                   cg[h].cg_nodes, Ctl \in revents, h \in revents)
        BY <1>1, Zenon DEF NodeOK
      <4>2. ASSUME NEW j \in DOMAIN queue[Ctl], Died(queue[Ctl][j], x) PROVE j = 1
        <5>1. ~(j > 1)
          BY <1>16, <4>2, Zenon DEF Behind, Died
        <5>2. queue[Ctl] \in Seq(Events)
          BY <1>1, <1>3, Zenon DEF TypeOK
        <5> QED
          BY <4>2, <5>1, <5>2, SMT
      <4>3. h \in revents => 1 \in DOMAIN queue[h]
        BY <1>9, Zenon DEF BusAt
      <4>4. PeerJoins(p, x, members[h], bus[h], queue[h], bus[Ctl], queue[Ctl],
                      h \in revents, queue'[h], e)
        BY <1>2, <1>3, <1>6, <2>2, <3>1, <4>2, <4>3, Constants, Zenon DEF PeerJoins
      <4> QED
        BY <4>1, <4>4, PeerJoin, Zenon
    <3>5. ASSUME NEW p \in Peers
          PROVE  Awaits(p, bus[h], queue[h], bus[Ctl], queue[Ctl], cg[h].cg_nodes)
                   => Awaits(p, bus[h], queue'[h], bus[Ctl], queue[Ctl], cg[h].cg_nodes)
      <4>1. ~Left(e, p)
        BY <3>1, Zenon DEF Left
      <4> QED
        BY <3>1, <4>1, JoinAwaits, Zenon
    <3> QED
      BY <1>8, <3>2, <3>3, <3>4, <3>5, Zenon
  <2> QED
    BY <2>1, <2>2, Zenon
<1>11. ASSUME NEW d \in Conns PROVE BusOK(d)'
  <2>1. CASE d = h
    BY <1>8, <1>10, <2>1, Zenon DEF BusOK
  <2>2. CASE d # h
    BY <1>1, <1>2, <1>4, <2>2, BusFrame, Zenon
  <2> QED
    BY <2>1, <2>2, Zenon
<1>12. ASSUME NEW g \in Groups PROVE PhaseOK(g)'
  <2>1. CASE g = h
    BY <1>8, <1>10, <2>1, Zenon DEF PhaseOK
  <2>2. CASE g # h
    BY <1>1, <1>2, <1>3, <1>4, <2>2, PhaseFrame, Zenon
  <2> QED
    BY <2>1, <2>2, Zenon
<1>13. ASSUME NEW g \in Groups, NEW p \in Peers
       PROVE  /\ NodeOK(g, p)'
              /\ Awaits(p, bus[g], queue[g], bus[Ctl], queue[Ctl], cg[g].cg_nodes)
                   => Awaits(p, bus[g], queue[g], bus[Ctl], queue[Ctl], cg[g].cg_nodes)'
  <2>1. CASE g = h
    BY <1>8, <1>10, <2>1, Zenon DEF NodeOK
  <2>2. CASE g # h
    BY <1>1, <1>2, <1>3, <1>4, <2>2, NodeFrame, Zenon
  <2> QED
    BY <2>1, <2>2, Zenon
<1>14. ASSUME NEW g \in Groups, NEW p \in Peers PROVE DlmOK(g, p)'
  <2>1. members[g] \subseteq members'[g]
    BY <1>3, <1>4, Zenon
  <2> QED
    BY <1>1, <1>2, <1>13, <2>1, DlmFrame, Zenon
<1> QED
  BY <1>2, <1>5, <1>7, <1>11, <1>12, <1>13, <1>14, InvNext, Zenon

LEMMA OrdersLeaveStep ==
  ASSUME CpgInv, Up, NEW h \in Groups, CpgOrdersLeave(h)
  PROVE  CpgInv'
<1>1. /\ TypeOK /\ CtlOK
      /\ \A d \in Conns : BusOK(d)
      /\ \A g \in Groups : PhaseOK(g)
      /\ \A g \in Groups, p \in Peers : NodeOK(g, p)
      /\ \A g \in Groups, p \in Peers : DlmOK(g, p)
  BY InvSays, Zenon
<1>2. /\ daemon' = daemon /\ revents' = revents /\ df' = df /\ cg' = cg
      /\ requests' = requests /\ results' = results /\ dlm' = dlm
      /\ Change({h}, {Us}, "LEAVE") /\ Quiet
      /\ cg[h].cpg_state = "leaving" /\ Us \in members[h]
  BY Zenon DEF CpgOrdersLeave, dlmVars
<1>3. /\ Ctl \in Conns /\ h \in Conns /\ Groups \subseteq Conns /\ h # Ctl
      /\ Us \in Nodes /\ Ctl \notin Groups
  BY Constants, Zenon
<1>4. \A c \in Conns : DOMAIN bus[c] = {}
  BY <1>1, <1>2, QuietDoes, Zenon
<1> DEFINE gs == {h}
           D == {Us}
           why == "LEAVE"
<1>5. Departs(gs, D, why) /\ h \in gs
  BY <1>2, <1>3, Zenon DEF Departs
<1>20. /\ \A c \in Conns : c # h => c \in Conns \ gs
       /\ members[h] \cap D # {} /\ Us \in D /\ \A p \in Peers : p \notin D
  BY <1>2, Constants, Zenon
<1> HIDE DEF gs, D, why
<1>6. /\ members' \in [Conns -> SUBSET Nodes] /\ bus' \in [Conns -> Seq(Events)]
      /\ queue' = queue
      /\ members'[h] = members[h] \ D
      /\ \A c \in Conns : c # h => members'[c] = members[c] /\ DOMAIN bus'[c] = {}
      /\ \A c \in Conns : Shown(members[c], D, why, bus'[c])
      /\ DOMAIN bus'[h] = {1}
  <2>1. Departed(gs, D, why)
    BY <1>1, <1>5, ChangeDoes, Zenon
  <2> QED
    BY <1>2, <1>5, <1>20, <2>1, Zenon DEF Departed
<1>7. TypeOK'
  BY <1>1, <1>2, <1>6, Zenon DEF TypeOK
<1>8. CtlOK'
  <2>1. \A g \in Groups : members'[g] \subseteq members'[Ctl] \cup {Us}
    BY <1>1, <1>3, <1>6, Zenon DEF CtlOK
  <2>2. DOMAIN bus'[Ctl] = {} /\ members'[Ctl] = members[Ctl]
    BY <1>3, <1>6, Zenon
  <2> QED
    BY <1>1, <1>6, <2>1, <2>2, Zenon DEF CtlOK
<1>9. ASSUME NEW d \in Conns PROVE BusOK(d)'
  <2>1. members'[d] \subseteq members[d] \ D \/ DOMAIN bus'[d] = {}
    BY <1>6, Zenon
  <2> QED
    BY <1>1, <1>2, <1>6, <2>1, ChangeBus, Zenon
<1>10. DOMAIN bus'[h] = {1} /\ Us \in bus'[h][1].left /\ Us \notin members'[h]
  <2>1. bus'[h][1].left = members[h] \cap D
    BY <1>3, <1>6, Zenon DEF Shown
  <2> QED
    BY <1>2, <1>6, <1>20, <2>1, Zenon
<1>11. ASSUME NEW g \in Groups, g # h
       PROVE  /\ members'[g] = members[g] /\ queue'[g] = queue[g]
              /\ DOMAIN bus'[g] = {} /\ cg'[g] = cg[g] /\ df'[g].on = df[g].on
  BY <1>2, <1>3, <1>6, <1>11, Zenon
<1>12. ASSUME NEW g \in Groups PROVE PhaseOK(g)'
  <2>1. PhaseAt(cg[g].cpg_state, cg[g].cg_joined, cg[g].cg_nodes,
                members[g], bus[g], queue[g], df[g].on)
    BY <1>1, Zenon DEF PhaseOK
  <2>2. CASE g = h
    <3>1. PhaseAt("leaving", cg[h].cg_joined, cg[h].cg_nodes,
                  members[h], bus[h], queue[h], df[h].on)
      BY <1>2, <2>1, <2>2, Zenon
    <3>2. PhaseAt("leaving", cg[h].cg_joined, cg[h].cg_nodes,
                  members'[h], bus'[h], queue[h], df[h].on)
      BY <1>2, <1>10, <3>1, PhaseOurLeave, Zenon
    <3> QED
      BY <1>2, <1>6, <2>2, <3>2, Zenon DEF PhaseOK
  <2>3. CASE g # h
    <3>1. DOMAIN bus[g] = {}
      BY <1>3, <1>4, Zenon
    <3>3. PeersGo(members[g], bus[g], members[g], bus'[g])
      BY <1>11, <2>3, <3>1, Zenon DEF PeersGo
    <3>2. PhaseAt(cg[g].cpg_state, cg[g].cg_joined, cg[g].cg_nodes,
                  members[g], bus'[g], queue[g], df[g].on)
      BY <2>1, <3>3, PhasePeers, Zenon
    <3> QED
      BY <1>11, <2>3, <3>2, Zenon DEF PhaseOK
  <2> QED
    BY <2>2, <2>3, Zenon
<1>13. ASSUME NEW g \in Groups, NEW p \in Peers PROVE NodeOK(g, p)'
  <2>1. PairAt(p, members[g], bus[g], queue[g], bus[Ctl], queue[Ctl],
               cg[g].cg_nodes, Ctl \in revents, g \in revents)
    BY <1>1, Zenon DEF NodeOK
  <2>2. CASE g = h
    <3>1. PushAt(p, queue[g], queue[Ctl], cg[g].cg_nodes, Ctl \in revents, g \in revents)
      BY <2>1, Zenon DEF PairAt
    <3>2. Us \notin members'[g]
      BY <1>10, <2>2, Zenon
    <3>3. PairAt(p, members'[g], bus'[g], queue[g], bus'[Ctl], queue[Ctl],
                 cg[g].cg_nodes, Ctl \in revents, g \in revents)
      BY <3>1, <3>2, NotMember, Zenon
    <3> QED
      BY <1>2, <1>6, <3>3, Zenon DEF NodeOK
  <2>3. CASE g # h
    <3>1. DOMAIN bus[g] = {} /\ DOMAIN bus[Ctl] = {} /\ DOMAIN bus'[g] = {} /\ DOMAIN bus'[Ctl] = {}
      BY <1>3, <1>4, <1>6, <2>3, Zenon
    <3>2. Stays(p, members[g], bus[g], bus[Ctl], members[g], bus'[g], bus'[Ctl])
      BY <3>1, Zenon DEF Stays
    <3>3. PairAt(p, members[g], bus'[g], queue[g], bus'[Ctl], queue[Ctl],
                 cg[g].cg_nodes, Ctl \in revents, g \in revents)
      BY <2>1, <3>2, OthersGo, Zenon
    <3> QED
      BY <1>2, <1>6, <1>11, <2>3, <3>3, Zenon DEF NodeOK
  <2> QED
    BY <2>2, <2>3, Zenon
<1>14. ASSUME NEW g \in Groups, NEW p \in Peers PROVE DlmOK(g, p)'
  <2>1. p \in members[g] => p \in members'[g]
    BY <1>6, <1>11, <1>20, Zenon
  <2>6. Shown(members[g], D, why, bus'[g]) /\ p \notin D
    BY <1>3, <1>6, <1>20, Zenon
  <2>2. \A j \in DOMAIN bus'[g] : ~Left(bus'[g][j], p)
    BY <2>6, Zenon DEF Left, Shown
  <2>3. DOMAIN bus[Ctl] = {}
    BY <1>3, <1>4, Zenon
  <2>4. Awaits(p, bus[g], queue[g], bus[Ctl], queue[Ctl], cg[g].cg_nodes)
          => Awaits(p, bus'[g], queue[g], bus'[Ctl], queue[Ctl], cg[g].cg_nodes)
    BY <2>2, <2>3, GoAwaits, Zenon
  <2>5. Awaits(p, bus[g], queue[g], bus[Ctl], queue[Ctl], cg[g].cg_nodes)
          => Awaits(p, bus[g], queue[g], bus[Ctl], queue[Ctl], cg[g].cg_nodes)'
    BY <1>2, <1>6, <2>4, Zenon
  <2> QED
    BY <1>1, <1>2, <2>1, <2>5, DlmFrame, Zenon
<1> QED
  BY <1>2, <1>7, <1>8, <1>9, <1>12, <1>13, <1>14, InvNext, Zenon

LEMMA PeerExitsStep ==
  ASSUME CpgInv, Up, NEW x \in Peers, PeerExits(x)
  PROVE  CpgInv'
<1>1. /\ TypeOK /\ CtlOK
      /\ \A d \in Conns : BusOK(d)
      /\ \A g \in Groups : PhaseOK(g)
      /\ \A g \in Groups, p \in Peers : NodeOK(g, p)
      /\ \A g \in Groups, p \in Peers : DlmOK(g, p)
  BY InvSays, Zenon
<1>2. /\ daemon' = daemon /\ revents' = revents /\ df' = df /\ cg' = cg
      /\ requests' = requests /\ results' = results /\ dlm' = dlm
      /\ Change({Ctl}, {x}, "LEAVE") /\ Quiet /\ ~Mounted(x)
  BY Zenon DEF PeerExits, dlmVars
<1>3. /\ Ctl \in Conns /\ Groups \subseteq Conns /\ Us \in Nodes /\ Ctl \notin Groups
      /\ x \in Nodes /\ x # Us
  BY Constants, Zenon
<1>4. \A c \in Conns : DOMAIN bus[c] = {}
  BY <1>1, <1>2, QuietDoes, Zenon
<1> DEFINE gs == {Ctl}
           D == {x}
           why == "LEAVE"
<1>5. Departs(gs, D, why) /\ Ctl \in gs
  BY <1>2, <1>3, Zenon DEF Departs
<1>20. /\ \A c \in Conns : c # Ctl => c \in Conns \ gs
       /\ Us \notin D /\ why = "LEAVE" /\ \A p : p \in D <=> p = x
  BY <1>3, Zenon
<1> HIDE DEF gs, D, why
<1>6. /\ members' \in [Conns -> SUBSET Nodes] /\ bus' \in [Conns -> Seq(Events)]
      /\ queue' = queue
      /\ members'[Ctl] = members[Ctl] \ D
      /\ \A c \in Conns : c # Ctl => members'[c] = members[c] /\ DOMAIN bus'[c] = {}
      /\ \A c \in Conns : Shown(members[c], D, why, bus'[c])
  <2>1. Departed(gs, D, why)
    BY <1>1, <1>5, ChangeDoes, Zenon
  <2> QED
    BY <1>5, <1>20, <2>1, Zenon DEF Departed
<1>7. TypeOK'
  BY <1>1, <1>2, <1>6, Zenon DEF TypeOK
<1>8. ASSUME NEW g \in Groups
      PROVE  /\ members'[g] = members[g] /\ queue'[g] = queue[g]
             /\ DOMAIN bus'[g] = {} /\ DOMAIN bus[g] = {}
             /\ cg'[g] = cg[g] /\ df'[g].on = df[g].on
  BY <1>2, <1>3, <1>4, <1>6, Zenon
<1>9. CtlOK'
  <2>1. ASSUME NEW g \in Groups PROVE members'[g] \subseteq members'[Ctl] \cup {Us}
    <3>1. members'[g] \subseteq members[Ctl] \cup {Us} /\ x \notin members'[g]
      BY <1>1, <1>2, <1>8, Zenon DEF CtlOK, Mounted
    <3>2. members'[Ctl] = members[Ctl] \ D
      BY <1>6, Zenon
    <3> QED
      BY <1>20, <3>1, <3>2, SMT
  <2>3. Us \in members'[Ctl]
    BY <1>1, <1>6, <1>20, Zenon DEF CtlOK
  <2>4. Shown(members[Ctl], D, why, bus'[Ctl])
    BY <1>3, <1>6, Zenon
  <2>2. Us \in members'[Ctl] /\ \A i \in DOMAIN bus'[Ctl] : Us \notin bus'[Ctl][i].left
    BY <1>20, <2>3, <2>4, Zenon DEF Shown
  <2> QED
    BY <1>1, <1>6, <2>1, <2>2, Zenon DEF CtlOK
<1>10. ASSUME NEW d \in Conns PROVE BusOK(d)'
  <2>1. members'[d] \subseteq members[d] \ D \/ DOMAIN bus'[d] = {}
    BY <1>6, Zenon
  <2> QED
    BY <1>1, <1>2, <1>6, <2>1, ChangeBus, Zenon
<1>11. ASSUME NEW g \in Groups PROVE PhaseOK(g)'
  <2>1. PhaseAt(cg[g].cpg_state, cg[g].cg_joined, cg[g].cg_nodes,
                members[g], bus[g], queue[g], df[g].on)
    BY <1>1, Zenon DEF PhaseOK
  <2>3. PeersGo(members[g], bus[g], members[g], bus'[g])
    BY <1>8, Zenon DEF PeersGo
  <2>2. PhaseAt(cg[g].cpg_state, cg[g].cg_joined, cg[g].cg_nodes,
                members[g], bus'[g], queue[g], df[g].on)
    BY <2>1, <2>3, PhasePeers, Zenon
  <2> QED
    BY <1>8, <2>2, Zenon DEF PhaseOK
<1>12. ASSUME NEW g \in Groups, NEW p \in Peers PROVE NodeOK(g, p)'
  <2>1. PairAt(p, members[g], bus[g], queue[g], bus[Ctl], queue[Ctl],
               cg[g].cg_nodes, Ctl \in revents, g \in revents)
    BY <1>1, Zenon DEF NodeOK
  <2>5. Shown(members[Ctl], D, why, bus'[Ctl])
    BY <1>3, <1>6, Zenon
  <2>2. DOMAIN bus[Ctl] = {} /\ \A j \in DOMAIN bus'[Ctl] : ~Died(bus'[Ctl][j], p)
    BY <1>3, <1>4, <1>20, <2>5, Zenon DEF Died, Shown
  <2>3. Stays(p, members[g], bus[g], bus[Ctl], members[g], bus'[g], bus'[Ctl])
    BY <1>8, <2>2, Zenon DEF Stays
  <2>4. PairAt(p, members[g], bus'[g], queue[g], bus'[Ctl], queue[Ctl],
               cg[g].cg_nodes, Ctl \in revents, g \in revents)
    BY <2>1, <2>3, OthersGo, Zenon
  <2> QED
    BY <1>2, <1>6, <1>8, <2>4, Zenon DEF NodeOK
<1>13. ASSUME NEW g \in Groups, NEW p \in Peers PROVE DlmOK(g, p)'
  <2>1. (\A j \in DOMAIN bus'[g] : ~Left(bus'[g][j], p)) /\ DOMAIN bus[Ctl] = {}
    BY <1>3, <1>4, <1>8, Zenon
  <2>2. Awaits(p, bus[g], queue[g], bus[Ctl], queue[Ctl], cg[g].cg_nodes)
          => Awaits(p, bus'[g], queue[g], bus'[Ctl], queue[Ctl], cg[g].cg_nodes)
    BY <2>1, GoAwaits, Zenon
  <2>3. Awaits(p, bus[g], queue[g], bus[Ctl], queue[Ctl], cg[g].cg_nodes)
          => Awaits(p, bus[g], queue[g], bus[Ctl], queue[Ctl], cg[g].cg_nodes)'
    BY <1>2, <1>6, <2>2, Zenon
  <2> QED
    BY <1>1, <1>2, <1>8, <2>3, DlmFrame, Zenon
<1> QED
  BY <1>2, <1>7, <1>9, <1>10, <1>11, <1>12, <1>13, InvNext, Zenon


(* The same, when only this node's entries stay. *)
LEMMA DlmKeep ==
  ASSUME NEW g, NEW p, DlmOK(g, p),
         dlm'[g][p] = dlm[g][p], df' = df, requests' = requests, results' = results,
         dlm[g][p] = "in" => p \in members'[g],
         Awaits(p, bus[g], queue[g], bus[Ctl], queue[Ctl], cg[g].cg_nodes)
           => Awaits(p, bus[g], queue[g], bus[Ctl], queue[Ctl], cg[g].cg_nodes)'
  PROVE  DlmOK(g, p)'
BY Zenon DEF DlmOK

LEMMA DlmOut ==
  ASSUME NEW g, NEW p, dlm'[g][p] = "out" PROVE DlmOK(g, p)'
BY Zenon DEF DlmOK

LEMMA PeerUnmountsStep ==
  ASSUME CpgInv, Up, NEW x \in Peers, NEW h \in Groups, PeerUnmounts(x, h)
  PROVE  CpgInv'
<1>1. /\ TypeOK /\ CtlOK
      /\ \A d \in Conns : BusOK(d)
      /\ \A g \in Groups : PhaseOK(g)
      /\ \A g \in Groups, p \in Peers : NodeOK(g, p)
      /\ \A g \in Groups, p \in Peers : DlmOK(g, p)
  BY InvSays, Zenon
<1>2. /\ daemon' = daemon /\ revents' = revents /\ df' = df /\ cg' = cg
      /\ requests' = requests /\ results' = results
      /\ dlm' = [dlm EXCEPT ![h][x] = "out"]
      /\ Change({h}, {x}, "LEAVE") /\ Quiet /\ x \in members[h]
  BY Zenon DEF PeerUnmounts
<1>3. /\ Ctl \in Conns /\ Groups \subseteq Conns /\ Us \in Nodes /\ Ctl \notin Groups
      /\ x \in Nodes /\ x # Us /\ h \in Conns /\ h # Ctl
  BY Constants, Zenon
<1>4. \A c \in Conns : DOMAIN bus[c] = {}
  BY <1>1, <1>2, QuietDoes, Zenon
<1>5. /\ dlm' \in [Groups -> [Peers -> {"out", "in", "dying", "wait"}]]
      /\ dlm'[h][x] = "out"
      /\ \A g \in Groups, p \in Peers : ~(g = h /\ p = x) => dlm'[g][p] = dlm[g][p]
  <2>1. dlm \in [Groups -> [Peers -> {"out", "in", "dying", "wait"}]]
    BY <1>1, Zenon DEF TypeOK
  <2> QED
    BY <1>2, <2>1, SMT
<1> DEFINE gs == {h}
           D == {x}
           why == "LEAVE"
<1>6. Departs(gs, D, why) /\ h \in gs
  BY <1>2, <1>3, Zenon DEF Departs
<1>7. /\ \A c \in Conns : c # h => c \in Conns \ gs
      /\ x \in D /\ Us \notin D /\ why = "LEAVE" /\ (\A p \in Peers : p # x => p \notin D)
      /\ members[h] \cap D # {}
  BY <1>2, <1>3, Zenon
<1> HIDE DEF gs, D, why
<1>8. /\ members' \in [Conns -> SUBSET Nodes] /\ bus' \in [Conns -> Seq(Events)]
      /\ queue' = queue
      /\ members'[h] = members[h] \ D
      /\ \A c \in Conns : c # h => members'[c] = members[c] /\ DOMAIN bus'[c] = {}
      /\ \A c \in Conns : Shown(members[c], D, why, bus'[c])
      /\ Us \notin members[h] => DOMAIN bus'[h] = {}
      /\ Us \in members[h] => DOMAIN bus'[h] = {1}
  <2>1. Departed(gs, D, why)
    BY <1>1, <1>6, ChangeDoes, Zenon
  <2> QED
    BY <1>3, <1>6, <1>7, <2>1, Zenon DEF Departed
<1>9. TypeOK'
  BY <1>1, <1>2, <1>5, <1>8, Zenon DEF TypeOK
<1>10. members'[Ctl] = members[Ctl] /\ DOMAIN bus'[Ctl] = {} /\ DOMAIN bus[Ctl] = {}
  BY <1>3, <1>4, <1>8, Zenon
<1>11. CtlOK'
  <2>1. \A g \in Groups : members'[g] \subseteq members'[Ctl] \cup {Us}
    BY <1>1, <1>3, <1>8, Zenon DEF CtlOK
  <2> QED
    BY <1>1, <1>8, <1>10, <2>1, Zenon DEF CtlOK
<1>12. ASSUME NEW d \in Conns PROVE BusOK(d)'
  <2>1. members'[d] \subseteq members[d] \ D \/ DOMAIN bus'[d] = {}
    BY <1>8, Zenon
  <2> QED
    BY <1>1, <1>2, <1>8, <2>1, ChangeBus, Zenon
<1>13. ASSUME NEW g \in Groups
       PROVE  /\ Us \in members'[g] <=> Us \in members[g]
              /\ DOMAIN bus[g] = {}
              /\ \A i \in DOMAIN bus'[g] : Us \in members[g] /\ Us \notin bus'[g][i].left
  <2>1. Shown(members[g], D, why, bus'[g]) /\ DOMAIN bus[g] = {}
    BY <1>3, <1>4, <1>8, Zenon
  <2>2. \A i \in DOMAIN bus'[g] : Us \notin bus'[g][i].left
    BY <1>7, <2>1, Zenon DEF Shown
  <2>3. CASE g = h
    <3>1. Us \in members'[g] <=> Us \in members[g]
      BY <1>7, <1>8, <2>3, Zenon
    <3>2. Us \notin members[g] => DOMAIN bus'[g] = {}
      BY <1>8, <2>3, Zenon
    <3> QED
      BY <2>1, <2>2, <3>1, <3>2, Zenon
  <2>4. CASE g # h
    BY <1>3, <1>8, <2>1, <2>4, Zenon
  <2> QED
    BY <2>3, <2>4, Zenon
<1>14. ASSUME NEW g \in Groups PROVE PhaseOK(g)'
  <2>1. PhaseAt(cg[g].cpg_state, cg[g].cg_joined, cg[g].cg_nodes,
                members[g], bus[g], queue[g], df[g].on)
    BY <1>1, Zenon DEF PhaseOK
  <2>3. PeersGo(members[g], bus[g], members'[g], bus'[g])
    BY <1>13, Zenon DEF PeersGo
  <2>2. PhaseAt(cg[g].cpg_state, cg[g].cg_joined, cg[g].cg_nodes,
                members'[g], bus'[g], queue[g], df[g].on)
    BY <2>1, <2>3, PhasePeers, Zenon
  <2> QED
    BY <1>2, <1>8, <2>2, Zenon DEF PhaseOK
<1>15. ASSUME NEW g \in Groups, NEW p \in Peers, ~(g = h /\ p = x)
       PROVE  /\ \A j \in DOMAIN bus'[g] : ~Left(bus'[g][j], p)
              /\ p \in members'[g] <=> p \in members[g]
  <2>1. Shown(members[g], D, why, bus'[g])
    BY <1>3, <1>8, Zenon
  <2>2. CASE g = h
    <3>1. p \notin D
      BY <1>7, <1>15, <2>2, Zenon
    <3>2. p \in members'[g] <=> p \in members[g]
      BY <1>8, <2>2, <3>1, Zenon
    <3> QED
      BY <2>1, <3>1, <3>2, Zenon DEF Left, Shown
  <2>3. CASE g # h
    BY <1>3, <1>8, <2>3, Zenon
  <2> QED
    BY <2>2, <2>3, Zenon
<1>16. ASSUME NEW g \in Groups, NEW p \in Peers PROVE NodeOK(g, p)'
  <2>1. PairAt(p, members[g], bus[g], queue[g], bus[Ctl], queue[Ctl],
               cg[g].cg_nodes, Ctl \in revents, g \in revents)
    BY <1>1, Zenon DEF NodeOK
  <2>2. CASE ~(g = h /\ p = x)
    <3>1. Stays(p, members[g], bus[g], bus[Ctl], members'[g], bus'[g], bus'[Ctl])
      BY <1>10, <1>13, <1>15, <2>2, Zenon DEF Stays
    <3>2. PairAt(p, members'[g], bus'[g], queue[g], bus'[Ctl], queue[Ctl],
                 cg[g].cg_nodes, Ctl \in revents, g \in revents)
      BY <2>1, <3>1, OthersGo, Zenon
    <3> QED
      BY <1>2, <1>8, <3>2, Zenon DEF NodeOK
  <2>3. CASE g = h /\ p = x /\ Us \in members[h]
    <3>1. Shown(members[h], D, why, bus'[h]) /\ DOMAIN bus'[h] = {1} /\ x \notin members'[h]
      BY <1>3, <1>7, <1>8, <2>3, Zenon
    <3>2. Left(bus'[h][1], x)
      BY <1>2, <1>7, <3>1, Zenon DEF Left, Shown
    <3>3. Goes(p, members'[g], bus'[g])
      BY <2>3, <3>1, <3>2, Zenon DEF Goes
    <3>5. PushAt(p, queue[g], queue[Ctl], cg[g].cg_nodes, Ctl \in revents, g \in revents)
      BY <2>1, Zenon DEF PairAt
    <3>4. PairAt(p, members'[g], bus'[g], queue[g], bus'[Ctl], queue[Ctl],
                 cg[g].cg_nodes, Ctl \in revents, g \in revents)
      BY <3>3, <3>5, Unmounts, Zenon
    <3> QED
      BY <1>2, <1>8, <3>4, Zenon DEF NodeOK
  <2>4. CASE g = h /\ p = x /\ Us \notin members[h]
    <3>1. PushAt(p, queue[g], queue[Ctl], cg[g].cg_nodes, Ctl \in revents, g \in revents)
      BY <2>1, Zenon DEF PairAt
    <3>2. Us \notin members'[g]
      BY <1>13, <2>4, Zenon
    <3>3. PairAt(p, members'[g], bus'[g], queue[g], bus'[Ctl], queue[Ctl],
                 cg[g].cg_nodes, Ctl \in revents, g \in revents)
      BY <3>1, <3>2, NotMember, Zenon
    <3> QED
      BY <1>2, <1>8, <3>3, Zenon DEF NodeOK
  <2> QED
    BY <2>2, <2>3, <2>4, Zenon
<1>17. ASSUME NEW g \in Groups, NEW p \in Peers PROVE DlmOK(g, p)'
  <2>1. CASE g = h /\ p = x
    BY <1>5, <2>1, DlmOut, Zenon
  <2>2. CASE ~(g = h /\ p = x)
    <3>1. \A j \in DOMAIN bus'[g] : ~Left(bus'[g][j], p)
      BY <1>15, <2>2, Zenon
    <3>2. Awaits(p, bus[g], queue[g], bus[Ctl], queue[Ctl], cg[g].cg_nodes)
            => Awaits(p, bus'[g], queue[g], bus'[Ctl], queue[Ctl], cg[g].cg_nodes)
      BY <1>10, <3>1, GoAwaits, Zenon
    <3>3. Awaits(p, bus[g], queue[g], bus[Ctl], queue[Ctl], cg[g].cg_nodes)
            => Awaits(p, bus[g], queue[g], bus[Ctl], queue[Ctl], cg[g].cg_nodes)'
      BY <1>2, <1>8, <3>2, Zenon
    <3>4. DlmOK(g, p) /\ (dlm[g][p] = "in" => p \in members'[g])
      BY <1>1, <1>15, <2>2, Zenon DEF DlmOK
    <3>5. dlm'[g][p] = dlm[g][p]
      BY <1>5, <2>2, Zenon
    <3> QED
      BY <1>2, <3>3, <3>4, <3>5, DlmKeep, Zenon
  <2> QED
    BY <2>1, <2>2, Zenon
<1> QED
  BY <1>2, <1>9, <1>11, <1>12, <1>14, <1>16, <1>17, InvNext, Zenon

LEMMA DyingDoes ==
  ASSUME TypeOK, NEW D, Dying(D)
  PROVE  /\ dlm' \in [Groups -> [Peers -> {"out", "in", "dying", "wait"}]]
         /\ \A g \in Groups, p \in Peers :
              \/ p \in D /\ dlm[g][p] = "in" /\ dlm'[g][p] = "dying"
              \/ ~(p \in D /\ dlm[g][p] = "in") /\ dlm'[g][p] = dlm[g][p]
<1>1. dlm \in [Groups -> [Peers -> {"out", "in", "dying", "wait"}]]
  BY Zenon DEF TypeOK
<1> QED
  BY <1>1, SMT DEF Dying

LEMMA DieStep ==
  ASSUME CpgInv, Up, ~DeathInJoin, NEW D \in SUBSET Peers, NEW why,
         why \in {"NODEDOWN", "PROCDOWN"}, Die(D, why)
  PROVE  CpgInv'
<1>1. /\ TypeOK /\ CtlOK
      /\ \A d \in Conns : BusOK(d)
      /\ \A g \in Groups : PhaseOK(g)
      /\ \A g \in Groups, p \in Peers : NodeOK(g, p)
      /\ \A g \in Groups, p \in Peers : DlmOK(g, p)
  BY InvSays, Zenon
<1>2. /\ daemon' = daemon /\ revents' = revents /\ df' = df /\ cg' = cg
      /\ requests' = requests /\ results' = results
      /\ Change(Conns, D, why) /\ Quiet /\ Dying(D)
  BY Zenon DEF Die
<1>3. /\ Ctl \in Conns /\ Groups \subseteq Conns /\ Ctl \notin Groups
      /\ Us \notin D /\ D \in SUBSET Nodes /\ why # "LEAVE"
      /\ why \in {"LEAVE", "NODEDOWN", "PROCDOWN"}
  <2>1. why # "LEAVE"
    OBVIOUS
  <2> QED
    BY <2>1, Constants, Zenon
<1>4. \A c \in Conns : DOMAIN bus[c] = {}
  BY <1>1, <1>2, QuietDoes, Zenon
<1>5. /\ dlm' \in [Groups -> [Peers -> {"out", "in", "dying", "wait"}]]
      /\ \A g \in Groups, p \in Peers :
           \/ p \in D /\ dlm[g][p] = "in" /\ dlm'[g][p] = "dying"
           \/ ~(p \in D /\ dlm[g][p] = "in") /\ dlm'[g][p] = dlm[g][p]
  BY <1>1, <1>2, DyingDoes, Zenon
<1>6. Departs(Conns, D, why)
  BY <1>2, <1>3, Zenon DEF Departs
<1>7. /\ members' \in [Conns -> SUBSET Nodes] /\ bus' \in [Conns -> Seq(Events)]
      /\ queue' = queue
      /\ \A c \in Conns : members'[c] = members[c] \ D
      /\ \A c \in Conns : Shown(members[c], D, why, bus'[c])
      /\ \A c \in Conns : Us \notin members[c] => DOMAIN bus'[c] = {}
      /\ \A c \in Conns : Us \in members[c] /\ members[c] \cap D # {} => DOMAIN bus'[c] = {1}
  <2>1. Departed(Conns, D, why)
    BY <1>1, <1>6, ChangeDoes, Zenon
  <2> QED
    BY <2>1, Zenon DEF Departed
<1>8. TypeOK'
  BY <1>1, <1>2, <1>5, <1>7, Zenon DEF TypeOK
<1>9. ASSUME NEW c \in Conns
      PROVE  /\ DOMAIN bus[c] = {} /\ (Us \in members'[c] <=> Us \in members[c])
             /\ \A i \in DOMAIN bus'[c] : Us \in members[c] /\ Us \notin bus'[c][i].left
             /\ \A p : \A i \in DOMAIN bus'[c] : ~Left(bus'[c][i], p)
             /\ \A p : \A i \in DOMAIN bus'[c] : Died(bus'[c][i], p) => p \in D
             /\ \A p : p \in members'[c] <=> p \in members[c] /\ p \notin D
  <2>1. /\ Shown(members[c], D, why, bus'[c]) /\ DOMAIN bus[c] = {}
        /\ members'[c] = members[c] \ D /\ (Us \notin members[c] => DOMAIN bus'[c] = {})
    BY <1>4, <1>7, Zenon
  <2>2. /\ \A i \in DOMAIN bus'[c] : Us \notin bus'[c][i].left
        /\ \A p : \A i \in DOMAIN bus'[c] : ~Left(bus'[c][i], p)
        /\ \A p : \A i \in DOMAIN bus'[c] : Died(bus'[c][i], p) => p \in D
    BY <1>3, <2>1, Zenon DEF Shown, Left, Died
  <2>3. /\ Us \in members'[c] <=> Us \in members[c]
        /\ \A p : p \in members'[c] <=> p \in members[c] /\ p \notin D
    BY <1>3, <2>1, Zenon
  <2> QED
    BY <2>1, <2>2, <2>3, Zenon
<1>10. CtlOK'
  <2>1. ASSUME NEW g \in Groups PROVE members'[g] \subseteq members'[Ctl] \cup {Us}
    <3>1. members[g] \subseteq members[Ctl] \cup {Us}
      BY <1>1, Zenon DEF CtlOK
    <3>2. /\ \A p : p \in members'[g] <=> p \in members[g] /\ p \notin D
          /\ \A p : p \in members'[Ctl] <=> p \in members[Ctl] /\ p \notin D
      BY <1>3, <1>9, Zenon
    <3> QED
      BY <3>1, <3>2, SMT
  <2>2. Us \in members'[Ctl] /\ \A i \in DOMAIN bus'[Ctl] : Us \notin bus'[Ctl][i].left
    BY <1>1, <1>3, <1>9, Zenon DEF CtlOK
  <2> QED
    BY <1>1, <1>7, <2>1, <2>2, Zenon DEF CtlOK
<1>11. ASSUME NEW d \in Conns PROVE BusOK(d)'
  <2>1. members'[d] \subseteq members[d] \ D \/ DOMAIN bus'[d] = {}
    BY <1>7, Zenon
  <2> QED
    BY <1>1, <1>2, <1>7, <2>1, ChangeBus, Zenon
<1>12. ASSUME NEW g \in Groups PROVE PhaseOK(g)'
  <2>1. PhaseAt(cg[g].cpg_state, cg[g].cg_joined, cg[g].cg_nodes,
                members[g], bus[g], queue[g], df[g].on)
    BY <1>1, Zenon DEF PhaseOK
  <2>3. PeersGo(members[g], bus[g], members'[g], bus'[g])
    BY <1>3, <1>9, Zenon DEF PeersGo
  <2>2. PhaseAt(cg[g].cpg_state, cg[g].cg_joined, cg[g].cg_nodes,
                members'[g], bus'[g], queue[g], df[g].on)
    BY <2>1, <2>3, PhasePeers, Zenon
  <2> QED
    BY <1>2, <1>7, <2>2, Zenon DEF PhaseOK
<1>13. ASSUME NEW g \in Groups, NEW p \in D, p \in members[g]
       PROVE  IsDying(p, members[g], bus[g], queue[g], bus[Ctl],
                      members'[g], bus'[g], bus'[Ctl])
  <2>1. \A i \in DOMAIN queue[g] : queue[g][i].joined \cap {p, Us} = {}
    <3>1. p \in Peers /\ p \notin members'[g] /\ p \notin members'[Ctl]
      BY <1>3, <1>7, <1>13, Zenon
    <3> QED
      BY <1>13, <3>1, Zenon DEF DeathInJoin, JoinUnread
  <2>2. p \in members[Ctl] /\ Us \in members[Ctl]
    BY <1>1, <1>3, <1>13, Zenon DEF CtlOK
  <2>3. DOMAIN bus'[Ctl] = {1} /\ Shown(members[Ctl], D, why, bus'[Ctl])
    BY <1>3, <1>7, <2>2, Zenon
  <2>4. Died(bus'[Ctl][1], p)
    BY <1>3, <2>2, <2>3, Zenon DEF Shown, Died
  <2>5. p \notin members'[g] /\ \A j \in DOMAIN bus'[g] : ~Left(bus'[g][j], p)
    BY <1>3, <1>9, Zenon
  <2>6. DOMAIN bus[g] = {} /\ DOMAIN bus[Ctl] = {}
    BY <1>3, <1>4, Zenon
  <2> QED
    BY <1>13, <2>1, <2>3, <2>4, <2>5, <2>6, Zenon DEF IsDying
<1>14. ASSUME NEW g \in Groups, NEW p \in Peers PROVE NodeOK(g, p)'
  <2>1. PairAt(p, members[g], bus[g], queue[g], bus[Ctl], queue[Ctl],
               cg[g].cg_nodes, Ctl \in revents, g \in revents)
    BY <1>1, Zenon DEF NodeOK
  <2>2. PairAt(p, members'[g], bus'[g], queue[g], bus'[Ctl], queue[Ctl],
               cg[g].cg_nodes, Ctl \in revents, g \in revents)
    <3>1. CASE p \in D /\ p \in members[g]
      <4>1. IsDying(p, members[g], bus[g], queue[g], bus[Ctl],
                    members'[g], bus'[g], bus'[Ctl])
        BY <1>13, <3>1, Zenon
      <4> QED
        BY <2>1, <4>1, Dies, Zenon
    <3>2. CASE ~(p \in D /\ p \in members[g])
      <4>1. Stays(p, members[g], bus[g], bus[Ctl], members'[g], bus'[g], bus'[Ctl])
        BY <1>3, <1>9, <3>2, Zenon DEF Stays
      <4> QED
        BY <2>1, <4>1, OthersGo, Zenon
    <3> QED
      BY <3>1, <3>2, Zenon
  <2> QED
    BY <1>2, <1>7, <2>2, Zenon DEF NodeOK
<1>15. ASSUME NEW g \in Groups, NEW p \in Peers PROVE DlmOK(g, p)'
  <2>1. DlmOK(g, p)
    BY <1>1, Zenon
  <2>2. CASE p \in D /\ dlm[g][p] = "in" /\ dlm'[g][p] = "dying"
    <3>1. /\ df[g].on /\ ~Has(results, <<g, p, TRUE>>) /\ p \in members[g]
      <4>1. dlm[g][p] # "out"
        BY <2>2
      <4> QED
        BY <2>1, <2>2, <4>1, Zenon DEF DlmOK
    <3>2. Us \in members[g]
      BY <1>1, <3>1, Zenon DEF PhaseOK, PhaseAt
    <3>3. IsDying(p, members[g], bus[g], queue[g], bus[Ctl],
                  members'[g], bus'[g], bus'[Ctl])
      BY <1>13, <2>2, <3>1, Zenon
    <3>4. PairAt(p, members[g], bus[g], queue[g], bus[Ctl], queue[Ctl],
                 cg[g].cg_nodes, Ctl \in revents, g \in revents)
      BY <1>1, Zenon DEF NodeOK
    <3>5. Awaits(p, bus'[g], queue[g], bus'[Ctl], queue[Ctl], cg[g].cg_nodes)
      BY <3>2, <3>3, <3>4, DiesAwaits, Zenon
    <3>6. dlm'[g][p] # "in"
      BY <2>2
    <3> QED
      BY <1>2, <1>7, <3>1, <3>5, <3>6, Zenon DEF DlmOK
  <2>3. CASE ~(p \in D /\ dlm[g][p] = "in") /\ dlm'[g][p] = dlm[g][p]
    <3>1. (\A j \in DOMAIN bus'[g] : ~Left(bus'[g][j], p)) /\ DOMAIN bus[Ctl] = {}
      BY <1>3, <1>9, Zenon
    <3>2. Awaits(p, bus[g], queue[g], bus[Ctl], queue[Ctl], cg[g].cg_nodes)
            => Awaits(p, bus'[g], queue[g], bus'[Ctl], queue[Ctl], cg[g].cg_nodes)
      BY <3>1, GoAwaits, Zenon
    <3>3. Awaits(p, bus[g], queue[g], bus[Ctl], queue[Ctl], cg[g].cg_nodes)
            => Awaits(p, bus[g], queue[g], bus[Ctl], queue[Ctl], cg[g].cg_nodes)'
      BY <1>2, <1>7, <3>2, Zenon
    <3>4. dlm[g][p] = "in" => p \in members'[g]
      BY <1>3, <1>9, <2>1, <2>3, Zenon DEF DlmOK
    <3> QED
      BY <1>2, <2>1, <2>3, <3>3, <3>4, DlmKeep, Zenon
  <2> QED
    BY <1>5, <2>2, <2>3, Zenon
<1> QED
  BY <1>2, <1>8, <1>10, <1>11, <1>12, <1>14, <1>15, InvNext, Zenon
=============================================================================
