----------------------------- MODULE CpgProofs ------------------------------
(***************************************************************************)
(* What the daemon believes of a group settles on what CPG agreed, for any *)
(* number of nodes, groups, deaths and unread changes.  CpgInv, and that   *)
(* the changes CPG agrees on keep it, is in CpgChanges; here are the steps *)
(* of dlm_controld and of the daemon, and the theorems.                    *)
(***************************************************************************)
EXTENDS CpgChanges

(* Steps that leave CPG and the groups alone. *)
LEMMA CpgFrame ==
  ASSUME CpgInv, Up, members' = members, bus' = bus, queue' = queue, cg' = cg,
         \A c \in Conns : c \in revents' <=> c \in revents,
         \A g \in Groups : df'[g].on = df[g].on
  PROVE  /\ CtlOK' /\ (\A c \in Conns : BusOK(c)')
         /\ (\A g \in Groups : PhaseOK(g)')
         /\ \A g \in Groups, p \in Peers : NodeOK(g, p)'
         /\ \A g \in Groups, p \in Peers :
              Awaits(p, bus[g], queue[g], bus[Ctl], queue[Ctl], cg[g].cg_nodes)'
                <=> Awaits(p, bus[g], queue[g], bus[Ctl], queue[Ctl], cg[g].cg_nodes)
<1>1. /\ TypeOK /\ CtlOK
      /\ \A d \in Conns : BusOK(d)
      /\ \A g \in Groups : PhaseOK(g)
      /\ \A g \in Groups, p \in Peers : NodeOK(g, p)
  BY InvSays, Zenon
<1>2. Ctl \in Conns /\ Groups \subseteq Conns
  BY Constants, Zenon
<1>3. CtlOK'
  BY <1>1, Zenon DEF CtlOK
<1>4. ASSUME NEW c \in Conns PROVE BusOK(c)'
  <2>1. BusAt(members[c], bus[c], queue[c], c \in revents) /\ (c \in revents' <=> c \in revents)
    BY <1>1, Zenon DEF BusOK
  <2>2. BusAt(members[c], bus[c], queue[c], c \in revents')
    BY <2>1, Zenon DEF BusAt
  <2> QED
    BY <2>2, Zenon DEF BusOK
<1>5. ASSUME NEW g \in Groups PROVE PhaseOK(g)'
  <2>1. PhaseOK(g) /\ df'[g].on = df[g].on
    BY <1>1, Zenon
  <2> QED
    BY <2>1, Zenon DEF PhaseOK
<1>6. ASSUME NEW g \in Groups, NEW p \in Peers PROVE NodeOK(g, p)'
  <2>1. PairAt(p, members[g], bus[g], queue[g], bus[Ctl], queue[Ctl],
               cg[g].cg_nodes, Ctl \in revents, g \in revents)
    BY <1>1, Zenon DEF NodeOK
  <2>2. (Ctl \in revents' <=> Ctl \in revents) /\ (g \in revents' <=> g \in revents)
    BY <1>2, Zenon
  <2>3. PairAt(p, members[g], bus[g], queue[g], bus[Ctl], queue[Ctl],
               cg[g].cg_nodes, Ctl \in revents', g \in revents')
    <3>1. MemberAt(p, members[g], queue[g], bus[Ctl], queue[Ctl],
                   cg[g].cg_nodes, Ctl \in revents', g \in revents')
      BY <2>1, <2>2, Zenon DEF PairAt, MemberAt, ReadFirst
    <3>2. PushAt(p, queue[g], queue[Ctl], cg[g].cg_nodes, Ctl \in revents', g \in revents')
      BY <2>1, <2>2, Zenon DEF PairAt, PushAt
    <3> QED
      BY <2>1, <3>1, <3>2, Zenon DEF PairAt
  <2> QED
    BY <2>3, Zenon DEF NodeOK
<1> QED
  BY <1>3, <1>4, <1>5, <1>6, Zenon

LEMMA DlmUpStep ==
  ASSUME CpgInv, Up, ~LateAnswer, NEW h \in Groups, NEW x \in Peers, DlmUp(h, x)
  PROVE  CpgInv'
<1>1. TypeOK /\ \A g \in Groups, p \in Peers : DlmOK(g, p)
  BY InvSays, Zenon
<1>2. /\ daemon' = daemon /\ revents' = revents /\ df' = df /\ cg' = cg
      /\ requests' = requests /\ results' = results
      /\ members' = members /\ bus' = bus /\ queue' = queue
      /\ dlm' = [dlm EXCEPT ![h][x] = "in"] /\ df[h].on /\ x \in members[h]
      /\ dlm[h][x] = "out"
  BY Zenon DEF DlmUp, cpgVars
<1>3. /\ dlm' \in [Groups -> [Peers -> {"out", "in", "dying", "wait"}]]
      /\ dlm'[h][x] = "in"
      /\ \A g \in Groups, p \in Peers : ~(g = h /\ p = x) => dlm'[g][p] = dlm[g][p]
  <2>1. dlm \in [Groups -> [Peers -> {"out", "in", "dying", "wait"}]]
    BY <1>1, Zenon DEF TypeOK
  <2> QED
    BY <1>2, <2>1, SMT
<1>7. ~Has(results, <<h, x, TRUE>>)
  BY <1>2, <1>3, Zenon DEF LateAnswer, Has
<1>4. TypeOK'
  BY <1>1, <1>2, <1>3, Zenon DEF TypeOK
<1>5. /\ CtlOK' /\ (\A c \in Conns : BusOK(c)')
      /\ (\A g \in Groups : PhaseOK(g)')
      /\ \A g \in Groups, p \in Peers : NodeOK(g, p)'
  BY <1>2, CpgFrame, Zenon
<1>6. ASSUME NEW g \in Groups, NEW p \in Peers PROVE DlmOK(g, p)'
  <2>1. CASE g = h /\ p = x
    <3>1. dlm'[g][p] = "in" /\ dlm'[g][p] \notin {"dying", "wait"}
      BY <1>3, <2>1
    <3> QED
      BY <1>2, <1>7, <2>1, <3>1, Zenon DEF DlmOK
  <2>2. CASE ~(g = h /\ p = x)
    <3>1. DlmOK(g, p) /\ dlm'[g][p] = dlm[g][p] /\ (dlm[g][p] = "in" => p \in members'[g])
      BY <1>1, <1>2, <1>3, <2>2, Zenon DEF DlmOK
    <3> QED
      BY <1>2, <3>1, DlmKeep, Zenon
  <2> QED
    BY <2>1, <2>2, Zenon
<1> QED
  BY <1>2, <1>4, <1>5, <1>6, InvNext, Zenon

LEMMA DlmSeesStep ==
  ASSUME CpgInv, Up, NEW h \in Groups, NEW x \in Peers, DlmSees(h, x)
  PROVE  CpgInv'
<1>1. TypeOK /\ \A g \in Groups, p \in Peers : DlmOK(g, p)
  BY InvSays, Zenon
<1>2. /\ daemon' = daemon /\ revents' = revents /\ df' = df /\ cg' = cg
      /\ requests' = requests /\ results' = results
      /\ members' = members /\ bus' = bus /\ queue' = queue
      /\ dlm' = [dlm EXCEPT ![h][x] = "wait"] /\ dlm[h][x] = "dying"
  BY Zenon DEF DlmSees, cpgVars
<1>3. /\ dlm' \in [Groups -> [Peers -> {"out", "in", "dying", "wait"}]]
      /\ dlm'[h][x] = "wait"
      /\ \A g \in Groups, p \in Peers : ~(g = h /\ p = x) => dlm'[g][p] = dlm[g][p]
  <2>1. dlm \in [Groups -> [Peers -> {"out", "in", "dying", "wait"}]]
    BY <1>1, Zenon DEF TypeOK
  <2> QED
    BY <1>2, <2>1, SMT
<1>4. TypeOK'
  BY <1>1, <1>2, <1>3, Zenon DEF TypeOK
<1>5. /\ CtlOK' /\ (\A c \in Conns : BusOK(c)')
      /\ (\A g \in Groups : PhaseOK(g)')
      /\ \A g \in Groups, p \in Peers : NodeOK(g, p)'
  BY <1>2, CpgFrame, Zenon
<1>6. ASSUME NEW g \in Groups, NEW p \in Peers PROVE DlmOK(g, p)'
  <2>1. CASE g = h /\ p = x
    <3>1. /\ dlm'[g][p] = "wait" /\ dlm'[g][p] # "in"
          /\ dlm[g][p] # "out" /\ dlm[g][p] \in {"dying", "wait"}
      BY <1>2, <1>3, <2>1
    <3>2. DlmOK(g, p)
      BY <1>1, Zenon
    <3> QED
      BY <1>2, <3>1, <3>2, Zenon DEF DlmOK
  <2>2. CASE ~(g = h /\ p = x)
    <3>1. DlmOK(g, p) /\ dlm'[g][p] = dlm[g][p] /\ (dlm[g][p] = "in" => p \in members'[g])
      BY <1>1, <1>2, <1>3, <2>2, Zenon DEF DlmOK
    <3> QED
      BY <1>2, <3>1, DlmKeep, Zenon
  <2> QED
    BY <2>1, <2>2, Zenon
<1> QED
  BY <1>2, <1>4, <1>5, <1>6, InvNext, Zenon

(* An answer takes the place of the notification it answers: a good one    *)
(* only when dlm_controld then no longer waits.                            *)
LEMMA DlmAnswerStep ==
  ASSUME CpgInv, Up, DlmAnswer
  PROVE  CpgInv'
<1>1. TypeOK /\ \A g \in Groups, p \in Peers : DlmOK(g, p)
  BY InvSays, Zenon
<1>2. /\ daemon' = daemon /\ revents' = revents /\ df' = df /\ cg' = cg
      /\ members' = members /\ bus' = bus /\ queue' = queue
  BY Zenon DEF DlmAnswer, cpgVars
<1>3. PICK h \in Groups, x \in Peers :
        /\ requests' \in Seq(Groups \X Peers)
        /\ results' \in Seq(Groups \X Peers \X BOOLEAN)
        /\ \A y : Has(requests, y) <=> Has(requests', y) \/ y = <<h, x>>
        /\ \A y : Has(results', y) <=>
                    Has(results, y) \/ y = <<h, x, dlm[h][x] \in {"wait", "out"}>>
        /\ dlm' = [dlm EXCEPT ![h][x] = IF @ = "wait" THEN "out" ELSE @]
  BY <1>1, AnswerDoes, Zenon
<1>4. /\ dlm' \in [Groups -> [Peers -> {"out", "in", "dying", "wait"}]]
      /\ dlm[h][x] \in {"wait", "out"} => dlm'[h][x] = "out"
      /\ dlm[h][x] \notin {"wait", "out"} => dlm'[h][x] = dlm[h][x]
      /\ \A g \in Groups, p \in Peers : ~(g = h /\ p = x) => dlm'[g][p] = dlm[g][p]
  <2>1. dlm \in [Groups -> [Peers -> {"out", "in", "dying", "wait"}]]
    BY <1>1, Zenon DEF TypeOK
  <2> QED
    BY <1>3, <2>1, SMT
<1>5. TypeOK'
  BY <1>1, <1>2, <1>3, <1>4, Zenon DEF TypeOK
<1>6. /\ CtlOK' /\ (\A c \in Conns : BusOK(c)')
      /\ (\A g \in Groups : PhaseOK(g)')
      /\ \A g \in Groups, p \in Peers : NodeOK(g, p)'
  BY <1>2, CpgFrame, Zenon
<1>7. ASSUME NEW g \in Groups, NEW p \in Peers PROVE DlmOK(g, p)'
  <2>1. DlmOK(g, p)
    BY <1>1, Zenon
  <2>2. CASE g = h /\ p = x /\ dlm[h][x] \in {"wait", "out"}
    BY <1>4, <2>2, DlmOut, Zenon
  <2>3. CASE g = h /\ p = x /\ dlm[h][x] \notin {"wait", "out"}
    <3>1. (dlm[h][x] \in {"wait", "out"}) = FALSE
      BY <2>3
    <3>2. \A y : Has(results', y) <=> Has(results, y) \/ y = <<g, p, FALSE>>
      BY <1>3, <2>3, <3>1, Zenon
    <3>3. <<g, p, TRUE>> # <<g, p, FALSE>>
      BY SMT
    <3>4. ~Has(results, <<g, p, TRUE>>) => ~Has(results', <<g, p, TRUE>>)
      BY <3>2, <3>3, Zenon
    <3>5. Has(results', <<g, p, FALSE>>)
      BY <3>2, Zenon
    <3>6. dlm'[g][p] = dlm[g][p]
      BY <1>4, <2>3, Zenon
    <3> QED
      BY <1>2, <2>1, <3>4, <3>5, <3>6, Zenon DEF DlmOK
  <2>4. CASE ~(g = h /\ p = x)
    <3>1. \A a, b : <<g, p>> # <<h, x>> /\ <<g, p, a>> # <<h, x, b>>
      BY <2>4, SMT
    <3>2. /\ Has(requests', <<g, p>>) <=> Has(requests, <<g, p>>)
          /\ Has(results', <<g, p, TRUE>>) <=> Has(results, <<g, p, TRUE>>)
          /\ Has(results', <<g, p, FALSE>>) <=> Has(results, <<g, p, FALSE>>)
      BY <1>3, <3>1, Zenon
    <3>3. dlm'[g][p] = dlm[g][p]
      BY <1>4, <2>4, Zenon
    <3> QED
      BY <1>2, <2>1, <3>2, <3>3, Zenon DEF DlmOK
  <2> QED
    BY <2>2, <2>3, <2>4, Zenon
<1> QED
  BY <1>2, <1>5, <1>6, <1>7, InvNext, Zenon

(* Whether this pass has still to serve a connection, by equivalence. *)
LEMMA SamePass ==
  ASSUME NEW p, NEW M, NEW b, NEW q, NEW B, NEW C, NEW N, NEW rc, NEW rg, NEW rc2, NEW rg2,
         rc2 <=> rc, rg2 <=> rg, PairAt(p, M, b, q, B, C, N, rc, rg)
  PROVE  PairAt(p, M, b, q, B, C, N, rc2, rg2)
<1>1. MemberAt(p, M, q, B, C, N, rc2, rg2)
  BY Zenon DEF PairAt, MemberAt, ReadFirst
<1>2. PushAt(p, q, C, N, rc2, rg2)
  BY Zenon DEF PairAt, PushAt
<1> QED
  BY <1>1, <1>2, Zenon DEF PairAt

LEMMA PollStep ==
  ASSUME CpgInv, Up, Poll
  PROVE  CpgInv'
<1>1. /\ TypeOK /\ CtlOK
      /\ \A d \in Conns : BusOK(d)
      /\ \A g \in Groups : PhaseOK(g)
      /\ \A g \in Groups, p \in Peers : NodeOK(g, p)
      /\ \A g \in Groups, p \in Peers : DlmOK(g, p)
  BY InvSays, Zenon
<1>2. /\ daemon' = daemon /\ df' = df /\ cg' = cg /\ requests' = requests /\ results' = results
      /\ dlm' = dlm /\ members' = members /\ bus' = bus /\ queue' = queue
      /\ revents = {} /\ revents' = Ready
  BY Zenon DEF Poll, cpgVars, dlmVars
<1>3. Ctl \in Conns /\ Groups \subseteq Conns /\ Dlm \notin Conns
  BY Constants, Zenon
<1>4. /\ revents' \subseteq Conns \cup {Dlm}
      /\ \A c \in Conns : c \in revents' <=> queue[c] # <<>>
  BY <1>2, <1>3, Zenon DEF Ready
<1>5. ASSUME NEW c \in Conns
      PROVE  /\ \E n \in Nat : DOMAIN queue[c] = 1 .. n
             /\ c \in revents' <=> 1 \in DOMAIN queue[c]
  <2>1. queue[c] \in Seq(Events)
    BY <1>1, Zenon DEF TypeOK
  <2>2. Len(queue[c]) \in Nat /\ DOMAIN queue[c] = 1 .. Len(queue[c])
    BY <2>1, SMT
  <2>3. queue[c] # <<>> <=> 1 \in DOMAIN queue[c]
    BY <2>1, SMT
  <2> QED
    BY <1>4, <2>2, <2>3, Zenon
<1>6. TypeOK'
  BY <1>1, <1>2, <1>4, Zenon DEF TypeOK
<1>7. CtlOK'
  BY <1>1, <1>2, Zenon DEF CtlOK
<1>8. ASSUME NEW c \in Conns PROVE BusOK(c)'
  <2>1. BusAt(members[c], bus[c], queue[c], c \in revents)
    BY <1>1, Zenon DEF BusOK
  <2>2. BusAt(members[c], bus[c], queue[c], c \in revents')
    BY <1>5, <2>1, Zenon DEF BusAt
  <2> QED
    BY <1>2, <2>2, Zenon DEF BusOK
<1>9. ASSUME NEW g \in Groups PROVE PhaseOK(g)'
  BY <1>1, <1>2, Zenon DEF PhaseOK
<1>10. PolledCtl(queue[Ctl], Ctl \in revents')
  BY <1>3, <1>5, Zenon DEF PolledCtl
<1>11. ASSUME NEW g \in Groups, NEW p \in Peers PROVE NodeOK(g, p)'
  <2>1. PairAt(p, members[g], bus[g], queue[g], bus[Ctl], queue[Ctl],
               cg[g].cg_nodes, Ctl \in revents, g \in revents)
    BY <1>1, Zenon DEF NodeOK
  <2>2. (FALSE <=> Ctl \in revents) /\ (FALSE <=> g \in revents)
    BY <1>2, Zenon
  <2>3. PairAt(p, members[g], bus[g], queue[g], bus[Ctl], queue[Ctl],
               cg[g].cg_nodes, FALSE, FALSE)
    BY <2>1, <2>2, Zenon DEF PairAt, MemberAt, ReadFirst, PushAt
  <2>4. PairAt(p, members[g], bus[g], queue[g], bus[Ctl], queue[Ctl],
               cg[g].cg_nodes, Ctl \in revents', g \in revents')
    BY <1>10, <2>3, Polled, Zenon
  <2> QED
    BY <1>2, <2>4, Zenon DEF NodeOK
<1>12. ASSUME NEW g \in Groups, NEW p \in Peers PROVE DlmOK(g, p)'
  BY <1>1, <1>2, DlmFrame, Zenon
<1> QED
  BY <1>2, <1>6, <1>7, <1>8, <1>9, <1>11, <1>12, InvNext, Zenon

LEMMA NotifyResultStep ==
  ASSUME CpgInv, Up, NotifyResult
  PROVE  CpgInv'
<1>1. TypeOK /\ \A g \in Groups, p \in Peers : DlmOK(g, p)
  BY InvSays, Zenon
<1>2. /\ daemon' = daemon /\ revents' = revents \ {Dlm} /\ cg' = cg /\ dlm' = dlm
      /\ members' = members /\ bus' = bus /\ queue' = queue
  BY Zenon DEF NotifyResult, cpgVars
<1>3. Dlm \notin Conns
  BY Constants, Zenon
<1>4. \A c \in Conns : c \in revents' <=> c \in revents
  BY <1>2, <1>3, Zenon
<1>5. PICK h \in Groups, x \in Peers, ok \in BOOLEAN : Answered(h, x, ok)
  BY <1>1, ResultDoes, Zenon
<1>6. \A g \in Groups : df'[g].on = df[g].on
  BY <1>5, Zenon DEF Answered
<1>7. TypeOK'
  <2>1. revents' \subseteq Conns \cup {Dlm}
    BY <1>1, <1>2, Zenon DEF TypeOK
  <2> QED
    BY <1>1, <1>2, <1>5, <2>1, Zenon DEF TypeOK, Answered
<1>8. /\ CtlOK' /\ (\A c \in Conns : BusOK(c)')
      /\ (\A g \in Groups : PhaseOK(g)')
      /\ \A g \in Groups, p \in Peers : NodeOK(g, p)'
  BY <1>2, <1>4, <1>6, CpgFrame, Zenon
<1>9. ASSUME NEW g \in Groups, NEW p \in Peers PROVE DlmOK(g, p)'
  <2>1. DlmOK(g, p) /\ df'[g].on = df[g].on
    BY <1>1, <1>6, Zenon
  <2>2. ~Has(results, <<g, p, TRUE>>) => ~Has(results', <<g, p, TRUE>>)
    BY <1>5, Zenon DEF Answered
  <2>3. dlm'[g][p] = "in" => p \in members'[g]
    BY <1>2, <2>1, Zenon DEF DlmOK
  <2>4. ASSUME dlm[g][p] # "out", p \in df[g].notifications,
               Has(requests, <<g, p>>) \/ Has(results, <<g, p, FALSE>>)
        PROVE  /\ p \in df'[g].notifications
               /\ Has(requests', <<g, p>>) \/ Has(results', <<g, p, FALSE>>)
    <3>1. df[g].on /\ ~Has(results, <<g, p, TRUE>>)
      BY <2>1, <2>4, Zenon DEF DlmOK
    <3>2. ~(g = h /\ p = x /\ ok = TRUE)
      BY <1>5, <3>1, Zenon DEF Answered
    <3>3. p \in df'[g].notifications
      BY <1>5, <2>4, <3>2, Zenon DEF Answered
    <3>4. CASE Has(requests, <<g, p>>)
      BY <1>5, <3>3, <3>4, Zenon DEF Answered
    <3>5. CASE Has(results, <<g, p, FALSE>>) /\ <<g, p, FALSE>> # <<h, x, ok>>
      BY <1>5, <3>3, <3>5, Zenon DEF Answered
    <3>6. CASE <<g, p, FALSE>> = <<h, x, ok>>
      <4>4. \A a : <<g, p, FALSE>> = <<h, x, a>> => g = h /\ p = x
        BY SMT
      <4>5. <<g, p, FALSE>> # <<h, x, TRUE>>
        BY SMT
      <4>6. ok = TRUE \/ ok = FALSE
        BY Zenon
      <4>1. g = h /\ p = x /\ ok = FALSE
        BY <3>6, <4>4, <4>5, <4>6, Zenon
      <4>2. find_notification(h, x)
        BY <2>4, <3>1, <4>1, Zenon DEF find_notification
      <4>3. Has(requests', <<h, x>>)
        BY <1>5, <4>1, <4>2, Zenon DEF Answered
      <4> QED
        BY <3>3, <4>1, <4>3, Zenon
    <3> QED
      BY <2>4, <3>4, <3>5, <3>6, Zenon
  <2>5. dlm[g][p] \in {"dying", "wait"} => dlm[g][p] # "out"
    OBVIOUS
  <2> QED
    BY <1>2, <2>1, <2>2, <2>3, <2>4, <2>5, Zenon DEF DlmOK
<1> QED
  BY <1>2, <1>7, <1>8, <1>9, InvNext, Zenon

(* cg_nodes of every group stays. *)
LEMMA NodesFrame ==
  ASSUME CpgInv, Up, members' = members, bus' = bus, queue' = queue, revents' = revents,
         \A g \in Groups : cg'[g].cg_nodes = cg[g].cg_nodes
  PROVE  /\ CtlOK' /\ (\A c \in Conns : BusOK(c)')
         /\ \A g \in Groups, p \in Peers : NodeOK(g, p)'
         /\ \A g \in Groups, p \in Peers :
              Awaits(p, bus[g], queue[g], bus[Ctl], queue[Ctl], cg[g].cg_nodes)
                => Awaits(p, bus[g], queue[g], bus[Ctl], queue[Ctl], cg[g].cg_nodes)'
<1>1. /\ CtlOK /\ \A d \in Conns : BusOK(d)
      /\ \A g \in Groups, p \in Peers : NodeOK(g, p)
  BY InvSays, Zenon
<1>2. CtlOK'
  BY <1>1, Zenon DEF CtlOK
<1>3. ASSUME NEW c \in Conns PROVE BusOK(c)'
  BY <1>1, BusFrame, Zenon
<1>4. ASSUME NEW g \in Groups, NEW p \in Peers
      PROVE  /\ NodeOK(g, p)'
             /\ Awaits(p, bus[g], queue[g], bus[Ctl], queue[Ctl], cg[g].cg_nodes)
                => Awaits(p, bus[g], queue[g], bus[Ctl], queue[Ctl], cg[g].cg_nodes)'
  <2>1. cg'[g].cg_nodes = cg[g].cg_nodes /\ NodeOK(g, p)
    BY <1>1, Zenon
  <2> QED
    BY <2>1, Zenon DEF NodeOK
<1> QED
  BY <1>2, <1>3, <1>4, Zenon

LEMMA StateDoes ==
  ASSUME TypeOK, NEW h \in Groups, NEW s \in {"none", "asked", "in", "leaving"},
         cg' = [cg EXCEPT ![h].cpg_state = s]
  PROVE  /\ cg' \in [Groups -> Cgroups] /\ cg'[h].cpg_state = s
         /\ cg'[h].cg_joined = cg[h].cg_joined /\ cg'[h].cg_nodes = cg[h].cg_nodes
         /\ \A g \in Groups : g # h => cg'[g] = cg[g]
<1>1. cg \in [Groups -> Cgroups]
  BY Zenon DEF TypeOK
<1> QED
  BY <1>1, SMT DEF Cgroups

LEMMA GroupJoinStep ==
  ASSUME CpgInv, Up, NEW h \in Groups, GroupJoin(h)
  PROVE  CpgInv'
<1>1. /\ TypeOK /\ (\A g \in Groups : PhaseOK(g))
      /\ \A g \in Groups, p \in Peers : DlmOK(g, p)
  BY InvSays, Zenon
<1>2. /\ daemon' = daemon /\ revents' = revents /\ df' = df
      /\ requests' = requests /\ results' = results /\ dlm' = dlm
      /\ members' = members /\ bus' = bus /\ queue' = queue
      /\ cg[h].cpg_state = "none" /\ cg' = [cg EXCEPT ![h].cpg_state = "asked"]
  BY Zenon DEF GroupJoin, cpgVars, dlmVars
<1>3. /\ cg' \in [Groups -> Cgroups] /\ cg'[h].cpg_state = "asked"
      /\ cg'[h].cg_joined = cg[h].cg_joined /\ cg'[h].cg_nodes = cg[h].cg_nodes
      /\ \A g \in Groups : g # h => cg'[g] = cg[g]
  BY <1>1, <1>2, StateDoes, Zenon
<1>4. \A g \in Groups : cg'[g].cg_nodes = cg[g].cg_nodes
  BY <1>3, Zenon
<1>5. TypeOK'
  BY <1>1, <1>2, <1>3, Zenon DEF TypeOK
<1>6. /\ CtlOK' /\ (\A c \in Conns : BusOK(c)')
      /\ \A g \in Groups, p \in Peers : NodeOK(g, p)'
      /\ \A g \in Groups, p \in Peers :
           Awaits(p, bus[g], queue[g], bus[Ctl], queue[Ctl], cg[g].cg_nodes)
             => Awaits(p, bus[g], queue[g], bus[Ctl], queue[Ctl], cg[g].cg_nodes)'
  BY <1>2, <1>4, NodesFrame, Zenon
<1>7. ASSUME NEW g \in Groups PROVE PhaseOK(g)'
  <2>1. CASE g = h
    <3>1. PhaseAt("none", cg[h].cg_joined, cg[h].cg_nodes,
                  members[h], bus[h], queue[h], df[h].on)
      BY <1>1, <1>2, Zenon DEF PhaseOK
    <3>2. PhaseAt("asked", cg[h].cg_joined, cg[h].cg_nodes,
                  members[h], bus[h], queue[h], df[h].on)
      BY <3>1, PhaseAsk, Zenon
    <3> QED
      BY <1>2, <1>3, <2>1, <3>2, Zenon DEF PhaseOK
  <2>2. CASE g # h
    BY <1>1, <1>2, <1>3, <2>2, PhaseFrame, Zenon
  <2> QED
    BY <2>1, <2>2, Zenon
<1>8. ASSUME NEW g \in Groups, NEW p \in Peers PROVE DlmOK(g, p)'
  BY <1>1, <1>2, <1>6, DlmFrame, Zenon
<1> QED
  BY <1>2, <1>5, <1>6, <1>7, <1>8, InvNext, Zenon

LEMMA GroupLeaveStep ==
  ASSUME CpgInv, Up, NEW h \in Groups, GroupLeave(h)
  PROVE  CpgInv'
<1>1. /\ TypeOK /\ (\A g \in Groups : PhaseOK(g))
      /\ \A g \in Groups, p \in Peers : DlmOK(g, p)
  BY InvSays, Zenon
<1>2. /\ daemon' = daemon /\ revents' = revents /\ df' = [df EXCEPT ![h] = NoFs]
      /\ requests' = requests /\ results' = results
      /\ dlm' = [dlm EXCEPT ![h] = [p \in Peers |-> "out"]]
      /\ members' = members /\ bus' = bus /\ queue' = queue
      /\ cg[h].cpg_state = "in" /\ cg[h].cg_joined
      /\ cg' = [cg EXCEPT ![h].cpg_state = "leaving"]
  BY Zenon DEF GroupLeave, cpgVars
<1>3. /\ cg' \in [Groups -> Cgroups] /\ cg'[h].cpg_state = "leaving"
      /\ cg'[h].cg_joined = cg[h].cg_joined /\ cg'[h].cg_nodes = cg[h].cg_nodes
      /\ \A g \in Groups : g # h => cg'[g] = cg[g]
  BY <1>1, <1>2, StateDoes, Zenon
<1>4. \A g \in Groups : cg'[g].cg_nodes = cg[g].cg_nodes
  BY <1>3, Zenon
<1>9. /\ df' \in [Groups -> [on : BOOLEAN, notifications : SUBSET Peers]]
      /\ df'[h].on = FALSE /\ \A g \in Groups : g # h => df'[g] = df[g]
  <2>1. df \in [Groups -> [on : BOOLEAN, notifications : SUBSET Peers]]
    BY <1>1, Zenon DEF TypeOK
  <2>2. NoFs \in [on : BOOLEAN, notifications : SUBSET Peers] /\ NoFs.on = FALSE
    BY SMT DEF NoFs
  <2> QED
    BY <1>2, <2>1, <2>2, Zenon
<1>10. /\ dlm' \in [Groups -> [Peers -> {"out", "in", "dying", "wait"}]]
       /\ \A p \in Peers : dlm'[h][p] = "out"
       /\ \A g \in Groups : g # h => dlm'[g] = dlm[g]
  <2>1. dlm \in [Groups -> [Peers -> {"out", "in", "dying", "wait"}]]
    BY <1>1, Zenon DEF TypeOK
  <2> QED
    BY <1>2, <2>1, SMT
<1>5. TypeOK'
  BY <1>1, <1>2, <1>3, <1>9, <1>10, Zenon DEF TypeOK
<1>6. /\ CtlOK' /\ (\A c \in Conns : BusOK(c)')
      /\ \A g \in Groups, p \in Peers : NodeOK(g, p)'
      /\ \A g \in Groups, p \in Peers :
           Awaits(p, bus[g], queue[g], bus[Ctl], queue[Ctl], cg[g].cg_nodes)
             => Awaits(p, bus[g], queue[g], bus[Ctl], queue[Ctl], cg[g].cg_nodes)'
  BY <1>2, <1>4, NodesFrame, Zenon
<1>7. ASSUME NEW g \in Groups PROVE PhaseOK(g)'
  <2>1. CASE g = h
    <3>1. PhaseAt("in", cg[h].cg_joined, cg[h].cg_nodes,
                  members[h], bus[h], queue[h], df[h].on)
      BY <1>1, <1>2, Zenon DEF PhaseOK
    <3>2. PhaseAt("leaving", cg[h].cg_joined, cg[h].cg_nodes,
                  members[h], bus[h], queue[h], FALSE)
      BY <1>2, <3>1, PhaseGoing, Zenon
    <3> QED
      BY <1>2, <1>3, <1>9, <2>1, <3>2, Zenon DEF PhaseOK
  <2>2. CASE g # h
    BY <1>1, <1>2, <1>3, <1>9, <2>2, PhaseFrame, Zenon
  <2> QED
    BY <2>1, <2>2, Zenon
<1>8. ASSUME NEW g \in Groups, NEW p \in Peers PROVE DlmOK(g, p)'
  <2>1. CASE g = h
    BY <1>10, <2>1, DlmOut, Zenon
  <2>2. CASE g # h
    <3>1. dlm'[g][p] = dlm[g][p] /\ df'[g] = df[g] /\ DlmOK(g, p)
      BY <1>1, <1>9, <1>10, <2>2, Zenon
    <3>2. Awaits(p, bus[g], queue[g], bus[Ctl], queue[Ctl], cg[g].cg_nodes)
             => Awaits(p, bus[g], queue[g], bus[Ctl], queue[Ctl], cg[g].cg_nodes)'
      BY <1>6, Zenon
    <3> QED
      BY <1>2, <3>1, <3>2, Zenon DEF DlmOK
  <2> QED
    BY <2>1, <2>2, Zenon
<1> QED
  BY <1>2, <1>5, <1>6, <1>7, <1>8, InvNext, Zenon

(* A daemon that has gone does nothing. *)
LEMMA ShutdownStep ==
  ASSUME CpgInv, shutdown_daemon
  PROVE  CpgInv'
<1>1. TypeOK /\ daemon' = "exited"
  BY Zenon DEF CpgInv, shutdown_daemon
<1>2. TypeOK'
  BY <1>1, Zenon DEF shutdown_daemon, cpgVars, dlmVars, TypeOK
<1>3. daemon' # "lost" /\ daemon' # "up"
  BY <1>1
<1> QED
  BY <1>2, <1>3, Zenon DEF CpgInv, Up

(* Reading one group's connection, for the others. *)
ReadsOnly(h) ==
  /\ members' = members /\ bus' = bus
  /\ \A d \in Conns : d # h => queue'[d] = queue[d] /\ (d \in revents' <=> d \in revents)
  /\ \A g \in Groups : g # h => cg'[g] = cg[g] /\ df'[g].on = df[g].on

LEMMA ReadFrame ==
  ASSUME CpgInv, Up, NEW h \in Groups, ReadsOnly(h)
  PROVE  /\ CtlOK' /\ (\A c \in Conns : c # h => BusOK(c)')
         /\ (\A g \in Groups : g # h => PhaseOK(g)')
         /\ \A g \in Groups, p \in Peers : g # h => NodeOK(g, p)'
         /\ \A g \in Groups, p \in Peers : g # h =>
              (Awaits(p, bus[g], queue[g], bus[Ctl], queue[Ctl], cg[g].cg_nodes)
                 => Awaits(p, bus[g], queue[g], bus[Ctl], queue[Ctl], cg[g].cg_nodes)')
<1>1. /\ CtlOK /\ (\A d \in Conns : BusOK(d)) /\ (\A g \in Groups : PhaseOK(g))
      /\ \A g \in Groups, p \in Peers : NodeOK(g, p)
  BY InvSays, Zenon
<1>2. Ctl \in Conns /\ Groups \subseteq Conns /\ Ctl # h
  BY Constants, Zenon
<1>3. /\ members' = members /\ bus' = bus
      /\ queue'[Ctl] = queue[Ctl] /\ (Ctl \in revents' <=> Ctl \in revents)
  BY <1>2, Zenon DEF ReadsOnly
<1>4. CtlOK'
  BY <1>1, <1>3, Zenon DEF CtlOK
<1>5. ASSUME NEW c \in Conns, c # h PROVE BusOK(c)'
  <2>1. BusAt(members[c], bus[c], queue[c], c \in revents) /\ (c \in revents' <=> c \in revents)
        /\ queue'[c] = queue[c]
    BY <1>1, <1>5, Zenon DEF BusOK, ReadsOnly
  <2>2. BusAt(members[c], bus[c], queue[c], c \in revents')
    BY <2>1, Zenon DEF BusAt
  <2> QED
    BY <1>3, <2>1, <2>2, Zenon DEF BusOK
<1>6. ASSUME NEW g \in Groups, g # h
      PROVE  /\ queue'[g] = queue[g] /\ (g \in revents' <=> g \in revents)
             /\ cg'[g] = cg[g] /\ df'[g].on = df[g].on
  BY <1>2, <1>6, Zenon DEF ReadsOnly
<1>7. ASSUME NEW g \in Groups, g # h PROVE PhaseOK(g)'
  <2>1. PhaseOK(g) /\ queue'[g] = queue[g] /\ cg'[g] = cg[g] /\ df'[g].on = df[g].on
    BY <1>1, <1>6, <1>7, Zenon
  <2> QED
    BY <1>3, <2>1, Zenon DEF PhaseOK
<1>8. ASSUME NEW g \in Groups, NEW p \in Peers, g # h PROVE NodeOK(g, p)'
  <2>1. PairAt(p, members[g], bus[g], queue[g], bus[Ctl], queue[Ctl],
               cg[g].cg_nodes, Ctl \in revents, g \in revents)
    BY <1>1, Zenon DEF NodeOK
  <2>2. queue'[g] = queue[g] /\ (g \in revents' <=> g \in revents) /\ cg'[g] = cg[g]
    BY <1>6, <1>8, Zenon
  <2>3. PairAt(p, members[g], bus[g], queue[g], bus[Ctl], queue[Ctl],
               cg[g].cg_nodes, Ctl \in revents', g \in revents')
    BY <1>3, <2>1, <2>2, SamePass
  <2> QED
    BY <1>3, <2>2, <2>3, Zenon DEF NodeOK
<1>9. ASSUME NEW g \in Groups, NEW p \in Peers, g # h,
             Awaits(p, bus[g], queue[g], bus[Ctl], queue[Ctl], cg[g].cg_nodes)
      PROVE  Awaits(p, bus[g], queue[g], bus[Ctl], queue[Ctl], cg[g].cg_nodes)'
  <2>1. queue'[g] = queue[g] /\ cg'[g] = cg[g]
    BY <1>6, <1>9, Zenon
  <2> QED
    BY <1>3, <1>9, <2>1, Zenon
<1> QED
  BY <1>4, <1>5, <1>7, <1>8, <1>9, Zenon

(* A change of group h is read, and does to cg_nodes what it says. *)
Follows(h) ==
  \A p \in Peers : p \in cg'[h].cg_nodes <=>
    Tells(queue[h][1], p) \/ (p \in cg[h].cg_nodes /\ ~Left(queue[h][1], p))

LEMMA GroupReadStep ==
  ASSUME CpgInv, Up, NEW h \in Groups, process_cpg(h), Follows(h), PhaseOK(h)',
         daemon' = daemon, requests' = requests, results' = results, dlm' = dlm,
         cg' \in [Groups -> Cgroups], \A g \in Groups : g # h => cg'[g] = cg[g],
         df' \in [Groups -> [on : BOOLEAN, notifications : SUBSET Peers]],
         \A g \in Groups : g # h => df'[g] = df[g],
         df[h].on => df'[h].on, df'[h].notifications = df[h].notifications
  PROVE  CpgInv'
<1>1. /\ TypeOK /\ CtlOK
      /\ \A d \in Conns : BusOK(d)
      /\ \A g \in Groups, p \in Peers : NodeOK(g, p)
      /\ \A g \in Groups, p \in Peers : DlmOK(g, p)
  BY InvSays, Zenon
<1>2. Ctl \in Conns /\ Groups \subseteq Conns /\ h \in Conns /\ Ctl # h
  BY Constants, Zenon
<1>3. /\ queue' \in [Conns -> Seq(Events)] /\ members' = members /\ bus' = bus
      /\ \A d \in Conns \ {h} : queue'[d] = queue[d] /\ (d \in revents' <=> d \in revents)
      /\ Shrunk(queue[h], queue'[h])
      /\ revents' \subseteq revents /\ h \in revents /\ h \notin revents'
      /\ Ctl \notin revents
  BY <1>1, <1>2, ProcessDoes, Zenon
<1>4. ReadsOnly(h)
  BY <1>3, Zenon DEF ReadsOnly
<1>5. /\ CtlOK' /\ (\A c \in Conns : c # h => BusOK(c)')
      /\ (\A g \in Groups : g # h => PhaseOK(g)')
      /\ \A g \in Groups, p \in Peers : g # h => NodeOK(g, p)'
      /\ \A g \in Groups, p \in Peers : g # h =>
           (Awaits(p, bus[g], queue[g], bus[Ctl], queue[Ctl], cg[g].cg_nodes)
              => Awaits(p, bus[g], queue[g], bus[Ctl], queue[Ctl], cg[g].cg_nodes)')
  BY <1>4, ReadFrame, Zenon
<1>6. TypeOK'
  <2>1. revents' \subseteq Conns \cup {Dlm}
    BY <1>1, <1>3, Zenon DEF TypeOK
  <2> QED
    BY <1>1, <1>3, <2>1, Zenon DEF TypeOK
<1>7. BusOK(h)' /\ EventOK(queue[h][1])
  <2>1. BusAt(members[h], bus[h], queue[h], h \in revents)
    BY <1>1, <1>2, Zenon DEF BusOK
  <2>2. BusAt(members[h], bus[h], queue'[h], FALSE) /\ EventOK(queue[h][1])
    BY <1>3, <2>1, BusRead, Zenon
  <2>3. BusAt(members[h], bus[h], queue'[h], h \in revents')
    BY <1>3, <2>2, Zenon DEF BusAt
  <2> QED
    BY <1>3, <2>2, <2>3, Zenon DEF BusOK
<1>8. ASSUME NEW p \in Peers
      PROVE  GroupRead(p, members[h], queue[h], bus[Ctl], cg[h].cg_nodes,
                       queue'[h], cg'[h].cg_nodes)
  <2>1. p \in members[h] => p \in members[Ctl]
    BY <1>1, Constants, Zenon DEF CtlOK
  <2>2. \A j \in DOMAIN bus[Ctl] : bus[Ctl][j].left \cap members[Ctl] = {}
    BY <1>1, <1>2, Zenon DEF BusOK, BusAt
  <2>3. p \in members[h] => \A j \in DOMAIN bus[Ctl] : ~Died(bus[Ctl][j], p)
    BY <2>1, <2>2, Zenon DEF Died
  <2>4. p \in cg'[h].cg_nodes <=>
          Tells(queue[h][1], p) \/ (p \in cg[h].cg_nodes /\ ~Left(queue[h][1], p))
    BY Zenon DEF Follows
  <2> QED
    BY <1>3, <1>7, <2>3, <2>4, Zenon DEF GroupRead
<1>9. ASSUME NEW p \in Peers PROVE NodeOK(h, p)'
  <2>1. PairAt(p, members[h], bus[h], queue[h], bus[Ctl], queue[Ctl],
               cg[h].cg_nodes, Ctl \in revents, h \in revents)
    BY <1>1, Zenon DEF NodeOK
  <2>3. PairAt(p, members[h], bus[h], queue[h], bus[Ctl], queue[Ctl],
               cg[h].cg_nodes, FALSE, TRUE)
    <3>1. MemberAt(p, members[h], queue[h], bus[Ctl], queue[Ctl], cg[h].cg_nodes, FALSE, TRUE)
      BY <1>3, <2>1, Zenon DEF PairAt, MemberAt, ReadFirst
    <3>2. PushAt(p, queue[h], queue[Ctl], cg[h].cg_nodes, FALSE, TRUE)
      BY <1>3, <2>1, Zenon DEF PairAt, PushAt
    <3> QED
      BY <2>1, <3>1, <3>2, Zenon DEF PairAt
  <2>4. PairAt(p, members[h], bus[h], queue'[h], bus[Ctl], queue[Ctl],
               cg'[h].cg_nodes, FALSE, FALSE)
    BY <1>8, <2>3, ReadGroup, Zenon
  <2>5. (Ctl \in revents' <=> FALSE) /\ (h \in revents' <=> FALSE)
    BY <1>3, Zenon
  <2>6. PairAt(p, members[h], bus[h], queue'[h], bus[Ctl], queue[Ctl],
               cg'[h].cg_nodes, Ctl \in revents', h \in revents')
    BY <2>4, <2>5, SamePass, Zenon
  <2>7. queue'[Ctl] = queue[Ctl]
    BY <1>2, <1>3, Zenon
  <2> QED
    BY <1>3, <2>6, <2>7, Zenon DEF NodeOK
<1>10. ASSUME NEW p \in Peers,
              Awaits(p, bus[h], queue[h], bus[Ctl], queue[Ctl], cg[h].cg_nodes)
       PROVE  Awaits(p, bus[h], queue[h], bus[Ctl], queue[Ctl], cg[h].cg_nodes)'
  <2>3. GroupRead(p, members[h], queue[h], bus[Ctl], cg[h].cg_nodes,
                  queue'[h], cg'[h].cg_nodes)
    BY <1>8, Zenon
  <2>4. Awaits(p, bus[h], queue[h], bus[Ctl], queue[Ctl], cg[h].cg_nodes)
          => Awaits(p, bus[h], queue'[h], bus[Ctl], queue[Ctl], cg'[h].cg_nodes)
    BY <2>3, ReadGroupAwaits, SMT
  <2>1. Awaits(p, bus[h], queue'[h], bus[Ctl], queue[Ctl], cg'[h].cg_nodes)
    BY <1>10, <2>4, Zenon
  <2>2. queue'[Ctl] = queue[Ctl]
    BY <1>2, <1>3, Zenon
  <2> QED
    BY <1>3, <2>1, <2>2, Zenon
<1>11. ASSUME NEW g \in Groups, NEW p \in Peers PROVE DlmOK(g, p)'
  <2>1. Awaits(p, bus[g], queue[g], bus[Ctl], queue[Ctl], cg[g].cg_nodes)
          => Awaits(p, bus[g], queue[g], bus[Ctl], queue[Ctl], cg[g].cg_nodes)'
    BY <1>5, <1>10, Zenon
  <2>2. DlmOK(g, p) /\ (df[g].on => df'[g].on) /\ df'[g].notifications = df[g].notifications
    BY <1>1, Zenon
  <2> QED
    BY <1>3, <2>1, <2>2, Zenon DEF DlmOK
<1>12. /\ \A c \in Conns : BusOK(c)'
       /\ \A g \in Groups : PhaseOK(g)'
       /\ \A g \in Groups, p \in Peers : NodeOK(g, p)'
  BY <1>5, <1>7, <1>9, Zenon
<1> QED
  BY <1>5, <1>6, <1>11, <1>12, InvNext, Zenon

(* What the group's own records become. *)
LEMMA CgroupDoes ==
  ASSUME TypeOK, NEW h \in Groups, NEW r \in Cgroups, cg' = [cg EXCEPT ![h] = r]
  PROVE  /\ cg' \in [Groups -> Cgroups] /\ cg'[h] = r
         /\ \A g \in Groups : g # h => cg'[g] = cg[g]
<1>1. cg \in [Groups -> Cgroups]
  BY Zenon DEF TypeOK
<1> QED
  BY <1>1, Zenon

LEMMA NodesDo ==
  ASSUME TypeOK, NEW h \in Groups, NEW N \in SUBSET Nodes,
         cg' = [cg EXCEPT ![h].cg_nodes = N]
  PROVE  /\ cg' \in [Groups -> Cgroups] /\ cg'[h].cg_nodes = N
         /\ cg'[h].cpg_state = cg[h].cpg_state /\ cg'[h].cg_joined = cg[h].cg_joined
         /\ \A g \in Groups : g # h => cg'[g] = cg[g]
<1>1. cg \in [Groups -> Cgroups]
  BY Zenon DEF TypeOK
<1> QED
  BY <1>1, SMT DEF Cgroups

LEMMA RegisterDoes ==
  ASSUME TypeOK, NEW h \in Groups, df' = [df EXCEPT ![h].on = TRUE]
  PROVE  /\ df' \in [Groups -> [on : BOOLEAN, notifications : SUBSET Peers]]
         /\ \A g \in Groups : g # h => df'[g] = df[g]
         /\ (df[h].on => df'[h].on) /\ df'[h].notifications = df[h].notifications
<1> DEFINE r == [df[h] EXCEPT !.on = TRUE]
<1>1. df \in [Groups -> [on : BOOLEAN, notifications : SUBSET Peers]]
  BY Zenon DEF TypeOK
<1>2. /\ r \in [on : BOOLEAN, notifications : SUBSET Peers]
      /\ r.on /\ r.notifications = df[h].notifications
  BY <1>1, Zenon
<1>3. df' = [df EXCEPT ![h] = r]
  BY Zenon
<1> HIDE DEF r
<1> QED
  BY <1>1, <1>2, <1>3, Zenon

LEMMA ReadFacts ==
  ASSUME CpgInv, Up, NEW h \in Groups, process_cpg(h)
  PROVE  /\ TypeOK /\ PhaseOK(h) /\ EventOK(queue[h][1]) /\ queue[h][1] \in Events
         /\ Head(queue[h]) = queue[h][1] /\ 1 \in DOMAIN queue[h]
         /\ Shrunk(queue[h], queue'[h]) /\ members' = members /\ bus' = bus
         /\ h \in revents /\ Ctl \notin revents
         /\ cg[h].cpg_state \in {"none", "asked", "in", "leaving"}
         /\ cg[h].cg_nodes \in SUBSET Nodes
<1>1. TypeOK /\ PhaseOK(h) /\ \A d \in Conns : BusOK(d)
  BY InvSays, Zenon
<1>2. h \in Conns /\ h # Ctl
  BY Constants, Zenon
<1>3. /\ members' = members /\ bus' = bus /\ queue[h][1] \in Events
      /\ Head(queue[h]) = queue[h][1] /\ 1 \in DOMAIN queue[h]
      /\ Shrunk(queue[h], queue'[h])
      /\ h \in revents /\ Ctl \notin revents
  BY <1>1, <1>2, ProcessDoes, Zenon
<1>4. EventOK(queue[h][1])
  BY <1>1, <1>2, <1>3, Zenon DEF BusOK, BusAt
<1>5. cg[h] \in Cgroups
  BY <1>1, Zenon DEF TypeOK
<1>6. /\ cg[h].cpg_state \in {"none", "asked", "in", "leaving"}
      /\ cg[h].cg_nodes \in SUBSET Nodes
  BY <1>5, SMT DEF Cgroups
<1> QED
  BY <1>1, <1>3, <1>4, <1>6, Zenon

LEMMA PeerLeftStep ==
  ASSUME CpgInv, Up, NEW h \in Groups, PeerLeft(h)
  PROVE  CpgInv'
<1> DEFINE e == queue[h][1]
           N == IF e.reason = "LEAVE" THEN cg[h].cg_nodes \ e.left ELSE cg[h].cg_nodes
<1>1. process_cpg(h)
  BY Zenon DEF PeerLeft
<1>2. /\ TypeOK /\ PhaseOK(h) /\ EventOK(e) /\ e \in Events
      /\ Head(queue[h]) = e /\ Shrunk(queue[h], queue'[h])
      /\ members' = members /\ bus' = bus
      /\ cg[h].cpg_state \in {"none", "asked", "in", "leaving"}
      /\ cg[h].cg_nodes \in SUBSET Nodes
  BY <1>1, ReadFacts, Zenon
<1>3. /\ e.left # {} /\ Us \notin e.left
      /\ cg' = [cg EXCEPT ![h].cg_nodes = N]
      /\ daemon' = daemon /\ df' = df /\ requests' = requests /\ results' = results /\ dlm' = dlm
  <2>1. cg' = [cg EXCEPT ![h].cg_nodes =
                 IF e.reason = "LEAVE" THEN @ \ e.left ELSE @]
    BY <1>2, Zenon DEF PeerLeft
  <2> QED
    BY <1>2, <2>1, Zenon DEF PeerLeft, dlmVars
<1>4. N \in SUBSET Nodes /\ (Us \in cg[h].cg_nodes => Us \in N) /\ e.joined = {}
  BY <1>2, <1>3, Zenon DEF EventOK
<1>5. \A p : p \in N <=> Tells(e, p) \/ (p \in cg[h].cg_nodes /\ ~Left(e, p))
  BY <1>4, Zenon DEF Tells, Left
<1> HIDE DEF e, N
<1>6. /\ cg' \in [Groups -> Cgroups] /\ cg'[h].cg_nodes = N
      /\ cg'[h].cpg_state = cg[h].cpg_state /\ cg'[h].cg_joined = cg[h].cg_joined
      /\ \A g \in Groups : g # h => cg'[g] = cg[g]
  BY <1>2, <1>3, <1>4, NodesDo, Zenon
<1>7. Follows(h)
  BY <1>5, <1>6, Zenon DEF Follows, e
<1>8. PhaseOK(h)'
  <2>1. PhaseAt(cg[h].cpg_state, cg[h].cg_joined, cg[h].cg_nodes,
                members[h], bus[h], queue[h], df[h].on)
    BY <1>2, Zenon DEF PhaseOK
  <2>2. Us \notin queue[h][1].joined /\ Us \notin queue[h][1].left
    BY <1>3, <1>4, Zenon DEF e
  <2>3. PhaseAt(cg[h].cpg_state, cg[h].cg_joined, N,
                members[h], bus[h], queue'[h], df[h].on)
    <3>1. PeersRead(cg[h].cpg_state, cg[h].cg_nodes, queue[h], queue'[h], N)
      BY <1>2, <1>4, <2>2, Zenon DEF PeersRead
    <3> QED
      BY <2>1, <3>1, PhaseRead, Zenon
  <2> QED
    BY <1>2, <1>3, <1>6, <2>3, Zenon DEF PhaseOK
<1>9. df' \in [Groups -> [on : BOOLEAN, notifications : SUBSET Peers]]
  BY <1>2, <1>3, Zenon DEF TypeOK
<1> QED
  BY <1>1, <1>3, <1>6, <1>7, <1>8, <1>9, GroupReadStep, Zenon

LEMMA PeerJoinedStep ==
  ASSUME CpgInv, Up, NEW h \in Groups, PeerJoined(h)
  PROVE  CpgInv'
<1> DEFINE e == queue[h][1]
           N == cg[h].cg_nodes \cup e.joined
<1>1. process_cpg(h)
  BY Zenon DEF PeerJoined
<1>2. /\ TypeOK /\ PhaseOK(h) /\ EventOK(e) /\ e \in Events
      /\ Head(queue[h]) = e /\ Shrunk(queue[h], queue'[h]) /\ 1 \in DOMAIN queue[h]
      /\ members' = members /\ bus' = bus /\ h \in revents /\ Ctl \notin revents
      /\ cg[h].cpg_state \in {"none", "asked", "in", "leaving"}
      /\ cg[h].cg_nodes \in SUBSET Nodes
  BY <1>1, ReadFacts, Zenon
<1>3. /\ e.joined # {} /\ Us \notin e.joined /\ push_node(h, e.joined)
      /\ df' = df /\ requests' = requests /\ results' = results /\ dlm' = dlm
  BY <1>2, Zenon DEF PeerJoined, dlmVars
<1>4. e.joined \in SUBSET Nodes /\ e.left = {}
  <2>1. e.joined \in SUBSET Nodes
    BY <1>2, SMT DEF Events
  <2> QED
    BY <1>2, <1>3, <2>1, Zenon DEF EventOK
<1>5. cg[h].cg_nodes \cap e.joined = {}
  <2>1. SUFFICES ASSUME NEW p \in e.joined PROVE p \notin cg[h].cg_nodes
    BY Zenon
  <2>2. p \in Peers
    BY <1>3, <1>4, Constants, Zenon
  <2>3. PushAt(p, queue[h], queue[Ctl], cg[h].cg_nodes, Ctl \in revents, h \in revents)
    BY <2>2, InvSays, Zenon DEF NodeOK, PairAt
  <2>4. PushAt(p, queue[h], queue[Ctl], cg[h].cg_nodes, FALSE, TRUE)
    BY <1>2, <2>3, Zenon DEF PushAt
  <2>5. queue[h] \in Seq(Events)
    BY <1>2, Constants, Zenon DEF TypeOK
  <2>6. PICK n \in Nat : DOMAIN queue[h] = 1 .. n
    BY <2>5, SMT
  <2> QED
    BY <1>2, <2>4, <2>6, PushFindsNone, Zenon
<1>6. cg' = [cg EXCEPT ![h].cg_nodes = N] /\ daemon' = daemon
  BY <1>3, <1>5, Zenon DEF push_node
<1>7. N \in SUBSET Nodes /\ (Us \in cg[h].cg_nodes => Us \in N)
  BY <1>2, <1>4, Zenon
<1>8. \A p : p \in N <=> Tells(e, p) \/ (p \in cg[h].cg_nodes /\ ~Left(e, p))
  BY <1>3, <1>4, Zenon DEF Tells, Left
<1> HIDE DEF e, N
<1>9. /\ cg' \in [Groups -> Cgroups] /\ cg'[h].cg_nodes = N
      /\ cg'[h].cpg_state = cg[h].cpg_state /\ cg'[h].cg_joined = cg[h].cg_joined
      /\ \A g \in Groups : g # h => cg'[g] = cg[g]
  BY <1>2, <1>6, <1>7, NodesDo, Zenon
<1>10. Follows(h)
  BY <1>8, <1>9, Zenon DEF Follows, e
<1>11. PhaseOK(h)'
  <2>1. PhaseAt(cg[h].cpg_state, cg[h].cg_joined, cg[h].cg_nodes,
                members[h], bus[h], queue[h], df[h].on)
    BY <1>2, Zenon DEF PhaseOK
  <2>2. Us \notin queue[h][1].joined /\ Us \notin queue[h][1].left
    BY <1>3, <1>4, Zenon DEF e
  <2>3. PhaseAt(cg[h].cpg_state, cg[h].cg_joined, N,
                members[h], bus[h], queue'[h], df[h].on)
    <3>1. PeersRead(cg[h].cpg_state, cg[h].cg_nodes, queue[h], queue'[h], N)
      BY <1>2, <1>7, <2>2, Zenon DEF PeersRead
    <3> QED
      BY <2>1, <3>1, PhaseRead, Zenon
  <2> QED
    BY <1>2, <1>3, <1>9, <2>3, Zenon DEF PhaseOK
<1>12. df' \in [Groups -> [on : BOOLEAN, notifications : SUBSET Peers]]
  BY <1>2, <1>3, Zenon DEF TypeOK
<1> QED
  BY <1>1, <1>3, <1>6, <1>9, <1>10, <1>11, <1>12, GroupReadStep, Zenon

LEMMA WeJoinStep ==
  ASSUME CpgInv, Up, NEW h \in Groups, WeJoin(h)
  PROVE  CpgInv'
<1> DEFINE e == queue[h][1]
<1>1. process_cpg(h)
  BY Zenon DEF WeJoin
<1>2. /\ TypeOK /\ PhaseOK(h) /\ EventOK(e) /\ e \in Events
      /\ Head(queue[h]) = e /\ Shrunk(queue[h], queue'[h])
      /\ members' = members /\ bus' = bus
      /\ cg[h].cpg_state \in {"none", "asked", "in", "leaving"}
  BY <1>1, ReadFacts, Zenon
<1>3. /\ Us \in e.joined /\ ~cg[h].cg_joined
      /\ daemon' = daemon /\ requests' = requests /\ results' = results /\ dlm' = dlm
      /\ \/ /\ cg' = [cg EXCEPT ![h] = [@ EXCEPT !.cg_nodes = e.members, !.cg_joined = TRUE]]
            /\ df' = [df EXCEPT ![h].on = TRUE]
         \/ /\ cg' = [cg EXCEPT ![h] = [cpg_state |-> "leaving", cg_joined |-> TRUE,
                                        cg_nodes |-> e.members]]
            /\ df' = df
  BY <1>2, Zenon DEF WeJoin, dlmVars
<1>4. e.members \in SUBSET Nodes
  BY <1>2, SMT DEF Events
<1>5. /\ cg' \in [Groups -> Cgroups] /\ \A g \in Groups : g # h => cg'[g] = cg[g]
      /\ cg'[h].cg_nodes = e.members /\ cg'[h].cg_joined = TRUE
      /\ df' \in [Groups -> [on : BOOLEAN, notifications : SUBSET Peers]]
      /\ \A g \in Groups : g # h => df'[g] = df[g]
      /\ (df[h].on => df'[h].on) /\ df'[h].notifications = df[h].notifications
      /\ \/ cg'[h].cpg_state = cg[h].cpg_state
         \/ cg'[h].cpg_state = "leaving" /\ df'[h].on = df[h].on
  <2> HIDE DEF e
  <2>1. cg \in [Groups -> Cgroups] /\ df \in [Groups -> [on : BOOLEAN, notifications : SUBSET Peers]]
    BY <1>2, Zenon DEF TypeOK
  <2>2. CASE /\ cg' = [cg EXCEPT ![h] = [@ EXCEPT !.cg_nodes = e.members, !.cg_joined = TRUE]]
             /\ df' = [df EXCEPT ![h].on = TRUE]
    <3> DEFINE r == [cg[h] EXCEPT !.cg_nodes = e.members, !.cg_joined = TRUE]
    <3>3. /\ r \in Cgroups /\ r.cg_nodes = e.members /\ r.cg_joined = TRUE
          /\ r.cpg_state = cg[h].cpg_state
      BY <1>4, <2>1, Zenon DEF Cgroups
    <3>4. cg' = [cg EXCEPT ![h] = r]
      BY <2>1, <2>2, Zenon
    <3> HIDE DEF r
    <3>1. /\ cg' \in [Groups -> Cgroups] /\ cg'[h] = r
          /\ \A g \in Groups : g # h => cg'[g] = cg[g]
      BY <1>2, <3>3, <3>4, CgroupDoes, Zenon
    <3>2. /\ df' \in [Groups -> [on : BOOLEAN, notifications : SUBSET Peers]]
          /\ \A g \in Groups : g # h => df'[g] = df[g]
          /\ (df[h].on => df'[h].on) /\ df'[h].notifications = df[h].notifications
      BY <1>2, <2>2, RegisterDoes, Zenon
    <3> QED
      BY <3>1, <3>2, <3>3, Zenon
  <2>3. CASE /\ cg' = [cg EXCEPT ![h] = [cpg_state |-> "leaving", cg_joined |-> TRUE,
                                         cg_nodes |-> e.members]]
             /\ df' = df
    BY <1>4, <2>1, <2>3, SMT DEF Cgroups
  <2> QED
    BY <1>3, <2>2, <2>3, Zenon
<1>6. cg[h].cg_nodes = {} /\ e.joined \subseteq e.members
  BY <1>2, <1>3, Zenon DEF PhaseOK, PhaseAt, EventOK
<1>7. Follows(h)
  <2>1. \A p : p \in e.members <=> Tells(e, p) \/ (p \in cg[h].cg_nodes /\ ~Left(e, p))
    BY <1>3, <1>6, Zenon DEF Tells
  <2> QED
    BY <1>5, <2>1, Zenon DEF Follows
<1>8. PhaseOK(h)'
  <2>1. PhaseAt(cg[h].cpg_state, cg[h].cg_joined, cg[h].cg_nodes,
                members[h], bus[h], queue[h], df[h].on)
    BY <1>2, Zenon DEF PhaseOK
  <2>2. WeRead(cg[h].cpg_state, cg[h].cg_joined, queue[h], df[h].on, queue'[h],
               cg'[h].cpg_state, cg'[h].cg_joined, cg'[h].cg_nodes, df'[h].on)
    BY <1>2, <1>3, <1>5, Zenon DEF WeRead
  <2>3. PhaseAt(cg'[h].cpg_state, cg'[h].cg_joined, cg'[h].cg_nodes,
                members[h], bus[h], queue'[h], df'[h].on)
    BY <2>1, <2>2, PhaseWeJoin, SMT
  <2> QED
    BY <1>2, <2>3, Zenon DEF PhaseOK
<1> QED
  BY <1>1, <1>3, <1>5, <1>7, <1>8, GroupReadStep, Zenon

LEMMA WeLeaveStep ==
  ASSUME CpgInv, Up, NEW h \in Groups, WeLeave(h)
  PROVE  CpgInv'
<1>1. /\ TypeOK /\ CtlOK
      /\ \A d \in Conns : BusOK(d)
      /\ \A g \in Groups : PhaseOK(g)
      /\ \A g \in Groups, p \in Peers : NodeOK(g, p)
      /\ \A g \in Groups, p \in Peers : DlmOK(g, p)
  BY InvSays, Zenon
<1>2. Ctl \in Conns /\ Groups \subseteq Conns /\ h \in Conns /\ Ctl # h
  BY Constants, Zenon
<1>3. /\ queue[h] # <<>> /\ Us \in Head(queue[h]).left
      /\ cg' = [cg EXCEPT ![h] = NoCgroup] /\ df' = [df EXCEPT ![h] = NoFs]
      /\ queue' = [queue EXCEPT ![h] = <<>>] /\ revents' = revents \ {h}
      /\ daemon' = daemon /\ members' = members /\ bus' = bus
      /\ requests' = requests /\ results' = results /\ dlm' = dlm
  BY Zenon DEF WeLeave, dlmVars
<1>4. queue[h] \in Seq(Events)
  BY <1>1, <1>2, Zenon DEF TypeOK
<1>5. 1 \in DOMAIN queue[h] /\ Us \in queue[h][1].left
  <2>1. Head(queue[h]) = queue[h][1] /\ 1 \in DOMAIN queue[h]
    BY <1>3, <1>4, TailShrinks, Zenon
  <2> QED
    BY <1>3, <2>1, Zenon
<1>6. /\ queue' \in [Conns -> Seq(Events)] /\ DOMAIN queue'[h] = {}
      /\ \A d \in Conns : d # h => queue'[d] = queue[d] /\ (d \in revents' <=> d \in revents)
      /\ h \notin revents' /\ revents' \subseteq revents
  <2>1. queue \in [Conns -> Seq(Events)]
    BY <1>1, Zenon DEF TypeOK
  <2>2. queue' \in [Conns -> Seq(Events)] /\ queue'[h] = <<>>
        /\ \A d \in Conns : d # h => queue'[d] = queue[d]
    BY <1>2, <1>3, <2>1, NothingIn, Zenon
  <2> QED
    BY <1>3, <2>2, NothingIn, Zenon
<1>7. /\ cg' \in [Groups -> Cgroups] /\ cg'[h] = NoCgroup
      /\ \A g \in Groups : g # h => cg'[g] = cg[g]
  <2>1. NoCgroup \in Cgroups
    BY SMT DEF NoCgroup, Cgroups
  <2> QED
    BY <1>1, <1>3, <2>1, CgroupDoes, Zenon
<1>8. /\ df' \in [Groups -> [on : BOOLEAN, notifications : SUBSET Peers]]
      /\ df'[h] = NoFs /\ \A g \in Groups : g # h => df'[g] = df[g]
  <2>1. df \in [Groups -> [on : BOOLEAN, notifications : SUBSET Peers]]
    BY <1>1, Zenon DEF TypeOK
  <2>2. NoFs \in [on : BOOLEAN, notifications : SUBSET Peers]
    BY SMT DEF NoFs
  <2> QED
    BY <1>3, <2>1, <2>2, Zenon
<1>9. TypeOK'
  <2>1. revents' \subseteq Conns \cup {Dlm}
    BY <1>1, <1>6, Zenon DEF TypeOK
  <2> QED
    BY <1>1, <1>3, <1>6, <1>7, <1>8, <2>1, Zenon DEF TypeOK
<1>10. ReadsOnly(h)
  BY <1>3, <1>6, <1>7, <1>8, Zenon DEF ReadsOnly
<1>11. /\ CtlOK' /\ (\A c \in Conns : c # h => BusOK(c)')
       /\ (\A g \in Groups : g # h => PhaseOK(g)')
       /\ \A g \in Groups, p \in Peers : g # h => NodeOK(g, p)'
       /\ \A g \in Groups, p \in Peers : g # h =>
            (Awaits(p, bus[g], queue[g], bus[Ctl], queue[Ctl], cg[g].cg_nodes)
               => Awaits(p, bus[g], queue[g], bus[Ctl], queue[Ctl], cg[g].cg_nodes)')
  BY <1>10, ReadFrame, Zenon
<1>12. BusOK(h)'
  <2>1. BusAt(members[h], bus[h], queue[h], h \in revents)
    BY <1>1, <1>2, Zenon DEF BusOK
  <2>2. BusAt(members[h], bus[h], queue'[h], h \in revents')
    BY <1>6, <2>1, Zenon DEF BusAt
  <2> QED
    BY <1>3, <2>2, Zenon DEF BusOK
<1>13. Us \notin members[h] /\ ~df[h].on /\ DOMAIN bus[h] = {}
  <2>1. PhaseAt(cg[h].cpg_state, cg[h].cg_joined, cg[h].cg_nodes,
                members[h], bus[h], queue[h], df[h].on)
    BY <1>1, Zenon DEF PhaseOK
  <2> QED
    BY <1>5, <2>1, PhaseDone, Zenon
<1>14. PhaseOK(h)'
  <2>1. /\ cg'[h].cpg_state = "none" /\ cg'[h].cg_joined = FALSE /\ cg'[h].cg_nodes = {}
        /\ df'[h].on = FALSE
    BY <1>7, <1>8 DEF NoCgroup, NoFs
  <2>2. PhaseAt(cg'[h].cpg_state, cg'[h].cg_joined, cg'[h].cg_nodes,
                members[h], bus[h], queue'[h], df'[h].on)
    BY <1>6, <1>13, <2>1, Zenon DEF PhaseAt
  <2> QED
    BY <1>3, <2>2, Zenon DEF PhaseOK
<1>15. ASSUME NEW p \in Peers PROVE NodeOK(h, p)'
  <2>1. Us \notin members'[h]
    BY <1>3, <1>13, Zenon
  <2>2. PushAt(p, queue'[h], queue'[Ctl], cg'[h].cg_nodes, Ctl \in revents', h \in revents')
    BY <1>6, Zenon DEF PushAt
  <2>3. PairAt(p, members'[h], bus'[h], queue'[h], bus'[Ctl], queue'[Ctl],
               cg'[h].cg_nodes, Ctl \in revents', h \in revents')
    BY <2>1, <2>2, NotMember, Zenon
  <2> QED
    BY <2>3, Zenon DEF NodeOK
<1>16. ASSUME NEW g \in Groups, NEW p \in Peers PROVE DlmOK(g, p)'
  <2>1. CASE g = h
    <3>1. dlm[h][p] = "out"
      BY <1>1, <1>13, Zenon DEF DlmOK
    <3> QED
      BY <1>3, <2>1, <3>1, DlmOut, Zenon
  <2>2. CASE g # h
    <3>1. df'[g] = df[g] /\ DlmOK(g, p)
      BY <1>1, <1>8, <2>2, Zenon
    <3>2. Awaits(p, bus[g], queue[g], bus[Ctl], queue[Ctl], cg[g].cg_nodes)
             => Awaits(p, bus[g], queue[g], bus[Ctl], queue[Ctl], cg[g].cg_nodes)'
      BY <1>11, <2>2, Zenon
    <3> QED
      BY <1>3, <3>1, <3>2, Zenon DEF DlmOK
  <2> QED
    BY <2>1, <2>2, Zenon
<1>17. /\ \A c \in Conns : BusOK(c)'
       /\ \A g \in Groups : PhaseOK(g)'
       /\ \A g \in Groups, p \in Peers : NodeOK(g, p)'
  BY <1>11, <1>12, <1>14, <1>15, Zenon
<1> QED
  BY <1>3, <1>9, <1>11, <1>16, <1>17, InvNext, Zenon

(* A death that is read: every group the node is in is told, and with it   *)
(* dlm_controld.                                                           *)
LEMMA DaemonChangeStep ==
  ASSUME CpgInv, Up, DaemonChange
  PROVE  CpgInv'
<1> DEFINE e == queue[Ctl][1]
<1>1. /\ TypeOK /\ CtlOK
      /\ \A d \in Conns : BusOK(d)
      /\ \A g \in Groups : PhaseOK(g)
      /\ \A g \in Groups, p \in Peers : NodeOK(g, p)
      /\ \A g \in Groups, p \in Peers : DlmOK(g, p)
  BY InvSays, Zenon
<1>2. Ctl \in Conns /\ Groups \subseteq Conns /\ Ctl \notin Groups
  BY Constants, Zenon
<1>3. process_cpg(Ctl) /\ daemon' = daemon /\ results' = results /\ dlm' = dlm
  BY Zenon DEF DaemonChange
<1>4. /\ queue' \in [Conns -> Seq(Events)] /\ members' = members /\ bus' = bus
      /\ \A d \in Conns \ {Ctl} : queue'[d] = queue[d] /\ (d \in revents' <=> d \in revents)
      /\ Shrunk(queue[Ctl], queue'[Ctl]) /\ 1 \in DOMAIN queue[Ctl]
      /\ revents' \subseteq revents /\ Ctl \notin revents'
  BY <1>1, <1>2, <1>3, ProcessDoes, Zenon
<1>5. EventOK(e) /\ Us \notin e.left
  BY <1>1, <1>2, <1>4, Zenon DEF BusOK, BusAt, CtlOK
<1>6. /\ cg' \in [Groups -> Cgroups]
      /\ df' \in [Groups -> [on : BOOLEAN, notifications : SUBSET Peers]]
      /\ requests' \in Seq(Groups \X Peers)
      /\ \A g \in Groups :
           /\ cg'[g].cpg_state = cg[g].cpg_state /\ cg'[g].cg_joined = cg[g].cg_joined
           /\ cg'[g].cg_nodes = cg[g].cg_nodes \ Dead(e)
      /\ \A g \in Groups :
           df'[g].on = df[g].on /\ df[g].notifications \subseteq df'[g].notifications
      /\ \A g \in Groups, p \in Peers :
           df[g].on /\ p \in Dead(e) /\ p \in cg[g].cg_nodes =>
             p \in df'[g].notifications /\ Has(requests', <<g, p>>)
      /\ \A x : Has(requests, x) => Has(requests', x)
  BY <1>1, <1>5, DownDoes, Zenon
<1>7. Us \notin Dead(e) /\ \A p \in Peers : p \in Dead(e) <=> Died(e, p)
  BY <1>5, Constants, Zenon DEF Dead, Died
<1> HIDE DEF e
<1>8. TypeOK'
  <2>1. revents' \subseteq Conns \cup {Dlm}
    BY <1>1, <1>4, Zenon DEF TypeOK
  <2> QED
    BY <1>1, <1>3, <1>4, <1>6, <2>1, Zenon DEF TypeOK
<1>9. CtlOK'
  <2>1. Shrunk(queue[Ctl], queue'[Ctl])
    BY <1>4, Zenon
  <2>3. \A i \in DOMAIN queue'[Ctl] :
          i + 1 \in DOMAIN queue[Ctl] /\ queue'[Ctl][i] = queue[Ctl][i + 1]
    BY <2>1, Shifted
  <2>2. \A i \in DOMAIN queue'[Ctl] : Us \notin queue'[Ctl][i].left
    BY <1>1, <2>3, Zenon DEF CtlOK
  <2> QED
    BY <1>1, <1>4, <2>2, Zenon DEF CtlOK
<1>10. ASSUME NEW c \in Conns PROVE BusOK(c)'
  <2>1. BusAt(members[c], bus[c], queue[c], c \in revents)
    BY <1>1, Zenon DEF BusOK
  <2>2. CASE c = Ctl
    <3>1. BusAt(members[Ctl], bus[Ctl], queue'[Ctl], FALSE)
      BY <1>4, <2>1, <2>2, BusRead, Zenon
    <3>2. BusAt(members[Ctl], bus[Ctl], queue'[Ctl], Ctl \in revents')
      BY <1>4, <3>1, Zenon DEF BusAt
    <3> QED
      BY <1>4, <2>2, <3>2, Zenon DEF BusOK
  <2>3. CASE c # Ctl
    <3>1. queue'[c] = queue[c] /\ (c \in revents' <=> c \in revents)
      BY <1>4, <2>3, Zenon
    <3>2. BusAt(members[c], bus[c], queue[c], c \in revents')
      BY <2>1, <3>1, Zenon DEF BusAt
    <3> QED
      BY <1>4, <3>1, <3>2, Zenon DEF BusOK
  <2> QED
    BY <2>2, <2>3, Zenon
<1>11. ASSUME NEW g \in Groups
       PROVE  queue'[g] = queue[g] /\ (g \in revents' <=> g \in revents)
  BY <1>2, <1>4, Zenon
<1>12. ASSUME NEW g \in Groups PROVE PhaseOK(g)'
  <2>1. PhaseAt(cg[g].cpg_state, cg[g].cg_joined, cg[g].cg_nodes,
                members[g], bus[g], queue[g], df[g].on)
    BY <1>1, Zenon DEF PhaseOK
  <2>2. PhaseAt(cg[g].cpg_state, cg[g].cg_joined, cg[g].cg_nodes \ Dead(e),
                members[g], bus[g], queue[g], df[g].on)
    BY <1>7, <2>1, PhaseDown, Zenon
  <2>3. /\ queue'[g] = queue[g] /\ df'[g].on = df[g].on
        /\ cg'[g].cpg_state = cg[g].cpg_state /\ cg'[g].cg_joined = cg[g].cg_joined
        /\ cg'[g].cg_nodes = cg[g].cg_nodes \ Dead(e)
    BY <1>6, <1>11, Zenon
  <2> QED
    BY <1>4, <2>2, <2>3, Zenon DEF PhaseOK
<1>13. ASSUME NEW g \in Groups, NEW p \in Peers
       PROVE  CtlRead(p, queue[Ctl], queue'[Ctl], cg[g].cg_nodes, cg'[g].cg_nodes)
  <2>1. p \in cg'[g].cg_nodes <=> p \in cg[g].cg_nodes /\ ~Died(e, p)
    <3>1. cg'[g].cg_nodes = cg[g].cg_nodes \ Dead(e) /\ (p \in Dead(e) <=> Died(e, p))
      BY <1>6, <1>7, Zenon
    <3> QED
      BY <3>1, Zenon
  <2> QED
    BY <1>4, <2>1, Zenon DEF CtlRead, e
<1>14. ASSUME NEW g \in Groups, NEW p \in Peers PROVE NodeOK(g, p)'
  <2>1. PairAt(p, members[g], bus[g], queue[g], bus[Ctl], queue[Ctl],
               cg[g].cg_nodes, Ctl \in revents, g \in revents)
    BY <1>1, Zenon DEF NodeOK
  <2>2. PairAt(p, members[g], bus[g], queue[g], bus[Ctl], queue'[Ctl],
               cg'[g].cg_nodes, FALSE, g \in revents)
    BY <1>13, <2>1, ReadCtl, Zenon
  <2>3. (Ctl \in revents' <=> FALSE) /\ (g \in revents' <=> g \in revents)
    BY <1>4, <1>11, Zenon
  <2>4. PairAt(p, members[g], bus[g], queue[g], bus[Ctl], queue'[Ctl],
               cg'[g].cg_nodes, Ctl \in revents', g \in revents')
    BY <2>2, <2>3, Zenon DEF PairAt, MemberAt, ReadFirst, PushAt
  <2> QED
    BY <1>4, <1>11, <2>4, Zenon DEF NodeOK
<1>15. ASSUME NEW g \in Groups, NEW p \in Peers PROVE DlmOK(g, p)'
  <2>1. DlmOK(g, p) /\ df'[g].on = df[g].on /\ queue'[g] = queue[g]
    BY <1>1, <1>6, <1>11, Zenon
  <2>2. ASSUME df[g].on,
               Awaits(p, bus[g], queue[g], bus[Ctl], queue[Ctl], cg[g].cg_nodes)
        PROVE  \/ Awaits(p, bus[g], queue[g], bus[Ctl], queue'[Ctl], cg'[g].cg_nodes)
               \/ p \in df'[g].notifications /\ Has(requests', <<g, p>>)
    <3>1. CASE Died(e, p)
      <4>1. p \in Dead(e) /\ p \in cg[g].cg_nodes
        BY <1>7, <2>2, <3>1, Zenon DEF Awaits
      <4> QED
        BY <1>6, <2>2, <4>1, Zenon
    <3>2. CASE ~Died(queue[Ctl][1], p)
      <4>1. CtlRead(p, queue[Ctl], queue'[Ctl], cg[g].cg_nodes, cg'[g].cg_nodes)
        BY <1>13, Zenon
      <4>2. Awaits(p, bus[g], queue[g], bus[Ctl], queue[Ctl], cg[g].cg_nodes)
              => Awaits(p, bus[g], queue[g], bus[Ctl], queue'[Ctl], cg'[g].cg_nodes)
        BY <3>2, <4>1, ReadCtlAwaits, Zenon
      <4> QED
        BY <2>2, <4>2, Zenon
    <3> QED
      BY <3>1, <3>2, Zenon DEF e
  <2>3. ASSUME p \in df[g].notifications,
               Has(requests, <<g, p>>) \/ Has(results, <<g, p, FALSE>>)
        PROVE  /\ p \in df'[g].notifications
               /\ Has(requests', <<g, p>>) \/ Has(results', <<g, p, FALSE>>)
    BY <1>3, <1>6, <2>3, Zenon
  <2>4. dlm[g][p] \in {"dying", "wait"} => dlm[g][p] # "out"
    OBVIOUS
  <2> QED
    BY <1>3, <1>4, <2>1, <2>2, <2>3, <2>4, Zenon DEF DlmOK
<1> QED
  BY <1>3, <1>8, <1>9, <1>10, <1>12, <1>14, <1>15, InvNext, Zenon

-----------------------------------------------------------------------------
(* All together. *)

LEMMA InitInv == Init => CpgInv
<1> SUFFICES ASSUME Init PROVE CpgInv
  OBVIOUS
<1>1. /\ members = [c \in Conns |-> IF c = Ctl THEN Nodes ELSE {}]
      /\ bus = [c \in Conns |-> <<>>] /\ queue = [c \in Conns |-> <<>>]
      /\ revents = {} /\ cg = [g \in Groups |-> NoCgroup] /\ df = [g \in Groups |-> NoFs]
      /\ requests = <<>> /\ results = <<>>
      /\ dlm = [g \in Groups |-> [p \in Peers |-> "out"]] /\ daemon = "up"
  BY Zenon DEF Init
<1>2. Ctl \in Conns /\ Groups \subseteq Conns /\ Ctl \notin Groups /\ Us \in Nodes
  BY Constants, Zenon
<1>3. /\ members \in [Conns -> SUBSET Nodes] /\ members[Ctl] = Nodes
      /\ \A g \in Groups : members[g] = {}
  BY <1>1, <1>2, Zenon
<1>4. /\ bus \in [Conns -> Seq(Events)] /\ queue \in [Conns -> Seq(Events)]
      /\ \A c \in Conns : DOMAIN bus[c] = {} /\ DOMAIN queue[c] = {}
  BY <1>1, NothingIn, Zenon
<1>5. NoCgroup \in Cgroups /\ NoFs \in [on : BOOLEAN, notifications : SUBSET Peers]
  BY SMT DEF NoCgroup, Cgroups, NoFs
<1>6. TypeOK
  <2>1. dlm \in [Groups -> [Peers -> {"out", "in", "dying", "wait"}]]
    BY <1>1, Zenon
  <2>2. requests \in Seq(Groups \X Peers) /\ results \in Seq(Groups \X Peers \X BOOLEAN)
    BY <1>1, NothingIn, Zenon
  <2>3. cg \in [Groups -> Cgroups]
        /\ df \in [Groups -> [on : BOOLEAN, notifications : SUBSET Peers]]
    BY <1>1, <1>5, Zenon
  <2> QED
    BY <1>1, <1>3, <1>4, <2>1, <2>2, <2>3, Zenon DEF TypeOK
<1>7. CtlOK
  BY <1>2, <1>3, <1>4, Zenon DEF CtlOK
<1>8. \A c \in Conns : BusOK(c)
  BY <1>1, <1>4, Zenon DEF BusOK, BusAt
<1>9. ASSUME NEW g \in Groups PROVE PhaseOK(g)
  <2>1. /\ cg[g].cpg_state = "none" /\ cg[g].cg_joined = FALSE /\ cg[g].cg_nodes = {}
        /\ df[g].on = FALSE
    BY <1>1 DEF NoCgroup, NoFs
  <2>2. DOMAIN bus[g] = {} /\ DOMAIN queue[g] = {} /\ Us \notin members[g]
    BY <1>2, <1>3, <1>4, Zenon
  <2> QED
    BY <2>1, <2>2, Zenon DEF PhaseOK, PhaseAt
<1>10. ASSUME NEW g \in Groups, NEW p \in Peers PROVE NodeOK(g, p)
  <2>1. DOMAIN queue[g] = {} /\ Us \notin members[g]
    BY <1>2, <1>3, <1>4, Zenon
  <2>2. PushAt(p, queue[g], queue[Ctl], cg[g].cg_nodes, Ctl \in revents, g \in revents)
    BY <2>1, Zenon DEF PushAt
  <2> QED
    BY <2>1, <2>2, NotMember, Zenon DEF NodeOK
<1>11. ASSUME NEW g \in Groups, NEW p \in Peers PROVE DlmOK(g, p)
  <2>1. dlm[g][p] = "out"
    BY <1>1, Zenon
  <2> QED
    BY <2>1, Zenon DEF DlmOK
<1>12. daemon # "lost"
  BY <1>1
<1> QED
  BY <1>6, <1>7, <1>8, <1>9, <1>10, <1>11, <1>12, Zenon DEF CpgInv


LEMMA StutterInv ==
  ASSUME CpgInv, UNCHANGED vars
  PROVE  CpgInv'
<1>1. /\ daemon' = daemon /\ members' = members /\ bus' = bus /\ queue' = queue
      /\ revents' = revents /\ cg' = cg /\ df' = df /\ requests' = requests
      /\ results' = results /\ dlm' = dlm
  BY Zenon DEF vars
<1>2. TypeOK'
  BY <1>1, Zenon DEF CpgInv, TypeOK
<1>3. daemon' # "lost"
  BY <1>1, Zenon DEF CpgInv
<1>4. ASSUME Up' PROVE CpgInv'
  <2>1. Up
    BY <1>1, <1>4, Zenon DEF Up
  <2>2. /\ CtlOK
        /\ \A c \in Conns : BusOK(c)
        /\ \A g \in Groups : PhaseOK(g)
        /\ \A g \in Groups, p \in Peers : NodeOK(g, p)
        /\ \A g \in Groups, p \in Peers : DlmOK(g, p)
    BY <2>1, InvSays, Zenon
  <2>3. CtlOK'
    BY <1>1, <2>2, Zenon DEF CtlOK
  <2>4. \A c \in Conns : BusOK(c)'
    BY <1>1, <2>2, Zenon DEF BusOK
  <2>5. \A g \in Groups : PhaseOK(g)'
    BY <1>1, <2>2, Zenon DEF PhaseOK
  <2>6. \A g \in Groups, p \in Peers : NodeOK(g, p)'
    BY <1>1, <2>2, Zenon DEF NodeOK
  <2>7. \A g \in Groups, p \in Peers : DlmOK(g, p)'
    BY <1>1, <2>2, Zenon DEF DlmOK
  <2> QED
    BY <1>1, <1>2, <2>1, <2>3, <2>4, <2>5, <2>6, <2>7, InvNext, Zenon
<1>5. ASSUME ~Up' PROVE CpgInv'
  BY <1>2, <1>3, <1>5, Zenon DEF CpgInv
<1> QED
  BY <1>4, <1>5, Zenon

LEMMA NextInv ==
  ASSUME CpgInv, Next, ~DeathInJoin, ~DeathBehind, ~LateAnswer
  PROVE  CpgInv'
<1>1. CASE UNCHANGED vars
  BY <1>1, StutterInv, Zenon
<1>2. ASSUME NEW c \in Conns, CpgDeliver(c) PROVE CpgInv'
  BY <1>2, CpgDeliverStep, Zenon DEF CpgDeliver
<1>3. ASSUME NEW g \in Groups, CpgOrdersJoin(g) PROVE CpgInv'
  BY <1>3, OrdersJoinStep, Zenon DEF CpgOrdersJoin
<1>4. ASSUME NEW g \in Groups, CpgOrdersLeave(g) PROVE CpgInv'
  BY <1>4, OrdersLeaveStep, Zenon DEF CpgOrdersLeave
<1>5. ASSUME NEW p \in Peers, PeerStarts(p) PROVE CpgInv'
  BY <1>5, PeerStartsStep, Zenon DEF PeerStarts
<1>6. ASSUME NEW p \in Peers, PeerExits(p) PROVE CpgInv'
  BY <1>6, PeerExitsStep, Zenon DEF PeerExits
<1>7. ASSUME NEW p \in Peers, DaemonDies(p) PROVE CpgInv'
  <2>1. {p} \in SUBSET Peers /\ Die({p}, "PROCDOWN")
    BY <1>7, Zenon DEF DaemonDies
  <2>2. Up
    BY <2>1, Zenon DEF Die
  <2> QED
    BY <2>1, <2>2, DieStep, Zenon
<1>8. ASSUME NEW D \in SUBSET Peers, NodesDie(D) PROVE CpgInv'
  <2>1. Die(D, "NODEDOWN")
    BY <1>8, Zenon DEF NodesDie
  <2>2. Up
    BY <2>1, Zenon DEF Die
  <2> QED
    BY <2>1, <2>2, DieStep, Zenon
<1>9. ASSUME NEW p \in Peers, NEW g \in Groups, PeerMounts(p, g) PROVE CpgInv'
  BY <1>9, PeerMountsStep, Zenon DEF PeerMounts
<1>10. ASSUME NEW p \in Peers, NEW g \in Groups, PeerUnmounts(p, g) PROVE CpgInv'
  BY <1>10, PeerUnmountsStep, Zenon DEF PeerUnmounts
<1>11. ASSUME NEW g \in Groups, NEW p \in Peers, DlmUp(g, p) PROVE CpgInv'
  BY <1>11, DlmUpStep, Zenon DEF DlmUp
<1>12. ASSUME NEW g \in Groups, NEW p \in Peers, DlmSees(g, p) PROVE CpgInv'
  BY <1>12, DlmSeesStep, Zenon DEF DlmSees
<1>13. CASE DlmAnswer
  BY <1>13, DlmAnswerStep, Zenon DEF DlmAnswer
<1>14. CASE Poll
  BY <1>14, PollStep, Zenon DEF Poll
<1>15. ASSUME NEW g \in Groups, WeJoin(g) PROVE CpgInv'
  <2>1. process_cpg(g)
    BY <1>15, Zenon DEF WeJoin
  <2>2. Up
    BY <2>1, Zenon DEF process_cpg, Turn
  <2> QED
    BY <1>15, <2>2, WeJoinStep, Zenon
<1>16. ASSUME NEW g \in Groups, PeerJoined(g) PROVE CpgInv'
  BY <1>16, PeerJoinedStep, Zenon DEF PeerJoined, process_cpg, Turn
<1>17. ASSUME NEW g \in Groups, PeerLeft(g) PROVE CpgInv'
  BY <1>17, PeerLeftStep, Zenon DEF PeerLeft, process_cpg, Turn
<1>18. ASSUME NEW g \in Groups, WeLeave(g) PROVE CpgInv'
  BY <1>18, WeLeaveStep, Zenon DEF WeLeave, process_cpg, Turn
<1>19. CASE DaemonChange
  BY <1>19, DaemonChangeStep, Zenon DEF DaemonChange, process_cpg, Turn
<1>20. CASE NotifyResult
  BY <1>20, NotifyResultStep, Zenon DEF NotifyResult, Turn
<1>21. ASSUME NEW g \in Groups, GroupJoin(g) PROVE CpgInv'
  BY <1>21, GroupJoinStep, Zenon DEF GroupJoin
<1>22. ASSUME NEW g \in Groups, GroupLeave(g) PROVE CpgInv'
  BY <1>22, GroupLeaveStep, Zenon DEF GroupLeave
<1>23. CASE shutdown_daemon
  BY <1>23, ShutdownStep, Zenon
<1>24. CASE Stopped
  BY <1>1, <1>24, Zenon DEF Stopped
<1>25. Cluster => CpgInv'
  BY <1>2, <1>3, <1>4, <1>5, <1>6, <1>7, <1>8, <1>9, <1>10, <1>11, <1>12, <1>13, Zenon
     DEF Cluster
<1>26. Daemon => CpgInv'
  BY <1>14, <1>15, <1>16, <1>17, <1>18, <1>19, <1>20, <1>21, <1>22, <1>23, Zenon DEF Daemon
<1> QED
  BY <1>1, <1>24, <1>25, <1>26, Zenon DEF Next

(* What the invariant is for. *)
LEMMA InvImplies == CpgInv \/ raced => NodesAreMembers /\ DeathIsPassedOn /\ NeverLost
<1>4. CASE raced
  BY <1>4, Zenon DEF NodesAreMembers, DeathIsPassedOn, NeverLost
<1> SUFFICES ASSUME CpgInv PROVE NodesAreMembers /\ DeathIsPassedOn /\ NeverLost
  BY <1>4, Zenon
<1>1. NeverLost
  BY Zenon DEF CpgInv, NeverLost
<1>2. ASSUME Up, NEW g \in Groups, cg[g].cg_joined, ReadUp(g)
      PROVE  cg[g].cg_nodes = members[g]
  <2>1. /\ TypeOK /\ PhaseOK(g) /\ \A p \in Peers : NodeOK(g, p)
    BY <1>2, InvSays, Zenon
  <2>2. /\ bus[Ctl] = <<>> /\ bus[g] = <<>> /\ queue[Ctl] = <<>> /\ queue[g] = <<>>
    BY <1>2, Zenon DEF ReadUp
  <2>3. /\ DOMAIN bus[Ctl] = {} /\ DOMAIN bus[g] = {}
        /\ DOMAIN queue[Ctl] = {} /\ DOMAIN queue[g] = {}
    BY <2>2, NothingIn, Zenon
  <2>4. Us \in cg[g].cg_nodes /\ Us \in members[g]
    BY <1>2, <2>1, <2>3, Zenon DEF PhaseOK, PhaseAt
  <2>5. ASSUME NEW p \in Peers PROVE p \in cg[g].cg_nodes <=> p \in members[g]
    <3>1. MemberAt(p, members[g], queue[g], bus[Ctl], queue[Ctl], cg[g].cg_nodes,
                   Ctl \in revents, g \in revents)
          /\ OutsiderAt(p, members[g], bus[g], queue[g], bus[Ctl], queue[Ctl],
                        cg[g].cg_nodes)
      BY <2>1, Zenon DEF NodeOK, PairAt
    <3>2. p \in members[g] => p \in cg[g].cg_nodes
      BY <2>3, <2>4, <3>1, Zenon DEF MemberAt
    <3>3. p \notin members[g] => p \notin cg[g].cg_nodes
      BY <2>3, <2>4, <3>1, Zenon DEF OutsiderAt, DeathIn
    <3> QED
      BY <3>2, <3>3, Zenon
  <2>6. cg[g].cg_nodes \subseteq Nodes /\ members[g] \subseteq Nodes
    <3>1. g \in Conns
      BY Constants, Zenon
    <3>2. cg[g] \in Cgroups /\ members[g] \in SUBSET Nodes
      BY <2>1, <3>1, Zenon DEF TypeOK
    <3> QED
      BY <3>2, SMT DEF Cgroups
  <2>7. \A n \in Nodes : n = Us \/ n \in Peers
    BY Zenon DEF Peers
  <2> QED
    BY <2>4, <2>5, <2>6, <2>7
<1>3. ASSUME Up, NEW g \in Groups, NEW p \in Peers, dlm[g][p] \in {"dying", "wait"}
      PROVE  \/ \E i \in DOMAIN queue[Ctl] : p \in queue[Ctl][i].left
             \/ bus[Ctl] # <<>>
             \/ \E i \in DOMAIN requests : requests[i] = <<g, p>>
             \/ /\ \E i \in DOMAIN results : results[i] = <<g, p, FALSE>>
                /\ p \in df[g].notifications
  <2>1. \/ DeathIn(p, bus[Ctl], queue[Ctl])
        \/ /\ p \in df[g].notifications
           /\ Has(requests, <<g, p>>) \/ Has(results, <<g, p, FALSE>>)
    BY <1>3, InvSays, Zenon DEF DlmOK, Awaits
  <2>2. bus[Ctl] = <<>> => DOMAIN bus[Ctl] = {}
    BY NothingIn, Zenon
  <2> QED
    BY <2>1, <2>2, Zenon DEF DeathIn, Died, Has
<1> QED
  BY <1>1, <1>2, <1>3, Zenon DEF NodesAreMembers, DeathIsPassedOn

(* CpgInv, the state that process_cpg(), daemon_change() and the           *)
(* notifications keep, holds of every state before the first of the three  *)
(* orders that cross the daemon's news: for any nodes and groups, any      *)
(* number of deaths and any number of unread changes.  Nothing is assumed  *)
(* of the run: only those orders can ever break it.                        *)
THEOREM InvHolds == Spec => [](CpgInv \/ raced)
<1>1. ASSUME CpgInv \/ raced, [Next /\ Watch]_<<vars, raced>>
      PROVE  (CpgInv \/ raced)'
  <2>1. CASE Next /\ Watch
    <3>1. CASE raced'
      BY <3>1, Zenon
    <3>2. CASE ~raced'
      <4>1. ~raced /\ ~DeathInJoin /\ ~DeathBehind /\ ~LateAnswer
        BY <2>1, <3>2, Zenon DEF Watch
      <4> QED
        BY <1>1, <2>1, <4>1, NextInv, Zenon
    <3> QED
      BY <3>1, <3>2, Zenon
  <2>2. CASE UNCHANGED <<vars, raced>>
    <3>1. UNCHANGED vars /\ raced' = raced
      BY <2>2, Zenon
    <3>2. CASE CpgInv
      BY <3>1, <3>2, StutterInv, Zenon
    <3> QED
      BY <1>1, <3>1, <3>2, Zenon
  <2> QED
    BY <1>1, <2>1, <2>2, Zenon
<1>2. Init => CpgInv \/ raced
  BY InitInv, Zenon
<1> QED
  BY <1>1, <1>2, PTL DEF Spec

(* What handle_node_join(), handle_node_leave() and daemon_change() of     *)
(* cpg.c make of cg_nodes is the group CPG has, whenever all that CPG has  *)
(* said of the group and of controld is read, and none of the three orders *)
(* has come.                                                               *)
THEOREM NodesFollowMembers == Spec => []NodesAreMembers
<1>1. CpgInv \/ raced => NodesAreMembers
  BY InvImplies, Zenon
<1> QED
  BY <1>1, InvHolds, PTL

(* Before any of the three orders, dlm_controld is told of every death it  *)
(* waits for: daemon_change() is still to read it, or the notification of  *)
(* dlmcontrol.c is on its way, or an answer that makes it send again.      *)
THEOREM DeathsArePassedOn == Spec => []DeathIsPassedOn
<1>1. CpgInv \/ raced => DeathIsPassedOn
  BY InvImplies, Zenon
<1> QED
  BY <1>1, InvHolds, PTL

(* push_node() of cpg.c finds the node that joins there already only after *)
(* one of the three orders: they are the only way for the daemon to be     *)
(* lost in its members.                                                    *)
THEOREM DaemonIsNeverLost == Spec => []NeverLost
<1>1. CpgInv \/ raced => NeverLost
  BY InvImplies, Zenon
<1> QED
  BY <1>1, InvHolds, PTL
=============================================================================
