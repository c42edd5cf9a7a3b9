---------------------- MODULE MCProtocolNegotiation ----------------------
(***************************************************************************)
(* ProtocolNegotiation for TLC: the protocol versions in play, and the     *)
(* behaviours in which no daemon dies or is stopped beside all others.     *)
(***************************************************************************)
EXTENDS ProtocolNegotiation

OneProto == {<<1, 0>>}

(* Two kernels: the older one cannot run what the newer one installs. *)
TwoProtos == {<<1, 18>>, <<1, 19>>}

VARIABLE calm   \* no daemon dies or is stopped, in the whole behaviour
MCvars == <<vars, calm>>

MCInit == Init /\ calm \in BOOLEAN
Kept == calm' = calm
MCNext ==
  /\ Kept
  /\ IF calm THEN \E n \in Nodes : Start(n) \/ Goes(n) \/ CleanNode(n) \/ CleanGlobal(n)
     ELSE Next

(* Where nobody dies, a daemon goes on and AIS gets to its cleaning up.    *)
MCFairness ==
  \A n \in Nodes : /\ WF_MCvars(calm /\ Goes(n) /\ Kept)
                   /\ WF_MCvars(calm /\ CleanNode(n) /\ Kept)
                   /\ WF_MCvars(calm /\ CleanGlobal(n) /\ Kept)
MCSpec == MCInit /\ [][MCNext]_MCvars /\ MCFairness

(* A daemon that has been started ends up running, or ends: where nobody   *)
(* dies it does not wait for ever in one of the retry loops of ckpt.c and  *)
(* read_global_checkpoint().                                               *)
StartEnds ==
  \A n \in Nodes : calm /\ pc[n] \in Starting ~> pc[n] \notin Starting
=============================================================================
