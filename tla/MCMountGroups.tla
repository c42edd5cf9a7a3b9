--------------------------- MODULE MCMountGroups ---------------------------
(***************************************************************************)
(* MountGroups for TLC.  The constants are in the MountGroups_*.cfg files. *)
(* Beside the behaviours of two services there are those in which only the *)
(* filesystem itself is mounted (alone): the ones that fairness is assumed *)
(* in.  A tool that asks again and again can keep the other client busy.   *)
(* Nothing is claimed after a mishap, and TLC goes no further.             *)
(***************************************************************************)
EXTENDS MountGroupsInv

VARIABLE alone
MCvars == <<vars, mishap, alone>>

MCInit == Init /\ alone \in BOOLEAN
Kept == Watch /\ alone' = alone
MCNext ==
  \/ /\ ~mishap /\ Next /\ Kept
     /\ alone => \A ci \in Slots : client'[ci].service \in {OCFS2_FS_NAME, NoService}
  \/ mishap /\ UNCHANGED MCvars

(* The main loop polls every descriptor and serves what is ready: those of *)
(* the clients, of the groups and of dlm_controld, which all answer; a     *)
(* program goes on with what it was told to do.                            *)
Live == alone /\ ~mishap
MCFairness ==
  /\ \A ci \in Slots : /\ WF_vars(Live /\ Serve(ci))
                       /\ WF_vars(Live /\ GoOn(ci))
  /\ \A u \in Uuids :
       /\ WF_vars(Live /\ (FinishJoin(u) \/ CpgLeft(u)))
       /\ WF_vars(Live /\ OrphanEvent(u))
       /\ WF_vars(Live /\ (RegisterResult(u) \/ StaleResult(u)))
MCSpec == MCInit /\ [][MCNext]_MCvars /\ MCFairness

(* Whoever waits for the daemon is answered, unless there is a mishap:     *)
(* every path through a handler of mount.c either replies or has a         *)
(* callback that will, and a leave or a join that is under way does not    *)
(* lose the client it has to tell.                                         *)
RequestIsAnswered ==
  \A ci \in Slots : alone /\ Waiting(ci) ~> mishap \/ ~Waiting(ci)

(* mount.c: "We can clear the in-progress flag and allow other mounters":  *)
(* without a mishap a mountgroup does not stay busy for ever, whoever died *)
(* on the way.                                                             *)
BusyEnds == \A u \in Uuids : alone /\ Busy(u) ~> mishap \/ ~Busy(u)
=============================================================================
