--------------------------- MODULE AgreedProtocol ---------------------------
(***************************************************************************)
(* What the daemons' start-up promises: whoever is running, runs the same  *)
(* protocols.  The first to run picks them; they can only change while     *)
(* nobody runs.                                                            *)
(***************************************************************************)
CONSTANTS Nodes, Protocols,
          Nobody     \* what is agreed while nobody runs

VARIABLES running,   \* the nodes whose daemon serves mounts
          agreed     \* the protocols they use

Init == running = {} /\ agreed = Nobody

Run(n) ==
  /\ n \notin running
  /\ running' = running \cup {n}
  /\ IF running = {} THEN agreed' \in Protocols ELSE UNCHANGED agreed

End(n) ==
  /\ n \in running
  /\ running' = running \ {n}
  /\ agreed' = IF running' = {} THEN Nobody ELSE agreed

Next == \E n \in Nodes : Run(n) \/ End(n)

Spec == Init /\ [][Next]_<<running, agreed>>
=============================================================================
