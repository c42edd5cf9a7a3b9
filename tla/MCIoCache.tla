----------------------------- MODULE MCIoCache ------------------------------
(* The values are interchangeable. *)
EXTENDS IoCache, TLC

ValueSymmetry == Permutations(Values)
=============================================================================
