---------------------------- MODULE MCRegionRefs ----------------------------
(* Values of key for TLC: every region's checksum is the same. *)
EXTENDS RegionRefs, TLC

OneKey == [r \in Regions |-> CHOOSE k \in Keys : TRUE]

ProcSymmetry == Permutations(Procs)
=============================================================================
