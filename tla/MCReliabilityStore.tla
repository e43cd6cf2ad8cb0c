------------------------- MODULE MCReliabilityStore -------------------------
(* Instances of ReliabilityStore for TLC. *)
EXTENDS ReliabilityStore, TLC

Symmetry == Permutations(Calls)
=============================================================================
