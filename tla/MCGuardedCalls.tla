--------------------------- MODULE MCGuardedCalls ---------------------------
(* Instances of GuardedCalls for TLC; the cfg gives the bounds. *)
EXTENDS GuardedCalls
=============================================================================
