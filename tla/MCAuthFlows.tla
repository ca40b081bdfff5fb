---------------------------- MODULE MCAuthFlows ----------------------------
(***************************************************************************)
(* Instances of AuthFlows for TLC: one flow and three requests at a time.  *)
(***************************************************************************)
EXTENDS AuthFlows, TLC

CONSTANTS f1, r1, r2, r3, k1, k2

Symmetry == Permutations(Request) \cup Permutations(Client)
=============================================================================
