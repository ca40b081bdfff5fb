-------------------------- MODULE MCProviderTokens --------------------------
(***************************************************************************)
(* Instances of ProviderTokens for TLC: two calls at a time, three in all. *)
(***************************************************************************)
EXTENDS ProviderTokens, TLC

CONSTANTS c1, c2, k1, k2

Symmetry == Permutations(Call) \cup Permutations(Client)
=============================================================================
