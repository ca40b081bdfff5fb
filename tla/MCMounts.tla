------------------------------ MODULE MCMounts ------------------------------
(***************************************************************************)
(* Instances of Mounts for TLC: targets that do and do not overlap.        *)
(***************************************************************************)
EXTENDS Mounts, TLC

CONSTANTS p1, p2, l1, l2, m1, m2, r1, r2

Nested == {<<>>, <<"a">>, <<"a", "b">>, <<"c">>}

Symmetry == Permutations(Provider) \cup Permutations(Library) \cup Permutations(Mount)
            \cup Permutations(Request)
=============================================================================
