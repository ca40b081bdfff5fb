----------------------------- MODULE MCScanTasks -----------------------------
(***************************************************************************)
(* Instances of ScanTasks for TLC.                                         *)
(***************************************************************************)
EXTENDS ScanTasks, TLC

RequestSymmetry == Permutations(Requests)

=============================================================================
