---------------------------- MODULE MCWatchers ----------------------------
(***************************************************************************)
(* An instance of Watchers for TLC: two mounts of one library, which share *)
(* its timer, and one provider.                                            *)
(***************************************************************************)
EXTENDS Watchers, TLC

CONSTANTS films, left, right, disk, t1, t2

MCLibraryOf == [m \in Mount |-> films]
MCProviderOf == [m \in Mount |-> disk]
MCConfigured == {Row}
=============================================================================
