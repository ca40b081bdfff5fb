----------------------------- MODULE ScanIntents -----------------------------
(***************************************************************************)
(* What the scan queue promises to the webhooks, watchers, schedules and   *)
(* people that ask for scans: an intent whose call returned is owed until  *)
(* a scan that started after it does what it asked for (or its target is   *)
(* found to be gone), and it does not stay owed for ever.  No intent is    *)
(* lost on the way, whatever is merged, restarted or retried.              *)
(***************************************************************************)
CONSTANT Intents

VARIABLES owed, settled

vars == <<owed, settled>>

Init == owed = {} /\ settled = {}

\* A scan that is already under way may settle an intent before its call returns.
Submit(i) ==
  /\ i \notin owed \cup settled
  /\ \/ owed' = owed \cup {i} /\ UNCHANGED settled
     \/ settled' = settled \cup {i} /\ UNCHANGED owed

\* One scan settles every owed intent in its scope.
Settle(S) ==
  /\ S # {} /\ S \subseteq owed
  /\ owed' = owed \ S
  /\ settled' = settled \cup S

Next ==
  \/ \E i \in Intents : Submit(i)
  \/ \E S \in SUBSET owed : Settle(S)

SafeSpec == Init /\ [][Next]_vars

Fairness ==
  \A i \in Intents : WF_vars(\E S \in SUBSET owed : i \in S /\ Settle(S))

Spec == SafeSpec /\ Fairness

=============================================================================
