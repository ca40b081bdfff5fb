---------------------------- MODULE MCSchedules ----------------------------
(***************************************************************************)
(* An instance of Schedules for TLC: the minutes around midnight of a      *)
(* Saturday, January 31st, and three expressions that tell days from       *)
(* weekdays, either name of Sunday, and steps from values apart.           *)
(***************************************************************************)
EXTENDS Schedules, TLC

CONSTANTS films, left, right, whole, part, s1, s2

Range(lo, hi) == [all |-> FALSE, lo |-> lo, hi |-> hi, step |-> 0]
EveryNth(step) == <<[all |-> TRUE, lo |-> 0, hi |-> 0, step |-> step]>>

\* */2 * 1 * 7: even minutes of the first of a month, and of Sundays
Either == [minute |-> EveryNth(2), hour |-> Star, day |-> <<Range(1, 1)>>, month |-> Star,
           weekday |-> <<Range(7, 7)>>]
\* 0,59 * * 1-2 7
Sunday == [minute |-> <<Range(0, 0), Range(59, 59)>>, hour |-> Star, day |-> Star,
            month |-> <<Range(1, 2)>>, weekday |-> <<Range(7, 7)>>]
\* 1-58 * * 2-1 *, which does not parse
Broken == [minute |-> <<Range(1, 58)>>, hour |-> Star, day |-> Star, month |-> <<Range(2, 1)>>,
           weekday |-> Star]
\* 0-59/59 0 1 * *
First == [minute |-> <<[Range(0, 59) EXCEPT !.step = 59]>>, hour |-> <<Range(0, 0)>>,
          day |-> <<Range(1, 1)>>, month |-> Star, weekday |-> Star]

MCDraft == {
  [cron |-> Either, lib |-> films, mount |-> NoMount, path |-> NoPath, enabled |-> TRUE],
  [cron |-> Sunday, lib |-> films, mount |-> left, path |-> part, enabled |-> TRUE],
  [cron |-> First, lib |-> films, mount |-> left, path |-> NoPath, enabled |-> FALSE],
  [cron |-> Broken, lib |-> films, mount |-> left, path |-> NoPath, enabled |-> TRUE]}

MCSaved == {d \in MCDraft : d.enabled /\ d.cron # Sunday}

MCCalendar == <<
  [minute |-> 59, hour |-> 23, day |-> 31, month |-> 1, weekday |-> 6],
  [minute |-> 0, hour |-> 0, day |-> 1, month |-> 2, weekday |-> 0],
  [minute |-> 1, hour |-> 0, day |-> 1, month |-> 2, weekday |-> 0]>>

Symmetry == Permutations(Schedule)

MCLibraryOf == [m \in Mount |-> films]
MCRoots == [p \in Path |-> IF p = whole THEN {whole} ELSE {whole, part}]
=============================================================================
