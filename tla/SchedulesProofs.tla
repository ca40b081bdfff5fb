--------------------------- MODULE SchedulesProofs ---------------------------
(***************************************************************************)
(* Proofs about Schedules, for every set of schedules, every expression,   *)
(* every calendar and every bound.                                         *)
(***************************************************************************)
EXTENDS Schedules, TLAPS

-----------------------------------------------------------------------------
(* Cron expressions *)

\* The steps of a part stay in its range.
LEMMA StepInRange ==
  ASSUME NEW a \in Int, NEW b \in Int, a <= b, NEW s \in Nat \ {0},
         NEW k \in 0..((b - a) \div s)
  PROVE  a + k * s \in a..b
<1>1. s * ((b - a) \div s) <= b - a
  OBVIOUS
<1>2. k * s <= s * ((b - a) \div s)
  OBVIOUS
<1>3. k * s >= 0
  OBVIOUS
<1> QED BY <1>1, <1>2, <1>3

\* A value of the range is a step of the part when the step divides its
\* distance from the start.
LEMMA StepDivides ==
  ASSUME NEW a \in Int, NEW b \in Int, NEW s \in Nat \ {0}, NEW v \in a..b
  PROVE  (v - a) % s = 0 <=> \E k \in 0..((b - a) \div s) : v = a + k * s
<1>1. ASSUME (v - a) % s = 0
      PROVE  \E k \in 0..((b - a) \div s) : v = a + k * s
  <2>1. v - a = s * ((v - a) \div s)
    BY <1>1
  <2>2. (v - a) \div s \in 0..((b - a) \div s)
    OBVIOUS
  <2>3. v = a + ((v - a) \div s) * s
    BY <2>1, <2>2
  <2> QED BY <2>2, <2>3
<1>2. ASSUME NEW k \in 0..((b - a) \div s), v = a + k * s
      PROVE  (v - a) % s = 0
  <2>1. v - a = k * s /\ k \in Nat
    BY <1>2
  <2>2. (k * s) % s = 0
    BY <2>1
  <2> QED BY <2>1, <2>2
<1> QED BY <1>1, <1>2

\* What the code computes for a field that parses is what the field names.
LEMMA FieldNames ==
  ASSUME NEW min \in Int, NEW max \in Int, min <= max,
         NEW field \in Seq(Part), ParsableField(field, min, max)
  PROVE  /\ CronField(field, min, max) \subseteq min..max
         /\ \A v \in min..max : v \in CronField(field, min, max) <=> Names(field, v, min)
<1> DEFINE Lo(part) == CronRange(part, min, max)[1]
           Hi(part) == CronRange(part, min, max)[2]
           By(part) == IF part.step = 0 THEN 1 ELSE part.step
<1>1. ASSUME NEW part \in Parts(field)
      PROVE  /\ part.all \in BOOLEAN /\ part.step \in Nat /\ part.lo \in Int /\ part.hi \in Int
             /\ Lo(part) = (IF part.all THEN min ELSE part.lo)
             /\ Hi(part) = (IF part.all THEN max ELSE part.hi)
             /\ min <= Lo(part) /\ Lo(part) <= Hi(part) /\ Hi(part) <= max
             /\ Lo(part) \in Int /\ Hi(part) \in Int /\ By(part) \in Nat \ {0}
  <2>1. part \in Part BY DEF Parts
  <2>2. ParsablePart(part, min, max) BY DEF ParsableField
  <2> QED BY <2>1, <2>2 DEF ParsablePart, CronRange, Part
<1>2. ASSUME NEW part \in Parts(field)
      PROVE  CronSteps(part, min, max) = {Lo(part) + k * By(part) :
                                           k \in 0..((Hi(part) - Lo(part)) \div By(part))}
  BY DEF CronSteps
<1>3. ASSUME NEW part \in Parts(field)
      PROVE  CronSteps(part, min, max) \subseteq Lo(part)..Hi(part)
  <2> HIDE DEF Lo, Hi, By
  <2> SUFFICES ASSUME NEW k \in 0..((Hi(part) - Lo(part)) \div By(part))
               PROVE  Lo(part) + k * By(part) \in Lo(part)..Hi(part)
    BY <1>2
  <2> QED BY <1>1, StepInRange
<1>4. ASSUME NEW part \in Parts(field), NEW v \in Lo(part)..Hi(part)
      PROVE  v \in CronSteps(part, min, max) <=> (v - Lo(part)) % By(part) = 0
  <2> HIDE DEF Lo, Hi, By
  <2>1. (v - Lo(part)) % By(part) = 0
          <=> \E k \in 0..((Hi(part) - Lo(part)) \div By(part)) : v = Lo(part) + k * By(part)
    <3>1. Lo(part) \in Int /\ Hi(part) \in Int /\ By(part) \in Nat \ {0}
      BY <1>1
    <3> QED BY <3>1, StepDivides, Zenon
  <2> QED BY <1>2, <2>1
<1>5. CronField(field, min, max) \subseteq min..max
  <2> SUFFICES ASSUME NEW part \in Parts(field), NEW v \in CronSteps(part, min, max)
               PROVE  v \in min..max
    BY DEF CronField
  <2> HIDE DEF Lo, Hi, By
  <2> QED BY <1>1, <1>3
<1>6. ASSUME NEW v \in min..max
      PROVE  v \in CronField(field, min, max) <=> Names(field, v, min)
  <2>1. ASSUME NEW part \in Parts(field)
        PROVE  v \in CronSteps(part, min, max) <=>
                 /\ part.all \/ (part.lo <= v /\ v <= part.hi)
                 /\ part.step > 1 => (v - (IF part.all THEN min ELSE part.lo)) % part.step = 0
    <3>1. v \in Lo(part)..Hi(part) <=> part.all \/ (part.lo <= v /\ v <= part.hi)
      BY <1>1
    <3>2. (v - Lo(part)) % By(part) = 0 <=>
            (part.step > 1 => (v - (IF part.all THEN min ELSE part.lo)) % part.step = 0)
      <4>1. CASE part.step > 1
        BY <1>1, <4>1
      <4>2. CASE ~(part.step > 1)
        <5>1. By(part) = 1 /\ v - Lo(part) \in Int
          BY <1>1, <4>2
        <5> HIDE DEF Lo, By
        <5> QED BY <4>2, <5>1
      <4> QED BY <4>1, <4>2
    <3> HIDE DEF Lo, Hi, By
    <3> QED BY <1>3, <1>4, <3>1, <3>2
  <2> QED BY <2>1 DEF CronField, Names
<1> QED BY <1>5, <1>6

\* The weekdays of a field that parses: Sunday answers to 0 and to 7.
LEMMA WeekdayNames ==
  ASSUME NEW field \in Seq(Part), ParsableField(field, 0, 7), NEW d \in 0..6
  PROVE  d \in CronWeekdays(field) <=> Names(field, d, 0) \/ (d = 0 /\ Names(field, 7, 0))
<1>1. /\ CronField(field, 0, 7) \subseteq 0..7
      /\ \A v \in 0..7 : v \in CronField(field, 0, 7) <=> Names(field, v, 0)
  BY FieldNames
<1>2. \A v \in 0..7 : v % 7 = d <=> v = d \/ (d = 0 /\ v = 7)
  OBVIOUS
<1>3. d \in CronWeekdays(field) <=> \E v \in 0..7 : v \in CronField(field, 0, 7) /\ v % 7 = d
  BY <1>1 DEF CronWeekdays
<1> QED BY <1>1, <1>2, <1>3

\* "*" names every value.
LEMMA StarNames == ASSUME NEW v, NEW min PROVE Names(Star, v, min)
<1> DEFINE all == [all |-> TRUE, lo |-> 0, hi |-> 0, step |-> 0]
<1>1. 1 \in DOMAIN Star /\ Star[1] = all
  <2>1. Star = <<all>> BY DEF Star
  <2> HIDE DEF all
  <2> QED BY <2>1
<1>2. all \in Parts(Star) BY <1>1 DEF Parts
<1> QED BY <1>2 DEF Names

\* For every expression that parses and every minute, the sets that the code
\* builds and looks the minute up in say what the expression names, value by
\* value (parseCronField, matches: schedule.go:151-193, :235-252).
THEOREM MatchesIsDue ==
  ASSUME NEW cron \in CronType, Parsable(cron), NEW m \in FieldsType
  PROVE  Matches(cron, m) <=> Due(cron, m)
<1>1. /\ m.minute \in CronField(cron.minute, 0, 59) <=> Names(cron.minute, m.minute, 0)
      /\ m.hour \in CronField(cron.hour, 0, 23) <=> Names(cron.hour, m.hour, 0)
      /\ m.month \in CronField(cron.month, 1, 12) <=> Names(cron.month, m.month, 1)
      /\ m.day \in CronField(cron.day, 1, 31) <=> Names(cron.day, m.day, 1)
  <2>1. /\ cron.minute \in Seq(Part) /\ ParsableField(cron.minute, 0, 59)
        /\ cron.hour \in Seq(Part) /\ ParsableField(cron.hour, 0, 23)
        /\ cron.day \in Seq(Part) /\ ParsableField(cron.day, 1, 31)
        /\ cron.month \in Seq(Part) /\ ParsableField(cron.month, 1, 12)
    BY DEF CronType, Parsable
  <2>2. m.minute \in 0..59 /\ m.hour \in 0..23 /\ m.day \in 1..31 /\ m.month \in 1..12
    BY DEF FieldsType
  <2>3. m.minute \in CronField(cron.minute, 0, 59) <=> Names(cron.minute, m.minute, 0)
    <3>1. \A v \in 0..59 : v \in CronField(cron.minute, 0, 59) <=> Names(cron.minute, v, 0)
      <4>1. 0 \in Int /\ 59 \in Int /\ 0 <= 59 OBVIOUS
      <4> QED BY <2>1, <4>1, FieldNames, Zenon
    <3> QED BY <2>2, <3>1
  <2>4. m.hour \in CronField(cron.hour, 0, 23) <=> Names(cron.hour, m.hour, 0)
    <3>1. \A v \in 0..23 : v \in CronField(cron.hour, 0, 23) <=> Names(cron.hour, v, 0)
      <4>1. 0 \in Int /\ 23 \in Int /\ 0 <= 23 OBVIOUS
      <4> QED BY <2>1, <4>1, FieldNames, Zenon
    <3> QED BY <2>2, <3>1
  <2>5. m.month \in CronField(cron.month, 1, 12) <=> Names(cron.month, m.month, 1)
    <3>1. \A v \in 1..12 : v \in CronField(cron.month, 1, 12) <=> Names(cron.month, v, 1)
      <4>1. 1 \in Int /\ 12 \in Int /\ 1 <= 12 OBVIOUS
      <4> QED BY <2>1, <4>1, FieldNames, Zenon
    <3> QED BY <2>2, <3>1
  <2>6. m.day \in CronField(cron.day, 1, 31) <=> Names(cron.day, m.day, 1)
    <3>1. \A v \in 1..31 : v \in CronField(cron.day, 1, 31) <=> Names(cron.day, v, 1)
      <4>1. 1 \in Int /\ 31 \in Int /\ 1 <= 31 OBVIOUS
      <4> QED BY <2>1, <4>1, FieldNames, Zenon
    <3> QED BY <2>2, <3>1
  <2> QED BY <2>3, <2>4, <2>5, <2>6
<1>2. m.weekday \in CronWeekdays(cron.weekday) <=>
        Names(cron.weekday, m.weekday, 0) \/ (m.weekday = 0 /\ Names(cron.weekday, 7, 0))
  BY WeekdayNames DEF CronType, FieldsType, Parsable
<1>3. cron.day = Star => Names(cron.day, m.day, 1)
  BY StarNames
<1>4. cron.weekday = Star => Names(cron.weekday, m.weekday, 0)
  BY StarNames
<1> QED BY <1>1, <1>2, <1>3, <1>4 DEF Matches, Due

-----------------------------------------------------------------------------
(* Type correctness *)

\* The calendar has a minute, and numbers its minutes.
LEMMA MinuteNat == /\ Len(Calendar) \in Nat \ {0} /\ Minute \subseteq Nat \ {0} /\ 1 \in Minute
                   /\ \A n \in Minute : Calendar[n] \in FieldsType
<1>1. Calendar \in Seq(FieldsType) /\ Calendar # <<>>
  BY ScheduleAssumption
<1> QED BY <1>1 DEF Minute

LEMMA InitTyped == Init => TypeOK
<1> SUFFICES ASSUME Init PROVE TypeOK
  OBVIOUS
<1>1. \A s \in Schedule : rows[s] \in {NewRow(d) : d \in Saved}
  BY DEF Init
<1>2. /\ DOMAIN rows = Schedule
      /\ \A s \in Schedule : rows[s] \in RowType
      /\ \A s \in Schedule : {rows[s].item.lib, rows[s].item.mount} \ {NoMount} \subseteq there
  BY <1>1, ScheduleAssumption DEF Init, NewRow, RowType
<1>3. root \in [Mount -> Path]
  BY ScheduleAssumption DEF Init
<1>4. now \in Minute
  BY MinuteNat DEF Init
<1>5. sched.items = {} /\ sched.marked = {}
  BY DEF Init
<1> QED BY <1>2, <1>3, <1>4, <1>5 DEF Init, TypeOK

\* A row that is put, or rows that are kept, leave the table a table.
LEMMA TableTyped ==
  ASSUME TypeOK, NEW s \in Schedule, NEW r \in RowType, NEW S,
         {r.item.lib, r.item.mount} \ {NoMount} \subseteq there
  PROVE  /\ DOMAIN Put(s, r) = DOMAIN rows \cup {s} /\ DOMAIN Put(s, r) \subseteq Schedule
         /\ \A x \in DOMAIN Put(s, r) :
              /\ Put(s, r)[x] \in RowType
              /\ {Put(s, r)[x].item.lib, Put(s, r)[x].item.mount} \ {NoMount} \subseteq there
         /\ DOMAIN Keep(S) = DOMAIN rows \cap S
         /\ \A x \in DOMAIN rows \cap S : Keep(S)[x] = rows[x]
BY DEF TypeOK, Put, Keep

LEMMA StepTyped == TypeOK /\ [Next]_vars => TypeOK'
<1> SUFFICES ASSUME TypeOK, [Next]_vars PROVE TypeOK'
  OBVIOUS
<1> USE DEF TypeOK
<1>1. ASSUME NEW kind \in {"POST", "PUT"}, NEW s \in Schedule, NEW d \in Draft,
             ValidateTarget(kind, s, d)
      PROVE  TypeOK'
  BY <1>1 DEF ValidateTarget, clock
<1>2. ASSUME NEW q \in requests, Save(q)
      PROVE  TypeOK'
  <2>1. q.id \in Schedule /\ q.item \in Draft
    OBVIOUS
  <2>2. CASE Referenced(q.item) /\ (q.kind = "POST" <=> q.id \notin DOMAIN rows)
    <3> DEFINE r == IF q.kind = "POST" THEN NewRow(q.item) ELSE EditedRow(q.id, q.item)
    <3>1. r \in RowType /\ r.item = q.item
      BY <2>1, <2>2, MinuteNat DEF NewRow, EditedRow, RowType
    <3>2. {r.item.lib, r.item.mount} \ {NoMount} \subseteq there
      BY <2>2, <3>1 DEF Referenced
    <3>3. rows' = Put(q.id, r) /\ owing' = owing \ {q.id}
      BY <1>2, <2>2 DEF Save
    <3> HIDE DEF r
    <3>4. /\ DOMAIN rows' \subseteq Schedule
          /\ \A x \in DOMAIN rows' :
               /\ rows'[x] \in RowType
               /\ {rows'[x].item.lib, rows'[x].item.mount} \ {NoMount} \subseteq there
      BY <2>1, <3>1, <3>2, <3>3, TableTyped
    <3> QED BY <1>2, <3>3, <3>4 DEF Save, clock
  <2>3. CASE ~(Referenced(q.item) /\ (q.kind = "POST" <=> q.id \notin DOMAIN rows))
    BY <1>2, <2>3 DEF Save, clock
  <2> QED BY <2>2, <2>3
<1>3. ASSUME NEW s \in Schedule, DeleteSchedule(s)
      PROVE  TypeOK'
  BY <1>3 DEF DeleteSchedule, Keep, clock
<1>4. ASSUME NEW x \in Library \cup Mount, SwitchTarget(x)
      PROVE  TypeOK'
  BY <1>4 DEF SwitchTarget, clock
<1>5. ASSUME NEW x \in Library \cup Mount, DeleteTarget(x)
      PROVE  TypeOK'
  BY <1>5 DEF DeleteTarget, Keep, clock
<1>6. ASSUME NEW m \in Mount, NEW p \in Path, MoveMount(m, p)
      PROVE  TypeOK'
  BY <1>6 DEF MoveMount, clock
<1>7. ASSUME NEW n \in Minute, Tick(n)
      PROVE  TypeOK'
  BY <1>7 DEF Tick, tables
<1>8. CASE Stop \/ Restart
  BY <1>8 DEF Stop, Restart, tables, clock
<1>9. CASE LoadEnabled
  <2>1. \A s \in DOMAIN rows : s \in Schedule /\ rows[s].item \in Draft
    BY DEF RowType
  <2>2. \A S \in SUBSET DOMAIN rows : {[id |-> s, item |-> rows[s].item] : s \in S} \subseteq Item
    BY <2>1 DEF Item
  <2>3. CASE UNCHANGED <<sched, owing>>
    BY <1>9, <2>3 DEF LoadEnabled, tables
  <2>4. CASE ~UNCHANGED <<sched, owing>>
    <3> DEFINE Listed == {s \in DOMAIN rows : rows[s].item.enabled}
               items == {[id |-> s, item |-> rows[s].item] : s \in Listed}
    <3>1. items \subseteq Item
      BY <2>2
    <3>2. /\ sched' = [sched EXCEPT !.pc = "checking", !.at = tick, !.items = items]
          /\ owing' \subseteq DOMAIN rows
      BY <1>9, <2>4 DEF LoadEnabled
    <3>3. sched' \in [pc : {"waiting", "checking", "marked", "enqueuing", "stopped"},
                      at : {0} \cup Minute, items : SUBSET Item, marked : SUBSET Item,
                      targets : SUBSET Mount]
      BY <3>1, <3>2
    <3> QED BY <1>9, <3>2, <3>3 DEF LoadEnabled, tables
  <2> QED BY <2>3, <2>4
<1>10. CASE Checked
  BY <1>10 DEF Checked, tables, clock
<1>11. ASSUME NEW i \in sched.items, PassOver(i)
       PROVE  TypeOK'
  BY <1>11 DEF PassOver, NextItem, tables, clock
<1>12. ASSUME NEW i \in sched.items, MarkRun(i)
       PROVE  TypeOK'
  <2>1. CASE UNCHANGED rows /\ NextItem(i) /\ owing' \subseteq owing
    BY <1>12, <2>1 DEF MarkRun, NextItem, clock
  <2>2. CASE /\ Markable(i.id, sched.at) /\ rows' = [rows EXCEPT ![i.id].last = sched.at]
             /\ sched' = [sched EXCEPT !.pc = "marked", !.marked = {i}] /\ UNCHANGED owing
    <3>1. \A s \in DOMAIN rows : rows'[s] \in RowType /\ rows'[s].item = rows[s].item
      BY <2>2 DEF RowType
    <3> QED BY <1>12, <2>2, <3>1 DEF MarkRun, clock
  <2> QED BY <1>12, <2>1, <2>2 DEF MarkRun, MarkFails
<1>13. ASSUME NEW i \in sched.marked, ResolveTargets(i)
       PROVE  TypeOK'
  <2> DEFINE mounts == EnabledMounts(i.item.lib)
             targets == TargetsOf(i.item, mounts)
  <2>1. Resolvable(i.item, mounts) => targets \subseteq Mount
    BY DEF TargetsOf, EnabledMounts, Resolvable
  <2> HIDE DEF mounts, targets
  <2>2. CASE /\ Resolvable(i.item, mounts) /\ UNCHANGED owing
             /\ sched' = [sched EXCEPT !.pc = "enqueuing", !.targets = targets]
    BY <1>13, <2>1, <2>2 DEF ResolveTargets, tables, clock
  <2>3. CASE NextItem(i) /\ owing' = owing \ {i.id}
    BY <1>13, <2>3 DEF ResolveTargets, NextItem, tables, clock
  <2> QED BY <1>13, <2>2, <2>3 DEF ResolveTargets, mounts, targets
<1>14. ASSUME NEW i \in sched.marked, Enqueued(i)
       PROVE  TypeOK'
  BY <1>14 DEF Enqueued, NextItem, tables, clock
<1>15. ASSUME NEW i \in sched.marked, NEW m \in Mount, EnqueueScan(i, m)
       PROVE  TypeOK'
  <2>1. [id |-> i.id, item |-> i.item, mount |-> m, at |-> sched.at]
          \in [id : Schedule, item : Draft, mount : Mount, at : {0} \cup Minute]
    BY DEF Item
  <2>2. CASE /\ sched' = [sched EXCEPT !.targets = @ \ {m}] /\ UNCHANGED owing
             /\ ran' = Append(ran, [id |-> i.id, item |-> i.item, mount |-> m, at |-> sched.at])
    <3>1. ran' \in Seq([id : Schedule, item : Draft, mount : Mount, at : {0} \cup Minute])
      BY <2>1, <2>2
    <3> QED BY <1>15, <2>2, <3>1 DEF EnqueueScan, tables, clock
  <2>3. CASE NextItem(i) /\ owing' = owing \ {i.id} /\ UNCHANGED ran
    BY <1>15, <2>3 DEF EnqueueScan, NextItem, tables, clock
  <2> QED BY <1>15, <2>2, <2>3 DEF EnqueueScan
<1>16. CASE UNCHANGED vars
  BY <1>16 DEF vars
<1> QED BY <1>1, <1>2, <1>3, <1>4, <1>5, <1>6, <1>7, <1>8, <1>9, <1>10, <1>11, <1>12,
           <1>13, <1>14, <1>15, <1>16 DEF Next

\* Every row refers to a library and a mount that exist, whatever is deleted
\* between the validation of a request and its statement (scan_schedules.go).
THEOREM TypeCorrect == Spec => []TypeOK
BY InitTyped, StepTyped, PTL DEF Spec

-----------------------------------------------------------------------------
(* Why a minute is run once *)

Busy == sched.pc \in {"checking", "marked", "enqueuing"}
Running == sched.pc \in {"marked", "enqueuing"}

\* No row is marked with a minute that is still to be checked.
Timely ==
  /\ sched.at <= now /\ tick <= now
  /\ \A s \in DOMAIN rows : rows[s].last <= now
  /\ tick # 0 => sched.at <= tick /\ \A s \in DOMAIN rows : rows[s].last <= tick
  /\ Busy => sched.at \in Minute /\ \A s \in DOMAIN rows : rows[s].last <= sched.at

\* A schedule that has no row was deleted.
Remembered == \A s \in Schedule : s \in DOMAIN rows \/ s \in deleted

\* One schedule runs at a time, and one check lists a schedule once.
Alone ==
  /\ \A i, j \in sched.items : i.id = j.id => i = j
  /\ \A i, j \in sched.marked : i = j
  /\ Running => sched.marked \subseteq sched.items

\* The mark of a schedule is not behind what was enqueued for it; one that is
\* running is marked, and has enqueued only mounts that are no longer to come.
Recorded ==
  /\ \A k \in 1..Len(ran) :
       ran[k].id \notin deleted => ran[k].at <= rows[ran[k].id].last
  /\ Running => \A i \in sched.marked : i.id \notin deleted =>
       /\ rows[i.id].last = sched.at
       /\ \A k \in 1..Len(ran) : ran[k].id = i.id /\ ran[k].at = sched.at =>
            sched.pc = "enqueuing" /\ ran[k].mount \notin sched.targets

OnceInv == TypeOK /\ Timely /\ Remembered /\ Alone /\ Recorded /\ RunsOnce

-----------------------------------------------------------------------------
(* The steps, by what they do to the scheduler *)

Handle ==
  \/ \E kind \in {"POST", "PUT"}, s \in Schedule, d \in Draft : ValidateTarget(kind, s, d)
  \/ \E q \in requests : Save(q)
  \/ \E s \in Schedule : DeleteSchedule(s)
  \/ \E x \in Library \cup Mount : SwitchTarget(x) \/ DeleteTarget(x)
  \/ \E m \in Mount, p \in Path : MoveMount(m, p)

\* A handler leaves the clock, the scheduler and what it has run alone.  It
\* keeps the marks of the rows that stay, and a new row has none.
LEMMA HandlerFrame ==
  ASSUME TypeOK, Handle
  PROVE  /\ UNCHANGED <<clock, sched, ran, stops>> /\ deleted \subseteq deleted'
         /\ \A s \in DOMAIN rows : s \in DOMAIN rows' => rows'[s].last = rows[s].last
         /\ \A s \in DOMAIN rows' : s \notin DOMAIN rows => rows'[s].last = 0
         /\ \A s \in DOMAIN rows : s \in DOMAIN rows' \/ s \in deleted'
<1>1. CASE UNCHANGED <<rows, clock, sched, ran, deleted, stops>>
  BY <1>1
<1>2. ASSUME NEW kind \in {"POST", "PUT"}, NEW s \in Schedule, NEW d \in Draft,
             ValidateTarget(kind, s, d)
      PROVE  UNCHANGED <<rows, clock, sched, ran, deleted, stops>>
  BY <1>2 DEF ValidateTarget
<1>3. ASSUME NEW x \in Library \cup Mount, SwitchTarget(x)
      PROVE  UNCHANGED <<rows, clock, sched, ran, deleted, stops>>
  BY <1>3 DEF SwitchTarget
<1>4. ASSUME NEW m \in Mount, NEW p \in Path, MoveMount(m, p)
      PROVE  UNCHANGED <<rows, clock, sched, ran, deleted, stops>>
  BY <1>4 DEF MoveMount
<1>5. ASSUME NEW s \in Schedule, DeleteSchedule(s)
      PROVE  /\ UNCHANGED <<clock, sched, ran, stops>> /\ deleted' = deleted \cup {s}
             /\ DOMAIN rows' = DOMAIN rows \ {s}
             /\ \A x \in DOMAIN rows' : rows'[x] = rows[x]
  BY <1>5 DEF DeleteSchedule, Keep, TypeOK
<1>6. ASSUME NEW x \in Library \cup Mount, DeleteTarget(x)
      PROVE  /\ UNCHANGED <<clock, sched, ran, stops>>
             /\ DOMAIN rows' \subseteq DOMAIN rows
             /\ deleted' = deleted \cup (DOMAIN rows \ DOMAIN rows')
             /\ \A s \in DOMAIN rows' : rows'[s] = rows[s]
  BY <1>6 DEF DeleteTarget, Keep
<1>7. ASSUME NEW q \in requests, Save(q)
      PROVE  /\ UNCHANGED <<clock, sched, ran, deleted, stops>>
             /\ \/ UNCHANGED rows
                \/ /\ DOMAIN rows' = DOMAIN rows \cup {q.id}
                   /\ \A s \in DOMAIN rows \ {q.id} : rows'[s] = rows[s]
                   /\ q.id \notin DOMAIN rows => rows'[q.id].last = 0
                   /\ q.id \in DOMAIN rows => rows'[q.id].last = rows[q.id].last
  <2>1. UNCHANGED <<clock, sched, ran, deleted, stops>>
    BY <1>7 DEF Save
  <2>2. NewRow(q.item).last = 0
    BY DEF NewRow
  <2>3. q.id \in DOMAIN rows => EditedRow(q.id, q.item).last = rows[q.id].last
    BY DEF EditedRow, TypeOK, RowType
  <2> QED BY <1>7, <2>1, <2>2, <2>3 DEF Save, Put
<1> QED BY <1>1, <1>2, <1>3, <1>4, <1>5, <1>6, <1>7 DEF Handle

\* The steps of the scheduler on the item it is at, one by one.
Mark(i) ==
  /\ sched.pc = "checking" /\ i \in sched.items /\ Markable(i.id, sched.at)
  /\ Parsable(i.item.cron) /\ Matches(i.item.cron, Calendar[sched.at])
  /\ rows' = [rows EXCEPT ![i.id].last = sched.at]
  /\ sched' = [sched EXCEPT !.pc = "marked", !.marked = {i}]
  /\ UNCHANGED <<there, on, root, requests, edits, moves, clock, ran, deleted, owing, stops>>

Resolve(i, targets) ==
  /\ sched.pc = "marked" /\ sched' = [sched EXCEPT !.pc = "enqueuing", !.targets = targets]
  /\ UNCHANGED <<tables, clock, ran, owing, stops>>

Enqueue(i, m) ==
  /\ sched.pc = "enqueuing" /\ m \in sched.targets
  /\ sched' = [sched EXCEPT !.targets = @ \ {m}]
  /\ ran' = Append(ran, [id |-> i.id, item |-> i.item, mount |-> m, at |-> sched.at])
  /\ UNCHANGED <<tables, clock, owing, stops>>

\* The item is left, and nothing is owed for it any more or was.
Leave(i) ==
  /\ Busy /\ NextItem(i)
  /\ \/ owing' = owing \ {i.id}
     \/ /\ sched.pc = "checking" /\ UNCHANGED owing
        /\ ~(/\ Parsable(i.item.cron) /\ Matches(i.item.cron, Calendar[sched.at])
             /\ Markable(i.id, sched.at))
  /\ UNCHANGED <<tables, clock, ran, stops>>

LEMMA ItemStep ==
  ASSUME TypeOK,
         \/ \E i \in sched.items : PassOver(i) \/ MarkRun(i)
         \/ \E i \in sched.marked : ResolveTargets(i) \/ Enqueued(i)
         \/ \E i \in sched.marked, m \in Mount : EnqueueScan(i, m)
  PROVE  \/ \E i \in sched.items : Mark(i) \/ (sched.pc = "checking" /\ Leave(i))
         \/ \E i \in sched.marked : Running /\ Leave(i)
         \/ \E i \in sched.marked, targets \in SUBSET Mount : Resolve(i, targets)
         \/ \E i \in sched.marked, m \in Mount : Enqueue(i, m)
<1>1. ASSUME NEW i \in sched.items, PassOver(i)
      PROVE  sched.pc = "checking" /\ Leave(i)
  BY <1>1 DEF PassOver, Leave, Busy
<1>2. ASSUME NEW i \in sched.items, MarkRun(i)
      PROVE  Mark(i) \/ (sched.pc = "checking" /\ Leave(i))
  BY <1>2 DEF MarkRun, MarkFails, Mark, Leave, Busy, tables
<1>3. ASSUME NEW i \in sched.marked, ResolveTargets(i)
      PROVE  Running /\ (Leave(i) \/ \E targets \in SUBSET Mount : Resolve(i, targets))
  <2>1. Resolvable(i.item, EnabledMounts(i.item.lib)) =>
          TargetsOf(i.item, EnabledMounts(i.item.lib)) \subseteq Mount
    BY DEF TargetsOf, EnabledMounts, Resolvable
  <2> QED BY <1>3, <2>1 DEF ResolveTargets, Resolve, Leave, Busy, Running
<1>4. ASSUME NEW i \in sched.marked, Enqueued(i)
      PROVE  Running /\ Leave(i)
  BY <1>4 DEF Enqueued, Leave, Busy, Running
<1>5. ASSUME NEW i \in sched.marked, NEW m \in Mount, EnqueueScan(i, m)
      PROVE  Enqueue(i, m) \/ (Running /\ Leave(i))
  BY <1>5 DEF EnqueueScan, Enqueue, Leave, Busy, Running
<1> QED BY <1>1, <1>2, <1>3, <1>4, <1>5

\* A step of the whole, by what it does to the scheduler.
LEMMA StepCases ==
  ASSUME TypeOK, [Next]_vars
  PROVE  \/ Handle \/ (\E n \in Minute : Tick(n)) \/ Stop \/ Restart \/ LoadEnabled \/ Checked
         \/ \E i \in sched.items : Mark(i) \/ (sched.pc = "checking" /\ Leave(i))
         \/ \E i \in sched.marked : Running /\ Leave(i)
         \/ \E i \in sched.marked, targets \in SUBSET Mount : Resolve(i, targets)
         \/ \E i \in sched.marked, m \in Mount : Enqueue(i, m)
         \/ UNCHANGED vars
BY ItemStep DEF Next, Handle

LEMMA ClockTyped ==
  ASSUME TypeOK
  PROVE  /\ now \in Nat /\ tick \in Nat /\ sched.at \in Nat
         /\ \A s \in DOMAIN rows : rows[s].last \in Nat
         /\ \A k \in 1..Len(ran) : ran[k].at \in Nat
<1>1. {0} \cup Minute \subseteq Nat
  BY MinuteNat
<1> DEFINE Run == [id : Schedule, item : Draft, mount : Mount, at : {0} \cup Minute]
<1>2. ran \in Seq(Run)
  BY DEF TypeOK
<1> HIDE DEF Run
<1>3. \A k \in 1..Len(ran) : ran[k] \in Run
  BY <1>2
<1> QED BY <1>1, <1>3 DEF Run, TypeOK, RowType

LEMMA TimelyKept == TypeOK /\ Timely /\ [Next]_vars => Timely'
<1> SUFFICES ASSUME TypeOK, Timely, [Next]_vars PROVE Timely'
  OBVIOUS
<1> USE MinuteNat DEF Timely, TypeOK, Busy, RowType
<1>1. CASE Handle
  <2>1. /\ UNCHANGED <<now, tick, sched>>
        /\ \A s \in DOMAIN rows' :
             rows'[s].last = 0 \/ (s \in DOMAIN rows /\ rows'[s].last = rows[s].last)
    BY <1>1, HandlerFrame DEF clock
  <2> HIDE DEF TypeOK
  <2> QED BY <2>1, ClockTyped
<1>2. ASSUME NEW n \in Minute, Tick(n) PROVE Timely'
  <2>1. UNCHANGED <<rows, sched>> /\ now' = n /\ tick' \in {tick, n} /\ n \in Nat /\ now \in Nat
    BY <1>2 DEF Tick, tables
  <2>2. now <= n
    BY <1>2, <2>1 DEF Tick
  <2> HIDE DEF TypeOK
  <2> QED BY <2>1, <2>2, ClockTyped
<1>3. CASE Stop
  BY <1>3 DEF Stop
<1>4. CASE Restart
  BY <1>4 DEF Restart, tables, clock
<1>5. CASE LoadEnabled
  <2>1. UNCHANGED <<rows, now>> /\ tick' = 0 /\ tick # 0
    BY <1>5 DEF LoadEnabled, tables
  <2>2. CASE UNCHANGED sched
    BY <2>1, <2>2
  <2>3. CASE sched'.at = tick
    BY <2>1, <2>3
  <2> QED BY <1>5, <2>2, <2>3 DEF LoadEnabled
<1>6. CASE Checked
  BY <1>6 DEF Checked, tables, clock
<1>7. ASSUME NEW i \in sched.items, Mark(i) PROVE Timely'
  BY <1>7 DEF Mark, clock, Markable
<1>8. ASSUME NEW i, Leave(i) PROVE Timely'
  BY <1>8 DEF Leave, NextItem, tables, clock
<1>9. ASSUME NEW i, NEW targets \in SUBSET Mount, Resolve(i, targets) PROVE Timely'
  BY <1>9 DEF Resolve, tables, clock
<1>10. ASSUME NEW i, NEW m \in Mount, Enqueue(i, m) PROVE Timely'
  BY <1>10 DEF Enqueue, tables, clock
<1>11. CASE UNCHANGED vars
  BY <1>11 DEF vars
<1> HIDE DEF Timely, TypeOK, Busy, RowType
<1> QED BY <1>1, <1>2, <1>3, <1>4, <1>5, <1>6, <1>7, <1>8, <1>9, <1>10, <1>11, StepCases

LEMMA RememberedKept == TypeOK /\ Remembered /\ [Next]_vars => Remembered'
<1> SUFFICES ASSUME TypeOK, Remembered, [Next]_vars PROVE Remembered'
  OBVIOUS
<1>1. CASE Handle
  BY <1>1, HandlerFrame DEF Remembered
<1>2. CASE DOMAIN rows' = DOMAIN rows /\ UNCHANGED deleted
  BY <1>2 DEF Remembered
<1>3. CASE UNCHANGED <<rows, deleted>>
  BY <1>3 DEF Remembered
<1>4. ASSUME NEW n \in Minute, Tick(n) PROVE UNCHANGED <<rows, deleted>>
  BY <1>4 DEF Tick, tables
<1>5. CASE Stop \/ Restart \/ LoadEnabled \/ Checked
  BY <1>3, <1>5 DEF Stop, Restart, LoadEnabled, Checked, tables
<1>6. ASSUME NEW i, Leave(i) PROVE UNCHANGED <<rows, deleted>>
  BY <1>6 DEF Leave, tables
<1>7. ASSUME NEW i, NEW targets, Resolve(i, targets) PROVE UNCHANGED <<rows, deleted>>
  BY <1>7 DEF Resolve, tables
<1>8. ASSUME NEW i, NEW m, Enqueue(i, m) PROVE UNCHANGED <<rows, deleted>>
  BY <1>8 DEF Enqueue, tables
<1>9. ASSUME NEW i, Mark(i) PROVE DOMAIN rows' = DOMAIN rows /\ UNCHANGED deleted
  BY <1>9 DEF Mark, TypeOK
<1>10. CASE UNCHANGED vars
  BY <1>3, <1>10 DEF vars
<1> QED BY <1>1, <1>2, <1>3, <1>4, <1>5, <1>6, <1>7, <1>8, <1>9, <1>10, StepCases

LEMMA AloneKept == TypeOK /\ Alone /\ [Next]_vars => Alone'
<1> SUFFICES ASSUME TypeOK, Alone, [Next]_vars PROVE Alone'
  OBVIOUS
<1>1. CASE UNCHANGED sched
  BY <1>1 DEF Alone, Running
<1>2. CASE Handle
  BY <1>1, <1>2, HandlerFrame
<1>3. ASSUME NEW n \in Minute, Tick(n) PROVE UNCHANGED sched
  BY <1>3 DEF Tick
<1>4. CASE Stop \/ Restart \/ Checked
  BY <1>4 DEF Stop, Restart, Checked, Alone, Running, TypeOK
<1>5. CASE LoadEnabled
  <2> DEFINE items == {[id |-> s, item |-> rows[s].item] :
                         s \in {x \in DOMAIN rows : rows[x].item.enabled}}
  <2>1. \A i, j \in items : i.id = j.id => i = j
    OBVIOUS
  <2> HIDE DEF items
  <2>2. CASE sched' = [sched EXCEPT !.pc = "checking", !.at = tick, !.items = items]
    <3>1. sched'.items = items /\ sched'.marked = sched.marked /\ sched'.pc = "checking"
      BY <2>2 DEF TypeOK
    <3> QED BY <2>1, <3>1 DEF Alone, Running
  <2> QED BY <1>1, <1>5, <2>2 DEF LoadEnabled, items
<1>6. ASSUME NEW i \in sched.items, Mark(i) PROVE Alone'
  BY <1>6 DEF Mark, Alone, Running, TypeOK
<1>7. ASSUME NEW i, Leave(i) PROVE Alone'
  BY <1>7 DEF Leave, NextItem, Alone, Running, TypeOK
<1>8. ASSUME NEW i, NEW targets \in SUBSET Mount, Resolve(i, targets) PROVE Alone'
  BY <1>8 DEF Resolve, Alone, Running, TypeOK
<1>9. ASSUME NEW i, NEW m, Enqueue(i, m) PROVE Alone'
  BY <1>9 DEF Enqueue, Alone, Running, TypeOK
<1>10. CASE UNCHANGED vars
  BY <1>1, <1>10 DEF vars
<1> QED BY <1>1, <1>2, <1>3, <1>4, <1>5, <1>6, <1>7, <1>8, <1>9, <1>10, StepCases

LEMMA RecordedKept ==
  TypeOK /\ Timely /\ Remembered /\ Alone /\ Recorded /\ [Next]_vars => Recorded'
<1> SUFFICES ASSUME TypeOK, Timely, Remembered, Alone, Recorded, [Next]_vars PROVE Recorded'
  OBVIOUS
<1>0. \A k \in 1..Len(ran) : ran[k].id \in Schedule /\ ran[k].at \in Nat
  <2> DEFINE Run == [id : Schedule, item : Draft, mount : Mount, at : {0} \cup Minute]
  <2>1. ran \in Seq(Run)
    BY DEF TypeOK
  <2> HIDE DEF Run
  <2>2. \A k \in 1..Len(ran) : ran[k] \in Run
    BY <2>1
  <2> QED BY <2>2, ClockTyped DEF Run
<1>1. CASE Handle
  <2>1. /\ UNCHANGED <<sched, ran>> /\ deleted \subseteq deleted'
        /\ \A s \in Schedule \ deleted' : s \in DOMAIN rows /\ s \in DOMAIN rows'
                                          /\ rows'[s].last = rows[s].last
    BY <1>1, HandlerFrame DEF Remembered
  <2>2. \A i \in sched.marked : i.id \in Schedule
    BY DEF TypeOK, Item
  <2> QED BY <1>0, <2>1, <2>2 DEF Recorded, Running
<1>2. CASE UNCHANGED <<rows, deleted, ran>> /\ ~Running'
  BY <1>2 DEF Recorded
<1>3. ASSUME NEW n \in Minute, Tick(n) PROVE Recorded'
  BY <1>3 DEF Tick, tables, Recorded, Running
<1>4. CASE Stop
  BY <1>2, <1>4 DEF Stop, Running, TypeOK
<1>5. CASE Restart \/ Checked
  BY <1>2, <1>5 DEF Restart, Checked, tables, Running, TypeOK
<1>6. CASE LoadEnabled
  <2>1. UNCHANGED <<rows, deleted, ran>> /\ (UNCHANGED sched \/ sched'.pc = "checking")
    BY <1>6 DEF LoadEnabled, tables, TypeOK
  <2> QED BY <1>2, <1>6, <2>1 DEF LoadEnabled, Running
<1>7. ASSUME NEW i, Leave(i) PROVE Recorded'
  BY <1>2, <1>7 DEF Leave, NextItem, tables, Running, TypeOK
<1>8. ASSUME NEW i \in sched.items, Mark(i) PROVE Recorded'
  <2>1. /\ UNCHANGED <<ran, deleted>> /\ sched'.marked = {i} /\ sched'.at = sched.at
        /\ i.id \in DOMAIN rows /\ rows[i.id].last # sched.at /\ rows'[i.id].last = sched.at
        /\ \A s \in DOMAIN rows \ {i.id} : rows'[s].last = rows[s].last
    BY <1>8 DEF Mark, Markable, TypeOK, RowType
  <2>2. rows[i.id].last < sched.at
    BY <1>8, <2>1, ClockTyped DEF Mark, Timely, Busy
  <2>3. ASSUME NEW k \in 1..Len(ran), ran[k].id \notin deleted
        PROVE  /\ ran[k].at <= rows'[ran[k].id].last
               /\ ran[k].id = i.id => ran[k].at # sched.at
    <3>1. ran[k].at <= rows[ran[k].id].last /\ ran[k].id \in DOMAIN rows
      BY <1>0, <2>3 DEF Recorded, Remembered
    <3>2. CASE ran[k].id = i.id
      BY <1>0, <2>1, <2>2, <3>1, <3>2, ClockTyped
    <3>3. CASE ran[k].id # i.id
      BY <2>1, <3>1, <3>3
    <3> QED BY <3>2, <3>3
  <2> QED BY <2>1, <2>3 DEF Recorded
<1>9. ASSUME NEW i \in sched.marked, NEW targets \in SUBSET Mount, Resolve(i, targets)
      PROVE  Recorded'
  <2>1. /\ UNCHANGED <<rows, deleted, ran>> /\ Running
        /\ sched.pc = "marked" /\ sched'.marked = sched.marked /\ sched'.at = sched.at
    BY <1>9 DEF Resolve, tables, Running, TypeOK
  <2> QED BY <2>1 DEF Recorded
<1>10. ASSUME NEW i \in sched.marked, NEW m \in Mount, Enqueue(i, m) PROVE Recorded'
  <2> DEFINE run == [id |-> i.id, item |-> i.item, mount |-> m, at |-> sched.at]
  <2>1. /\ UNCHANGED <<rows, deleted>> /\ Running /\ sched'.pc = "enqueuing"
        /\ sched'.marked = sched.marked /\ sched'.at = sched.at
        /\ sched'.targets = sched.targets \ {m} /\ ran' = Append(ran, run)
        /\ sched.marked = {i}
    BY <1>10 DEF Enqueue, tables, Running, TypeOK, Alone
  <2>2. Len(ran') = Len(ran) + 1 /\ \A k \in 1..Len(ran') :
          \/ k \in 1..Len(ran) /\ ran'[k] = ran[k]
          \/ k = Len(ran') /\ ran'[k] = run
    BY <2>1 DEF TypeOK
  <2>3. i.id \notin deleted => rows[i.id].last = sched.at
    BY <2>1 DEF Recorded
  <2>4. sched.at <= sched.at /\ run.id = i.id /\ run.at = sched.at /\ run.mount = m
    BY ClockTyped
  <2> HIDE DEF run
  <2>5. \A k \in 1..Len(ran') :
          ran'[k].id \notin deleted' => ran'[k].at <= rows'[ran'[k].id].last
    BY <2>1, <2>2, <2>3, <2>4 DEF Recorded
  <2>6. ASSUME i.id \notin deleted, NEW k \in 1..Len(ran'), ran'[k].id = i.id,
               ran'[k].at = sched.at
        PROVE  ran'[k].mount \notin sched'.targets
    BY <2>1, <2>2, <2>4, <2>6 DEF Recorded
  <2> QED BY <2>1, <2>3, <2>5, <2>6 DEF Recorded
<1>11. CASE UNCHANGED vars
  BY <1>11 DEF vars, Recorded, Running
<1> QED BY <1>1, <1>3, <1>4, <1>5, <1>6, <1>7, <1>8, <1>9, <1>10, <1>11, StepCases

LEMMA OnceKept ==
  TypeOK /\ Alone /\ Recorded /\ RunsOnce /\ [Next]_vars => RunsOnce'
<1> SUFFICES ASSUME TypeOK, Alone, Recorded, RunsOnce, [Next]_vars PROVE RunsOnce'
  OBVIOUS
<1>1. CASE UNCHANGED ran /\ deleted \subseteq deleted'
  BY <1>1 DEF RunsOnce
<1>2. CASE Handle
  BY <1>1, <1>2, HandlerFrame
<1>3. ASSUME NEW n \in Minute, Tick(n) PROVE RunsOnce'
  BY <1>1, <1>3 DEF Tick, tables
<1>4. CASE Stop \/ Restart \/ LoadEnabled \/ Checked
  BY <1>1, <1>4 DEF Stop, Restart, LoadEnabled, Checked, tables
<1>5. ASSUME NEW i, Mark(i) \/ Leave(i) \/ \E targets \in SUBSET Mount : Resolve(i, targets)
      PROVE  RunsOnce'
  BY <1>1, <1>5 DEF Mark, Leave, Resolve, tables
<1>6. ASSUME NEW i \in sched.marked, NEW m \in Mount, Enqueue(i, m) PROVE RunsOnce'
  <2> DEFINE run == [id |-> i.id, item |-> i.item, mount |-> m, at |-> sched.at]
  <2>1. /\ UNCHANGED deleted /\ Running /\ m \in sched.targets /\ ran' = Append(ran, run)
    BY <1>6 DEF Enqueue, tables, Running
  <2>2. Len(ran') = Len(ran) + 1 /\ \A k \in 1..Len(ran') :
          \/ k \in 1..Len(ran) /\ ran'[k] = ran[k]
          \/ k = Len(ran') /\ ran'[k] = run
    BY <2>1 DEF TypeOK
  <2>3. run.id = i.id /\ run.at = sched.at /\ run.mount = m
    OBVIOUS
  <2> HIDE DEF run
  <2>4. ASSUME i.id \notin deleted, NEW k \in 1..Len(ran), ran[k].id = i.id,
               ran[k].at = sched.at, ran[k].mount = m
        PROVE  FALSE
    BY <2>1, <2>4 DEF Recorded
  <2> QED BY <2>1, <2>2, <2>3, <2>4 DEF RunsOnce
<1>7. CASE UNCHANGED vars
  BY <1>1, <1>7 DEF vars
<1> QED BY <1>2, <1>3, <1>4, <1>5, <1>6, <1>7, StepCases

\* No schedule is run twice for one minute.  A run is preceded by its mark, no
\* mark is ahead of the minute that is checked, and neither an edit nor the end
\* of the process takes a mark back (schedule.go:57-66).
THEOREM MinuteRunsOnce == Spec => []RunsOnce
<1>1. Init => OnceInv
  <2> SUFFICES ASSUME Init PROVE OnceInv
    OBVIOUS
  <2>1. TypeOK
    BY InitTyped
  <2>2. /\ DOMAIN rows = Schedule /\ sched.at = 0 /\ tick = 0 /\ now = 1 /\ ran = <<>>
        /\ sched.pc = "waiting" /\ sched.items = {} /\ sched.marked = {}
        /\ \A s \in Schedule : rows[s].last = 0
    BY DEF Init, NewRow
  <2> QED BY <2>1, <2>2 DEF OnceInv, Timely, Remembered, Alone, Recorded, RunsOnce, Busy, Running
<1>2. OnceInv /\ [Next]_vars => OnceInv'
  BY StepTyped, TimelyKept, RememberedKept, AloneKept, RecordedKept, OnceKept DEF OnceInv
<1>3. OnceInv => RunsOnce
  BY DEF OnceInv
<1> QED BY <1>1, <1>2, <1>3, PTL DEF Spec

-----------------------------------------------------------------------------
(* Why a run was named, and nothing named is owed *)

\* A row whose expression does not parse, from before it was checked, is
\* never due.
Sound(item) == \A n \in Minute : Due(item.cron, Calendar[n]) => Parsable(item.cron)

SoundRows ==
  /\ \A s \in DOMAIN rows : Sound(rows[s].item)
  /\ \A q \in requests : Parsable(q.item.cron)
  /\ Busy => \A i \in sched.items : Sound(i.item)

\* What a check holds is enabled, and what it runs is due.
Named ==
  /\ Busy => sched.at \in Minute /\ \A i \in sched.items : i.item.enabled
  /\ Running => \A i \in sched.marked :
                  i \in sched.items /\ Due(i.item.cron, Calendar[sched.at])

\* What a check owes it has listed, is due, and can be marked until it is run.
Owing ==
  /\ ~Busy => owing = {}
  /\ Busy => \A s \in owing : \E i \in sched.items :
       /\ i.id = s /\ Due(i.item.cron, Calendar[sched.at])
       /\ (Running /\ i \in sched.marked) \/ Markable(s, sched.at)

NamedInv == TypeOK /\ Named /\ RunsWhenNamed
OwedInv == TypeOK /\ Alone /\ Named /\ SoundRows /\ Owing

LEMMA ItemMatches ==
  ASSUME TypeOK, Named, Busy, NEW i \in sched.items, Parsable(i.item.cron)
  PROVE  Matches(i.item.cron, Calendar[sched.at]) <=> Due(i.item.cron, Calendar[sched.at])
<1>1. i.item.cron \in CronType
  BY ScheduleAssumption DEF TypeOK, Item
<1>2. Calendar[sched.at] \in FieldsType
  BY MinuteNat DEF Named
<1> QED BY <1>1, <1>2, MatchesIsDue

LEMMA NamedKept == TypeOK /\ Named /\ [Next]_vars => Named'
<1> SUFFICES ASSUME TypeOK, Named, [Next]_vars PROVE Named'
  OBVIOUS
<1>1. CASE UNCHANGED sched
  BY <1>1 DEF Named, Busy, Running
<1>2. CASE Handle
  BY <1>1, <1>2, HandlerFrame
<1>3. ASSUME NEW n \in Minute, Tick(n) PROVE UNCHANGED sched
  BY <1>3 DEF Tick
<1>4. CASE Stop \/ Restart \/ Checked
  <2>1. sched'.pc \in {"waiting", "stopped"}
    BY <1>4 DEF Stop, Restart, Checked, TypeOK
  <2> QED BY <2>1 DEF Named, Busy, Running
<1>5. CASE LoadEnabled
  <2> DEFINE items == {[id |-> s, item |-> rows[s].item] :
                         s \in {x \in DOMAIN rows : rows[x].item.enabled}}
  <2>1. \A i \in items : i.item.enabled
    OBVIOUS
  <2> HIDE DEF items
  <2>2. CASE sched' = [sched EXCEPT !.pc = "checking", !.at = tick, !.items = items]
    <3>1. sched'.items = items /\ sched'.at = tick /\ sched'.pc = "checking" /\ tick \in Minute
      BY <1>5, <2>2 DEF TypeOK, LoadEnabled
    <3> QED BY <2>1, <3>1 DEF Named, Running
  <2> QED BY <1>1, <1>5, <2>2 DEF LoadEnabled, items
<1>6. ASSUME NEW i \in sched.items, Mark(i) PROVE Named'
  <2>1. Due(i.item.cron, Calendar[sched.at])
    BY <1>6, ItemMatches DEF Mark, Busy
  <2> QED BY <1>6, <2>1 DEF Mark, Named, Busy, Running, TypeOK
<1>7. ASSUME NEW i, Leave(i) PROVE Named'
  BY <1>7 DEF Leave, NextItem, Named, Busy, Running, TypeOK
<1>8. ASSUME NEW i, NEW targets \in SUBSET Mount, Resolve(i, targets) PROVE Named'
  BY <1>8 DEF Resolve, Named, Busy, Running, TypeOK
<1>9. ASSUME NEW i, NEW m, Enqueue(i, m) PROVE Named'
  BY <1>9 DEF Enqueue, Named, Busy, Running, TypeOK
<1>10. CASE UNCHANGED vars
  BY <1>1, <1>10 DEF vars
<1> QED BY <1>1, <1>2, <1>3, <1>4, <1>5, <1>6, <1>7, <1>8, <1>9, <1>10, StepCases

LEMMA RunsNamedKept ==
  TypeOK /\ Named /\ RunsWhenNamed /\ [Next]_vars => RunsWhenNamed'
<1> SUFFICES ASSUME TypeOK, Named, RunsWhenNamed, [Next]_vars PROVE RunsWhenNamed'
  OBVIOUS
<1>1. CASE UNCHANGED ran
  BY <1>1 DEF RunsWhenNamed
<1>2. CASE Handle
  BY <1>1, <1>2, HandlerFrame
<1>3. ASSUME NEW n \in Minute, Tick(n) PROVE UNCHANGED ran
  BY <1>3 DEF Tick
<1>4. CASE Stop \/ Restart \/ LoadEnabled \/ Checked
  BY <1>1, <1>4 DEF Stop, Restart, LoadEnabled, Checked
<1>5. ASSUME NEW i, Mark(i) \/ Leave(i) \/ \E targets \in SUBSET Mount : Resolve(i, targets)
      PROVE  UNCHANGED ran
  BY <1>5 DEF Mark, Leave, Resolve
<1>6. ASSUME NEW i \in sched.marked, NEW m \in Mount, Enqueue(i, m) PROVE RunsWhenNamed'
  <2> DEFINE run == [id |-> i.id, item |-> i.item, mount |-> m, at |-> sched.at]
  <2>1. i.item.enabled /\ Due(i.item.cron, Calendar[sched.at]) /\ ran' = Append(ran, run)
    BY <1>6 DEF Enqueue, Named, Busy, Running
  <2>2. run.item = i.item /\ run.at = sched.at
    OBVIOUS
  <2> HIDE DEF run
  <2>3. \A k \in 1..Len(ran') :
          \/ k \in 1..Len(ran) /\ ran'[k] = ran[k]
          \/ ran'[k] = run
    BY <2>1 DEF TypeOK
  <2> QED BY <2>1, <2>2, <2>3 DEF RunsWhenNamed
<1>7. CASE UNCHANGED vars
  BY <1>1, <1>7 DEF vars
<1> QED BY <1>1, <1>2, <1>3, <1>4, <1>5, <1>6, <1>7, StepCases

\* A run is of a schedule that its client enabled and whose expression names
\* the minute: what is listed is enabled, what is marked matches, and to match
\* is to be named (schedule.go:42-66).
THEOREM RunsAreNamed == Spec => []RunsWhenNamed
<1>1. Init => NamedInv
  BY InitTyped DEF Init, NamedInv, Named, RunsWhenNamed, Busy, Running
<1>2. NamedInv /\ [Next]_vars => NamedInv'
  BY StepTyped, NamedKept, RunsNamedKept DEF NamedInv
<1>3. NamedInv => RunsWhenNamed
  BY DEF NamedInv
<1> QED BY <1>1, <1>2, <1>3, PTL DEF Spec

\* What a handler does to the rows and to what is owed.
LEMMA HandlerRows ==
  ASSUME TypeOK, Handle
  PROVE  /\ \A s \in DOMAIN rows' : \/ s \in DOMAIN rows /\ rows'[s].item = rows[s].item
                                    \/ \E q \in requests : rows'[s].item = q.item
         /\ \A q \in requests' : q \in requests \/ Parsable(q.item.cron)
         /\ owing' \subseteq owing
         /\ \A s \in owing' : s \in DOMAIN rows => s \in DOMAIN rows' /\ rows'[s] = rows[s]
<1> DEFINE Row(s) == \/ s \in DOMAIN rows /\ rows'[s].item = rows[s].item
                     \/ \E q \in requests : rows'[s].item = q.item
           Kept(s) == s \in DOMAIN rows => s \in DOMAIN rows' /\ rows'[s] = rows[s]
           Goal == /\ \A s \in DOMAIN rows' : Row(s)
                   /\ \A q \in requests' : q \in requests \/ Parsable(q.item.cron)
                   /\ owing' \subseteq owing /\ \A s \in owing' : Kept(s)
<1>1. ASSUME NEW kind \in {"POST", "PUT"}, NEW s \in Schedule, NEW d \in Draft,
             ValidateTarget(kind, s, d)
      PROVE  Goal
  BY <1>1 DEF ValidateTarget, ValidItem
<1>2. ASSUME NEW x \in Library \cup Mount, SwitchTarget(x)
      PROVE  Goal
  BY <1>2 DEF SwitchTarget
<1>3. ASSUME NEW m \in Mount, NEW p \in Path, MoveMount(m, p)
      PROVE  Goal
  BY <1>3 DEF MoveMount
<1>4. ASSUME NEW s \in Schedule, DeleteSchedule(s)
      PROVE  Goal
  BY <1>4 DEF DeleteSchedule, Keep, TypeOK
<1>5. ASSUME NEW x \in Library \cup Mount, DeleteTarget(x)
      PROVE  Goal
  BY <1>5 DEF DeleteTarget, Keep
<1>6. ASSUME NEW q \in requests, Save(q)
      PROVE  Goal
  <2>1. NewRow(q.item).item = q.item
    BY DEF NewRow
  <2>2. q.id \in DOMAIN rows => EditedRow(q.id, q.item).item = q.item
    BY DEF EditedRow, TypeOK, RowType
  <2>3. CASE UNCHANGED <<rows, owing>>
    BY <1>6, <2>3 DEF Save
  <2>4. CASE ~UNCHANGED <<rows, owing>>
    <3>1. /\ DOMAIN rows' = DOMAIN rows \cup {q.id} /\ owing' = owing \ {q.id}
          /\ \A s \in DOMAIN rows \ {q.id} : rows'[s] = rows[s]
          /\ rows'[q.id].item = q.item /\ requests' \subseteq requests
      BY <1>6, <2>1, <2>2, <2>4 DEF Save, Put
    <3> QED BY <3>1
  <2> QED BY <2>3, <2>4
<1> HIDE DEF Goal
<1>7. Goal
  BY <1>1, <1>2, <1>3, <1>4, <1>5, <1>6 DEF Handle
<1> QED BY <1>7 DEF Goal

LEMMA SoundKept == TypeOK /\ SoundRows /\ [Next]_vars => SoundRows'
<1> SUFFICES ASSUME TypeOK, SoundRows, [Next]_vars PROVE SoundRows'
  OBVIOUS
<1>0. \A item : Parsable(item.cron) => Sound(item)
  BY DEF Sound
<1>1. CASE UNCHANGED <<rows, requests>> /\ (Busy' => Busy /\ sched'.items \subseteq sched.items)
  BY <1>1 DEF SoundRows
<1>2. CASE Handle
  <2>1. UNCHANGED sched
    BY <1>2, HandlerFrame
  <2> QED BY <1>0, <1>2, <2>1, HandlerRows DEF SoundRows, Busy
<1>3. ASSUME NEW n \in Minute, Tick(n) PROVE SoundRows'
  BY <1>1, <1>3 DEF Tick, tables, Busy
<1>4. CASE Stop
  BY <1>4 DEF Stop, SoundRows, Busy, TypeOK
<1>5. CASE Restart \/ Checked
  <2>1. sched'.pc = "waiting" /\ UNCHANGED <<rows, requests>>
    BY <1>5 DEF Restart, Checked, tables, TypeOK
  <2> QED BY <1>1, <2>1 DEF Busy
<1>6. CASE LoadEnabled
  <2> DEFINE items == {[id |-> s, item |-> rows[s].item] :
                         s \in {x \in DOMAIN rows : rows[x].item.enabled}}
  <2>1. \A i \in items : Sound(i.item)
    BY DEF SoundRows
  <2> HIDE DEF items
  <2>2. UNCHANGED <<rows, requests>>
    BY <1>6 DEF LoadEnabled, tables
  <2>3. CASE sched' = [sched EXCEPT !.pc = "checking", !.at = tick, !.items = items]
    <3>1. sched'.items = items
      BY <2>3 DEF TypeOK
    <3> QED BY <2>1, <2>2, <3>1 DEF SoundRows
  <2>4. CASE UNCHANGED sched
    BY <1>1, <2>2, <2>4 DEF Busy
  <2> QED BY <1>6, <2>3, <2>4 DEF LoadEnabled, items
<1>7. ASSUME NEW i \in sched.items, Mark(i) PROVE SoundRows'
  <2>1. /\ UNCHANGED requests /\ DOMAIN rows' = DOMAIN rows
        /\ \A s \in DOMAIN rows : rows'[s].item = rows[s].item
        /\ Busy /\ sched'.items = sched.items
    BY <1>7 DEF Mark, Busy, TypeOK, RowType
  <2> QED BY <2>1 DEF SoundRows
<1>8. ASSUME NEW i, Leave(i) PROVE SoundRows'
  BY <1>1, <1>8 DEF Leave, NextItem, tables, TypeOK
<1>9. ASSUME NEW i, NEW targets \in SUBSET Mount, Resolve(i, targets) PROVE SoundRows'
  BY <1>1, <1>9 DEF Resolve, tables, Busy, TypeOK
<1>10. ASSUME NEW i, NEW m, Enqueue(i, m) PROVE SoundRows'
  BY <1>1, <1>10 DEF Enqueue, tables, Busy, TypeOK
<1>11. CASE UNCHANGED vars
  BY <1>1, <1>11 DEF vars, Busy
<1> QED BY <1>2, <1>3, <1>4, <1>5, <1>6, <1>7, <1>8, <1>9, <1>10, <1>11, StepCases

LEMMA OwingKept == OwedInv /\ [Next]_vars => Owing'
<1> SUFFICES ASSUME OwedInv, [Next]_vars PROVE Owing'
  OBVIOUS
<1> USE DEF OwedInv
<1>1. CASE Handle
  <2>1. UNCHANGED sched
    BY <1>1, HandlerFrame
  <2>2. \A s \in owing' : s \in owing /\ (Markable(s, sched.at) => Markable(s, sched.at)')
    BY <1>1, <2>1, HandlerRows DEF Markable
  <2> QED BY <2>1, <2>2 DEF Owing, Busy, Running
<1>2. CASE UNCHANGED <<rows, sched, owing>>
  BY <1>2 DEF Owing, Busy, Running, Markable
<1>3. ASSUME NEW n \in Minute, Tick(n) PROVE UNCHANGED <<rows, sched, owing>>
  BY <1>3 DEF Tick, tables
<1>4. CASE Stop \/ Restart \/ Checked
  <2>1. sched'.pc \in {"waiting", "stopped"}
    BY <1>4 DEF Stop, Restart, Checked, TypeOK
  <2>2. owing' = {}
    BY <1>4 DEF Stop, Restart, Checked, Owing, Busy
  <2> QED BY <2>1, <2>2 DEF Owing, Busy
<1>5. CASE LoadEnabled
  <2> DEFINE listed == {s \in DOMAIN rows : rows[s].item.enabled}
             items == {[id |-> s, item |-> rows[s].item] : s \in listed}
  <2>1. UNCHANGED rows /\ sched.pc = "waiting"
    BY <1>5 DEF LoadEnabled, tables
  <2>2. CASE /\ sched' = [sched EXCEPT !.pc = "checking", !.at = tick, !.items = items]
             /\ owing' = {s \in listed : Due(rows[s].item.cron, Calendar[tick])
                                         /\ rows[s].last # tick}
    <3>1. sched'.pc = "checking" /\ sched'.at = tick /\ sched'.items = items
      BY <2>2 DEF TypeOK
    <3>2. ASSUME NEW s \in owing'
          PROVE  \E i \in items : /\ i.id = s /\ Due(i.item.cron, Calendar[tick])
                                  /\ Markable(s, tick)
      <4>1. [id |-> s, item |-> rows[s].item] \in items
        BY <2>2
      <4> QED BY <2>2, <4>1 DEF Markable
    <3> HIDE DEF items
    <3> QED BY <2>1, <3>1, <3>2 DEF Owing, Busy, Running, Markable
  <2> QED BY <1>2, <1>5, <2>1, <2>2 DEF LoadEnabled
<1>6. ASSUME NEW i \in sched.items, Mark(i) PROVE Owing'
  <2>1. /\ sched.pc = "checking" /\ sched'.pc = "marked" /\ sched'.marked = {i}
        /\ sched'.items = sched.items /\ sched'.at = sched.at /\ UNCHANGED owing
        /\ \A s \in DOMAIN rows \ {i.id} : s \in DOMAIN rows' /\ rows'[s] = rows[s]
    BY <1>6 DEF Mark, TypeOK
  <2>2. ASSUME NEW s \in owing
        PROVE  \E j \in sched.items : /\ j.id = s /\ Due(j.item.cron, Calendar[sched.at])
                                      /\ j = i \/ Markable(s, sched.at)'
    <3>1. PICK j \in sched.items : /\ j.id = s /\ Due(j.item.cron, Calendar[sched.at])
                                   /\ Markable(s, sched.at)
      BY <2>1 DEF Owing, Busy, Running
    <3>2. j.id = i.id => j = i
      BY DEF Alone
    <3> QED BY <2>1, <3>1, <3>2 DEF Markable
  <2> QED BY <2>1, <2>2 DEF Owing, Busy, Running
<1>7. ASSUME NEW i \in sched.items, Leave(i), sched.pc = "checking" \/ i \in sched.marked
      PROVE  Owing'
  <2>1. /\ Busy /\ sched'.pc = "checking" /\ sched'.items = sched.items \ {i}
        /\ sched'.at = sched.at /\ UNCHANGED rows
    BY <1>7 DEF Leave, NextItem, tables, TypeOK
  <2>2. ASSUME NEW s \in owing'
        PROVE  \E j \in sched.items : /\ j # i /\ j.id = s /\ Markable(s, sched.at)
                                      /\ Due(j.item.cron, Calendar[sched.at])
    <3>1. s \in owing
      BY <1>7 DEF Leave
    <3>2. PICK j \in sched.items :
                 /\ j.id = s /\ Due(j.item.cron, Calendar[sched.at])
                 /\ (Running /\ j \in sched.marked) \/ Markable(s, sched.at)
      BY <2>1, <3>1 DEF Owing
    <3>3. CASE owing' = owing \ {i.id}
      <4>1. j # i
        BY <3>2, <3>3
      <4>2. ~(Running /\ j \in sched.marked)
        BY <1>7, <4>1 DEF Alone, Running
      <4> QED BY <3>2, <4>1, <4>2
    <3>4. CASE /\ sched.pc = "checking"
               /\ ~(/\ Parsable(i.item.cron) /\ Matches(i.item.cron, Calendar[sched.at])
                    /\ Markable(i.id, sched.at))
      <4>1. Markable(s, sched.at)
        BY <3>2, <3>4 DEF Running
      <4>2. ASSUME j = i PROVE FALSE
        <5>1. Parsable(i.item.cron)
          BY <2>1, <3>2, <4>2 DEF SoundRows, Sound, Named
        <5>2. Matches(i.item.cron, Calendar[sched.at])
          BY <2>1, <3>2, <4>2, <5>1, ItemMatches
        <5> QED BY <3>2, <3>4, <4>1, <4>2, <5>1, <5>2
      <4> QED BY <3>2, <4>1, <4>2
    <3> QED BY <1>7, <3>3, <3>4 DEF Leave
  <2> QED BY <2>1, <2>2 DEF Owing, Busy, Running, Markable
<1>8. ASSUME NEW i, NEW targets \in SUBSET Mount, Resolve(i, targets) PROVE Owing'
  <2>1. /\ UNCHANGED <<rows, owing>> /\ sched.pc = "marked" /\ sched'.pc = "enqueuing"
        /\ sched'.items = sched.items /\ sched'.marked = sched.marked /\ sched'.at = sched.at
    BY <1>8 DEF Resolve, tables, TypeOK
  <2> QED BY <2>1 DEF Owing, Busy, Running, Markable
<1>9. ASSUME NEW i, NEW m \in Mount, Enqueue(i, m) PROVE Owing'
  <2>1. /\ UNCHANGED <<rows, owing>> /\ sched.pc = "enqueuing" /\ sched'.pc = "enqueuing"
        /\ sched'.items = sched.items /\ sched'.marked = sched.marked /\ sched'.at = sched.at
    BY <1>9 DEF Enqueue, tables, TypeOK
  <2> QED BY <2>1 DEF Owing, Busy, Running, Markable
<1>10. CASE UNCHANGED vars
  BY <1>2, <1>10 DEF vars
<1>11. Running => sched.marked \subseteq sched.items
  BY DEF Alone
<1> QED BY <1>1, <1>2, <1>3, <1>4, <1>5, <1>6, <1>7, <1>8, <1>9, <1>10, <1>11, StepCases

\* A check that is over owes nothing.  What it lists it leaves only once it is
\* enqueued, a statement of its own has failed, or it was not to be run: and
\* what does not parse, or does not match, was not due (schedule.go:47-67).
THEOREM NothingForgotten ==
  ASSUME \A d \in Saved : Sound(d)
  PROVE  Spec => []NothingOwed
<1>1. Init => OwedInv
  <2> SUFFICES ASSUME Init PROVE OwedInv
    OBVIOUS
  <2>1. TypeOK
    BY InitTyped
  <2>2. /\ sched.pc = "waiting" /\ sched.items = {} /\ sched.marked = {} /\ owing = {}
        /\ requests = {}
    BY DEF Init
  <2>3. \A s \in DOMAIN rows : Sound(rows[s].item)
    BY DEF Init, NewRow
  <2> QED BY <2>1, <2>2, <2>3 DEF OwedInv, Alone, Named, SoundRows, Owing, Busy, Running
<1>2. OwedInv /\ [Next]_vars => OwedInv'
  BY StepTyped, AloneKept, NamedKept, SoundKept, OwingKept DEF OwedInv
<1>3. OwedInv => NothingOwed
  BY DEF OwedInv, Owing, NothingOwed, Busy
<1> QED BY <1>1, <1>2, <1>3, PTL DEF Spec

=============================================================================
