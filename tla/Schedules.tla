------------------------------ MODULE Schedules ------------------------------
(***************************************************************************)
(* Scan schedules: rows with a cron expression, and the goroutine that     *)
(* looks every minute for those that are due, marks the minute in the row  *)
(* and enqueues scans of its mounts.                                       *)
(*                                                                         *)
(* A minute is its number in Calendar, which gives its fields in the zone  *)
(* of the system.  A cron field is the list of its parts; a part is "*" or *)
(* a range, and its step is 0 when it has no "/".  A step is taken to be   *)
(* far below 2^63, where the sums of the code would wrap around.           *)
(***************************************************************************)
EXTENDS Integers, Sequences

CONSTANTS
  Library, Mount, LibraryOf,
  Path, Roots,      \* source paths; Roots[p]: the roots of mounts that contain p
  Schedule,
  Draft,            \* what a client may write into a schedule
  Saved,            \* what the schedules may hold at the start
  Calendar,         \* consecutive minutes, the fields of each
  NoMount, NoPath,  \* an empty mount_id, an empty source_path
  MaxEdits,         \* bound on changes of schedules
  MaxMoves,         \* bound on changes of mounts and libraries
  MaxCorrections,   \* bound on corrections of the clock, each below a minute
  MaxStops          \* bound on ends of the process

\* What parses as a part of a field, and the fields of a minute.
Part == [all : BOOLEAN, lo : Int, hi : Int, step : Int]
CronType == [minute : Seq(Part), hour : Seq(Part), day : Seq(Part), month : Seq(Part),
             weekday : Seq(Part)]
FieldsType == [minute : 0..59, hour : 0..23, day : 1..31, month : 1..12, weekday : 0..6]

ASSUME ScheduleAssumption ==
  /\ LibraryOf \in [Mount -> Library] /\ Roots \in [Path -> SUBSET Path]
  /\ \E p \in Path : \A q \in Path : p \in Roots[q]
  /\ NoMount \notin Mount /\ NoPath \notin Path
  /\ Saved \subseteq Draft
  /\ Draft \subseteq [cron : CronType, lib : Library, mount : Mount \cup {NoMount},
                      path : Path \cup {NoPath}, enabled : BOOLEAN]
  /\ Calendar \in Seq(FieldsType) /\ Calendar # <<>>
  /\ {MaxEdits, MaxMoves, MaxCorrections, MaxStops} \subseteq Nat

VARIABLES
  rows,      \* table scan_schedules: a function from the saved schedules
  there,     \* libraries and mounts that exist
  on,        \* those that are enabled
  root,      \* the source path of each mount
  requests,  \* clients' requests whose target was found valid
  now,       \* the minute
  tick,      \* the minute in the ticker's channel, 0 when it is empty
  sched,     \* the scheduler's goroutine
  ran,       \* history: what was enqueued
  deleted,   \* history: schedules that were deleted
  owing,     \* history: schedules the running check has to see to
  edits, moves, corrections, stops

vars == <<rows, there, on, root, requests, now, tick, sched, ran, deleted, owing,
          edits, moves, corrections, stops>>
tables == <<rows, there, on, root, requests, deleted, edits, moves>>
clock == <<now, tick, corrections>>

Minute == 1..Len(Calendar)
RowType == [item : Draft, last : {0} \cup Minute]
Item == [id : Schedule, item : Draft]

-----------------------------------------------------------------------------
(* Cron expressions *)

\* The field "*"; "*,*" and "*/1" name as much but are other fields.
Star == <<[all |-> TRUE, lo |-> 0, hi |-> 0, step |-> 0]>>

Parts(field) == {field[n] : n \in DOMAIN field}

CronRange(part, min, max) == IF part.all THEN <<min, max>> ELSE <<part.lo, part.hi>>

ParsablePart(part, min, max) ==
  /\ part.step >= 0
  /\ part.all \/ (min <= part.lo /\ part.lo <= part.hi /\ part.hi <= max)

\* The values of a part, counted from the start of its range in steps.
CronSteps(part, min, max) ==
  LET range == CronRange(part, min, max)
      step == IF part.step = 0 THEN 1 ELSE part.step
  IN {range[1] + k * step : k \in 0..((range[2] - range[1]) \div step)}

CronField(field, min, max) == UNION {CronSteps(part, min, max) : part \in Parts(field)}

\* Sunday is 0 and 7.
CronWeekdays(field) == {v % 7 : v \in CronField(field, 0, 7)}

ParsableField(field, min, max) ==
  field # <<>> /\ \A part \in Parts(field) : ParsablePart(part, min, max)

Parsable(cron) ==
  /\ ParsableField(cron.minute, 0, 59) /\ ParsableField(cron.hour, 0, 23)
  /\ ParsableField(cron.day, 1, 31) /\ ParsableField(cron.month, 1, 12)
  /\ ParsableField(cron.weekday, 0, 7)

MatchesEither(cron, m) ==
  /\ m.minute \in CronField(cron.minute, 0, 59) /\ m.hour \in CronField(cron.hour, 0, 23)
  /\ m.month \in CronField(cron.month, 1, 12)
  /\ m.day \in CronField(cron.day, 1, 31) \/ m.weekday \in CronWeekdays(cron.weekday)

\* The day and the weekday must both match when one of them is "*"; when both
\* are given, one is enough.
Matches(cron, m) ==
  LET day == m.day \in CronField(cron.day, 1, 31)
      weekday == m.weekday \in CronWeekdays(cron.weekday)
  IN
  /\ m.minute \in CronField(cron.minute, 0, 59)
  /\ m.hour \in CronField(cron.hour, 0, 23)
  /\ m.month \in CronField(cron.month, 1, 12)
  /\ IF cron.day = Star \/ cron.weekday = Star THEN day /\ weekday ELSE day \/ weekday

(* What a cron expression names, value by value. *)

Names(field, v, min) ==
  \E part \in Parts(field) :
    LET first == IF part.all THEN min ELSE part.lo IN
    /\ part.all \/ (part.lo <= v /\ v <= part.hi)
    /\ part.step > 1 => (v - first) % part.step = 0

Due(cron, m) ==
  LET day == Names(cron.day, m.day, 1)
      weekday == Names(cron.weekday, m.weekday, 0)
                   \/ (m.weekday = 0 /\ Names(cron.weekday, 7, 0))
  IN
  /\ Names(cron.minute, m.minute, 0) /\ Names(cron.hour, m.hour, 0)
  /\ Names(cron.month, m.month, 1)
  /\ CASE cron.day = Star -> weekday
       [] cron.weekday = Star -> day
       [] OTHER -> day \/ weekday

-----------------------------------------------------------------------------
(* Targets *)

EnabledMounts(l) == {m \in Mount \cap on : LibraryOf[m] = l}

\* Whether the mounts listed for the item's library hold its target.
Resolvable(item, mounts) ==
  \/ item.mount = NoMount /\ item.path = NoPath
  \/ /\ item.mount \in mounts
     /\ item.path # NoPath => root[item.mount] \in Roots[item.path]

TargetsOf(item, mounts) == IF item.mount = NoMount THEN mounts ELSE {item.mount}

ValidItem(item) ==
  /\ Parsable(item.cron)
  /\ item.lib \in there /\ (item.enabled => item.lib \in on)
  /\ Resolvable(item, IF item.enabled THEN EnabledMounts(item.lib)
                      ELSE {m \in Mount \cap there : LibraryOf[m] = item.lib})

Unchecked(item) == TRUE

\* The rows a foreign key of item refers to exist.
Referenced(item) == {item.lib, item.mount} \ {NoMount} \subseteq there

\* Every variable keeps to its type, and every row refers to rows that exist.
TypeOK ==
  /\ DOMAIN rows \subseteq Schedule
  /\ \A s \in DOMAIN rows :
       /\ rows[s] \in RowType
       /\ {rows[s].item.lib, rows[s].item.mount} \ {NoMount} \subseteq there
  /\ there \subseteq Library \cup Mount /\ on \subseteq there
  /\ root \in [Mount -> Path]
  /\ requests \subseteq [kind : {"POST", "PUT"}, id : Schedule, item : Draft]
  /\ now \in Minute /\ tick \in {0} \cup Minute
  /\ sched \in [pc : {"waiting", "checking", "marked", "enqueuing", "stopped"},
                 at : {0} \cup Minute, items : SUBSET Item, marked : SUBSET Item,
                 targets : SUBSET Mount]
  /\ ran \in Seq([id : Schedule, item : Draft, mount : Mount, at : {0} \cup Minute])
  /\ deleted \subseteq Schedule /\ owing \subseteq Schedule

NewRow(item) == [item |-> item, last |-> 0]
ResetRow(s, item) == [item |-> item, last |-> 0]
EditedRow(s, item) == [rows[s] EXCEPT !.item = item]

Put(s, r) == [x \in DOMAIN rows \cup {s} |-> IF x = s THEN r ELSE rows[x]]
Keep(S) == [x \in DOMAIN rows \cap S |-> rows[x]]

Init ==
  /\ rows \in [Schedule -> {NewRow(d) : d \in Saved}]
  /\ there = Library \cup Mount /\ on = there
  /\ root = [m \in Mount |-> CHOOSE p \in Path : \A q \in Path : p \in Roots[q]]
  /\ requests = {} /\ now = 1 /\ tick = 0 /\ ran = <<>> /\ deleted = {} /\ owing = {}
  /\ sched = [pc |-> "waiting", at |-> 0, items |-> {}, marked |-> {}, targets |-> {}]
  /\ edits = 0 /\ moves = 0 /\ corrections = 0 /\ stops = 0

-----------------------------------------------------------------------------
(* Handlers *)

Edit == edits < MaxEdits /\ edits' = edits + 1 /\ UNCHANGED moves
Move == moves < MaxMoves /\ moves' = moves + 1 /\ UNCHANGED edits

\* A request's payload is well formed, its id is free (POST) and its target valid.
ValidateTarget(kind, s, item) ==
  /\ Edit
  /\ kind = "POST" => s \notin DOMAIN rows
  /\ ValidItem(item)
  /\ requests' = requests \cup {[kind |-> kind, id |-> s, item |-> item]}
  /\ UNCHANGED <<rows, there, on, root, clock, sched, ran, deleted, owing, stops>>

\* Keys are checked by the database; an id that is taken or missing fails.
Save(q) ==
  /\ requests' = requests \ {q}
  /\ IF Referenced(q.item) /\ (q.kind = "POST" <=> q.id \notin DOMAIN rows)
     THEN /\ rows' = Put(q.id, IF q.kind = "POST" THEN NewRow(q.item)
                               ELSE EditedRow(q.id, q.item))
          /\ owing' = owing \ {q.id}
     ELSE UNCHANGED <<rows, owing>>
  /\ UNCHANGED <<there, on, root, edits, moves, clock, sched, ran, deleted, stops>>

DeleteSchedule(s) ==
  /\ Edit /\ s \in DOMAIN rows
  /\ rows' = Keep(Schedule \ {s})
  /\ owing' = owing \ {s} /\ deleted' = deleted \cup {s}
  /\ UNCHANGED <<there, on, root, requests, clock, sched, ran, stops>>

SwitchTarget(x) ==
  /\ Move /\ x \in there
  /\ on' = IF x \in on THEN on \ {x} ELSE on \cup {x}
  /\ UNCHANGED <<rows, there, root, requests, clock, sched, ran, deleted, owing, stops>>

MoveMount(m, p) ==
  /\ Move /\ m \in there /\ p # root[m] /\ root' = [root EXCEPT ![m] = p]
  /\ UNCHANGED <<rows, there, on, requests, clock, sched, ran, deleted, owing, stops>>

\* Mounts go with their library, schedules with the rows they refer to.
DeleteTarget(x) ==
  LET Gone == {x} \cup {m \in Mount : LibraryOf[m] = x}
      Kept == {s \in DOMAIN rows : {rows[s].item.lib, rows[s].item.mount} \cap Gone = {}}
  IN
  /\ Move /\ x \in there
  /\ there' = there \ Gone /\ on' = on \ Gone
  /\ rows' = Keep(Kept)
  /\ owing' = owing \cap Kept /\ deleted' = deleted \cup (DOMAIN rows \ Kept)
  /\ UNCHANGED <<root, requests, clock, sched, ran, stops>>

-----------------------------------------------------------------------------
(* The clock, and the process *)

\* The ticker ticks a minute later; a tick that finds another is dropped.  A
\* correction of the clock makes it read the same minute again, or skip one.
Tick(n) ==
  /\ n \in Minute /\ n - now \in {0, 1, 2}
  /\ \/ n = now + 1 /\ UNCHANGED corrections
     \/ /\ n # now + 1
        /\ corrections < MaxCorrections /\ corrections' = corrections + 1
  /\ now' = n
  /\ tick' = IF tick = 0 /\ sched.pc # "stopped" THEN n ELSE tick
  /\ UNCHANGED <<tables, sched, ran, owing, stops>>

\* The process ends, by a shutdown or a crash, whatever it is doing.
Stop ==
  /\ stops < MaxStops /\ stops' = stops + 1
  /\ sched.pc # "stopped" /\ sched' = [sched EXCEPT !.pc = "stopped", !.at = 0, !.items = {},
                                                     !.marked = {}, !.targets = {}]
  /\ tick' = 0 /\ requests' = {} /\ owing' = {}
  /\ UNCHANGED <<rows, there, on, root, edits, moves, now, corrections, ran, deleted>>

\* The first tick of the new process comes a minute later.
Restart ==
  /\ sched.pc = "stopped" /\ sched' = [sched EXCEPT !.pc = "waiting"]
  /\ UNCHANGED <<tables, clock, ran, owing, stops>>

-----------------------------------------------------------------------------
(* The scheduler *)

\* A tick is taken and the enabled schedules are listed, or cannot be.
LoadEnabled ==
  /\ sched.pc = "waiting" /\ tick # 0 /\ tick' = 0
  /\ \/ LET Listed == {s \in DOMAIN rows : rows[s].item.enabled} IN
        /\ sched' = [sched EXCEPT !.pc = "checking", !.at = tick,
                       !.items = {[id |-> s, item |-> rows[s].item] : s \in Listed}]
        /\ owing' = {s \in Listed : Due(rows[s].item.cron, Calendar[tick]) /\ rows[s].last # tick}
     \/ UNCHANGED <<sched, owing>>
  /\ UNCHANGED <<tables, now, corrections, ran, stops>>

NextItem(i) ==
  sched' = [sched EXCEPT !.pc = "checking", !.items = @ \ {i}, !.marked = {}, !.targets = {}]

MarkAborts(i) ==
  /\ sched' = [sched EXCEPT !.pc = "waiting", !.at = 0, !.items = {}]
  /\ owing' = owing \ {i.id} /\ UNCHANGED rows

MarkFails(i) == NextItem(i) /\ owing' = owing \ {i.id} /\ UNCHANGED rows

\* The item's cron does not match the minute, or no longer parses.
PassOver(i) ==
  /\ sched.pc = "checking" /\ i \in sched.items
  /\ ~(Parsable(i.item.cron) /\ Matches(i.item.cron, Calendar[sched.at]))
  /\ NextItem(i)
  /\ UNCHANGED <<tables, clock, ran, owing, stops>>

\* The condition of MarkRun's UPDATE.
Markable(s, n) == s \in DOMAIN rows /\ rows[s].item.enabled /\ rows[s].last # n

\* The minute is written into the row, if it is enabled and not there already.
MarkRun(i) ==
  /\ sched.pc = "checking" /\ i \in sched.items
  /\ Parsable(i.item.cron) /\ Matches(i.item.cron, Calendar[sched.at])
  /\ \/ /\ Markable(i.id, sched.at)
        /\ rows' = [rows EXCEPT ![i.id].last = sched.at]
        /\ sched' = [sched EXCEPT !.pc = "marked", !.marked = {i}]
        /\ UNCHANGED owing
     \/ ~Markable(i.id, sched.at) /\ NextItem(i) /\ UNCHANGED <<rows, owing>>
     \/ MarkFails(i)
  /\ UNCHANGED <<there, on, root, requests, edits, moves, clock, ran, deleted, stops>>

\* The item's mounts, as they are now, or an error: the run is lost.
ResolveTargets(i) ==
  LET mounts == EnabledMounts(i.item.lib) IN
  /\ sched.pc = "marked"
  /\ \/ /\ i.item.lib \in on /\ Resolvable(i.item, mounts)
        /\ sched' = [sched EXCEPT !.pc = "enqueuing", !.targets = TargetsOf(i.item, mounts)]
        /\ UNCHANGED owing
     \/ NextItem(i) /\ owing' = owing \ {i.id}
  /\ UNCHANGED <<tables, clock, ran, stops>>

\* One call of enqueueScan; an error leaves the other mounts out.
EnqueueScan(i, m) ==
  /\ sched.pc = "enqueuing" /\ m \in sched.targets
  /\ \/ /\ sched' = [sched EXCEPT !.targets = @ \ {m}]
        /\ ran' = Append(ran, [id |-> i.id, item |-> i.item, mount |-> m, at |-> sched.at])
        /\ UNCHANGED owing
     \/ NextItem(i) /\ owing' = owing \ {i.id} /\ UNCHANGED ran
  /\ UNCHANGED <<tables, clock, stops>>

Enqueued(i) ==
  /\ sched.pc = "enqueuing" /\ sched.targets = {}
  /\ NextItem(i) /\ owing' = owing \ {i.id}
  /\ UNCHANGED <<tables, clock, ran, stops>>

Checked ==
  /\ sched.pc = "checking" /\ sched.items = {}
  /\ sched' = [sched EXCEPT !.pc = "waiting", !.at = 0]
  /\ UNCHANGED <<tables, clock, ran, owing, stops>>

-----------------------------------------------------------------------------
Next ==
  \/ \E kind \in {"POST", "PUT"}, s \in Schedule, d \in Draft : ValidateTarget(kind, s, d)
  \/ \E q \in requests : Save(q)
  \/ \E s \in Schedule : DeleteSchedule(s)
  \/ \E x \in Library \cup Mount : SwitchTarget(x) \/ DeleteTarget(x)
  \/ \E m \in Mount, p \in Path : MoveMount(m, p)
  \/ \E n \in Minute : Tick(n)
  \/ Stop \/ Restart
  \/ LoadEnabled \/ Checked
  \/ \E i \in sched.items : PassOver(i) \/ MarkRun(i)
  \/ \E i \in sched.marked : ResolveTargets(i) \/ Enqueued(i)
  \/ \E i \in sched.marked, m \in Mount : EnqueueScan(i, m)

Spec == Init /\ [][Next]_vars

-----------------------------------------------------------------------------
\* No schedule is run twice for one minute, unless it is deleted and created
\* again with its id: the minute is marked before the run, the mark outlives
\* the process and edits of the schedule, and a clock set back shows the minute
\* again (schedule.go:57-66).
RunsOnce ==
  \A i, j \in 1..Len(ran) :
    /\ ran[i].id = ran[j].id /\ ran[i].id \notin deleted
    /\ ran[i].mount = ran[j].mount /\ ran[i].at = ran[j].at
    => i = j

\* A run is of a schedule that its client enabled and whose expression, read
\* value by value, names the minute (schedule.go:54, :235-252).
RunsWhenNamed ==
  \A i \in 1..Len(ran) :
    ran[i].item.enabled /\ Due(ran[i].item.cron, Calendar[ran[i].at])

\* A check that is over has enqueued every schedule the minute named, unless
\* the schedule was edited meanwhile or a statement of its own failed: no
\* trouble with one schedule reaches another (schedule.go:47-67).
NothingOwed == sched.pc = "waiting" => owing = {}

=============================================================================
