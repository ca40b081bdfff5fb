------------------------------ MODULE ScanQueue ------------------------------
(***************************************************************************)
(* The persistent scan queue of the server and everything that works on    *)
(* it: the calls that enqueue scan intents (webhooks, watchers, schedules, *)
(* the admin UI), the single drain worker with its concurrency slots, its  *)
(* provider locks and its wake-up channel, the scan goroutines it starts,  *)
(* and the process being stopped, killed and started again.                *)
(*                                                                         *)
(* An intent is an "event": one call of enqueueScan.  A row of the table   *)
(* scan_queue keeps the id given to it by the call that inserted it        *)
(* (newID("queue") is evaluated by the caller and survives ON CONFLICT),   *)
(* so a row IS the event that inserted it: the table is the set `queue' of *)
(* events, and the merge key of a row is the request of that event.        *)
(***************************************************************************)
EXTENDS Integers, FiniteSets

CONSTANTS
  Callers,        \* goroutines that may be inside enqueueScan at one time
  Events,         \* the enqueue calls of a behaviour, each made at most once
  NoEvent,        \* no event: an unset local variable
  Mounts,         \* (library, mount) pairs
  Providers,
  ProviderOf,     \* the provider a mount reads from
  Paths,          \* normalised directory paths
  Ancestors,      \* Ancestors[p]: p and every directory above it
  Requests,       \* the scan requests the callers may make
  MaxConcurrent,  \* capacity of the slots channel
  MaxTime,        \* bound on the clock
  MaxStops,       \* bound on shutdowns and crashes
  MaxAdmin,       \* bound on the admin's changes to mounts
  Faults          \* whether a statement may fail although ctx is alive, or
                  \* ctx may end between the commit and the read of a dequeue

RequestType == [mount : Mounts, path : Paths,
                mode : {"recursive", "current_level"}, delay : Nat]

ASSUME ScopeAssumption ==
  /\ ProviderOf \in [Mounts -> Providers]
  /\ Ancestors \in [Paths -> SUBSET Paths]
  /\ \A p \in Paths : p \in Ancestors[p]
  /\ \A p \in Paths : \A q \in Ancestors[p] : Ancestors[q] \subseteq Ancestors[p]
  /\ \A p \in Paths : \A q, r \in Ancestors[p] :
       q \in Ancestors[r] \/ r \in Ancestors[q]
  /\ Requests \subseteq RequestType

ASSUME BoundAssumption ==
  /\ IsFiniteSet(Events) /\ NoEvent \notin Events
  /\ MaxConcurrent \in Nat \ {0}
  /\ MaxTime \in Nat /\ MaxStops \in Nat /\ MaxAdmin \in Nat
  /\ Faults \in BOOLEAN

VARIABLES
  \* the database
  queue,      \* rows of scan_queue, each named by the event that inserted it
  runAfter,   \* run_after of each row, and of each call still under way
  target,     \* state of the mounts, library and provider rows included
  \* the callers
  request,    \* what each event so far asked for
  callPc, callEvent, callRow,
  \* the worker
  worker, picked, excluded, slots, wake,
  active,     \* activeProviders
  run,        \* the scan goroutine of each dequeued row
  \* the environment
  now, phase, stops, admin,
  \* history, read by no action
  accepted,   \* events whose call returned without an error
  served,     \* events a scan started after them covers
  dropped,    \* events whose target was found invalid
  deferred    \* due rows the last drain left in the queue

dbVars   == <<queue, runAfter, target>>
callVars == <<request, callPc, callEvent, callRow>>
workVars == <<worker, picked, excluded, slots, wake, active, run>>
envVars  == <<now, phase, stops, admin>>
vars == <<dbVars, callVars, workVars, envVars,
          accepted, served, dropped, deferred>>

-----------------------------------------------------------------------------
(* Scopes and merge keys *)

Begun == DOMAIN request

Provider(e) == ProviderOf[request[e].mount]

SameKey(a, b) ==
  /\ request[a].mount = request[b].mount
  /\ request[a].path = request[b].path
  /\ request[a].mode = request[b].mode

\* A recursive scan of row r lists the whole directory that event e is about.
RecursiveOver(r, e) ==
  /\ request[r].mode = "recursive"
  /\ request[r].mount = request[e].mount
  /\ request[r].path \in Ancestors[request[e].path]

\* The scan of row r does at least what event e asked for.
Covers(r, e) == RecursiveOver(r, e) \/ SameKey(r, e)

CoveredBy(r) == {e \in Begun : Covers(r, e)}

\* FindCoveringRecursive: the deepest pending recursive row at or above e.
CoveringRows(e) ==
  {r \in queue : /\ RecursiveOver(r, e)
                 /\ \A s \in queue : RecursiveOver(s, e) =>
                      request[s].path \in Ancestors[request[r].path]}

\* Variant: the exclusion of e's own row is missing.
CoveredRowsAll(e) ==
  {r \in queue : /\ request[r].mount = request[e].mount
                 /\ request[e].path \in Ancestors[request[r].path]}

\* Variant: LIKE 'path/%' alone, without the directory itself.
CoveredRowsBelow(e) ==
  {r \in queue : /\ request[r].mount = request[e].mount
                 /\ request[e].path \in Ancestors[request[r].path]
                 /\ request[e].path # request[r].path}

\* DeleteCovered: every row at or below e's directory except e's own key.
CoveredRows(e) ==
  {r \in queue : /\ request[r].mount = request[e].mount
                 /\ request[e].path \in Ancestors[request[r].path]
                 /\ ~SameKey(r, e)}

Due(r) == runAfter[r] <= now

DueRows == {r \in queue : Due(r)}

\* Variant: the busy providers are not excluded.
FirstDueAny(busy) ==
  {r \in DueRows : \A s \in DueRows : runAfter[r] <= runAfter[s]}

\* FirstDueExcludingProviders: rows of equal run_after come in any order,
\* created_at and the random id decide between them.
FirstDue(busy) ==
  LET free == {r \in DueRows : Provider(r) \notin busy}
  IN  {r \in free : \A s \in free : runAfter[r] <= runAfter[s]}

Reachable(e) == target[request[e].mount] = "enabled"

-----------------------------------------------------------------------------
(* enqueueScan: one statement per step, other goroutines run in between *)

\* The caller lists the enabled mounts and computes run_after before the first
\* statement.  A target that is not enabled ends the call, except that manual
\* and watch scans do not read the switch of the library itself.
BeginCall(c, e, q) ==
  /\ phase # "down"
  /\ callPc[c] = "idle" /\ e \notin Begun
  /\ now + q.delay <= MaxTime
  /\ request' = [x \in Begun \cup {e} |-> IF x = e THEN q ELSE request[x]]
  /\ runAfter' = [runAfter EXCEPT ![e] = now + q.delay]
  /\ \/ /\ target[q.mount] # "deleted"
        /\ callPc' = [callPc EXCEPT ![c] = "find"]
        /\ callEvent' = [callEvent EXCEPT ![c] = e]
     \/ target[q.mount] # "enabled" /\ UNCHANGED <<callPc, callEvent>>
  /\ UNCHANGED <<queue, target, callRow, workVars, envVars,
                 accepted, served, dropped, deferred>>

AtStep(c, pc) == phase # "down" /\ callPc[c] = pc

Return(c) ==
  /\ callPc' = [callPc EXCEPT ![c] = "idle"]
  /\ callEvent' = [callEvent EXCEPT ![c] = NoEvent]
  /\ callRow' = [callRow EXCEPT ![c] = NoEvent]

Accept(c) == Return(c) /\ accepted' = accepted \cup {callEvent[c]}

\* A covering row absorbs the event, unless both are the same recursive scan.
FindCovering(c) ==
  LET e == callEvent[c]
  IN  /\ AtStep(c, "find")
      /\ \/ \E r \in CoveringRows(e) :
              /\ ~SameKey(r, e)
              /\ callRow' = [callRow EXCEPT ![c] = r]
              /\ callPc' = [callPc EXCEPT ![c] = "touch"]
         \/ /\ \A r \in CoveringRows(e) : SameKey(r, e)
            /\ callPc' = [callPc EXCEPT ![c] = "upsert"]
            /\ UNCHANGED callRow
      /\ UNCHANGED <<dbVars, request, callEvent, workVars, envVars,
                     accepted, served, dropped, deferred>>

\* Touch leaves run_after alone, and reports an error when the row is gone.
Touch(c) ==
  /\ AtStep(c, "touch")
  /\ \/ callRow[c] \in queue /\ Accept(c)
     \/ callRow[c] \notin queue /\ Return(c) /\ UNCHANGED accepted
  /\ UNCHANGED <<dbVars, request, workVars, envVars,
                 served, dropped, deferred>>

\* INSERT ... ON CONFLICT on the merge key; run_after becomes the later one.
UpsertRow(e) ==
  LET same == {r \in queue : SameKey(r, e)}
  IN  /\ queue' = IF same = {} THEN queue \cup {e} ELSE queue
      /\ runAfter' = [x \in Events |->
           IF x \in same /\ runAfter[x] < runAfter[e]
           THEN runAfter[e] ELSE runAfter[x]]

\* The foreign keys refuse a row whose library or provider was deleted.
Upsert(c) ==
  LET e == callEvent[c]
  IN  /\ AtStep(c, "upsert")
      /\ \/ /\ target[request[e].mount] = "deleted"
            /\ Return(c)
            /\ UNCHANGED <<queue, runAfter, accepted>>
         \/ /\ target[request[e].mount] # "deleted"
            /\ UpsertRow(e)
            /\ \/ /\ request[e].mode = "recursive"
                  /\ callPc' = [callPc EXCEPT ![c] = "cleanup"]
                  /\ UNCHANGED <<callEvent, callRow, accepted>>
               \/ request[e].mode # "recursive" /\ Accept(c)
      /\ UNCHANGED <<target, request, workVars, envVars,
                     served, dropped, deferred>>

DeleteCovered(c) ==
  /\ AtStep(c, "cleanup")
  /\ queue' = queue \ CoveredRows(callEvent[c])
  /\ Accept(c)
  /\ UNCHANGED <<runAfter, target, request, workVars, envVars,
                 served, dropped, deferred>>

\* A statement fails, or the client's request is cancelled: the error is
\* returned and what earlier statements wrote stays.
CallFails(c) ==
  /\ Faults
  /\ phase # "down" /\ callPc[c] # "idle"
  /\ Return(c)
  /\ UNCHANGED <<dbVars, request, workVars, envVars,
                 accepted, served, dropped, deferred>>

-----------------------------------------------------------------------------
(* The worker: one goroutine, the only one that takes slots and locks *)

WorkerAt(pc) == phase # "down" /\ worker = pc

\* Every statement of the worker uses its ctx, which shutdown cancels.
CtxAlive == phase = "up"

StatementFails == ~CtxAlive \/ Faults

\* Variant: no ticker, only the wake channel.
WakeUpBySignal ==
  /\ WorkerAt("wait")
  /\ \/ CtxAlive /\ wake /\ worker' = "acquire" /\ wake' = FALSE
     \/ ~CtxAlive /\ worker' = "exited" /\ UNCHANGED wake
  /\ UNCHANGED <<dbVars, callVars, picked, excluded, slots, active, run,
                 envVars, accepted, served, dropped, deferred>>

\* select: the ticker and the wake channel start a drain, ctx.Done ends it.
WakeUp ==
  /\ WorkerAt("wait")
  /\ \/ CtxAlive /\ worker' = "acquire" /\ wake' \in {wake, FALSE}
     \/ ~CtxAlive /\ worker' = "exited" /\ UNCHANGED wake
  /\ UNCHANGED <<dbVars, callVars, picked, excluded, slots, active, run,
                 envVars, accepted, served, dropped, deferred>>

\* The drain loop's head: the ctx check and the non-blocking send to slots.
AcquireSlot ==
  /\ WorkerAt("acquire")
  /\ \/ /\ CtxAlive /\ slots < MaxConcurrent
        /\ slots' = slots + 1 /\ worker' = "snapshot"
        /\ UNCHANGED deferred
     \/ /\ CtxAlive /\ slots >= MaxConcurrent
        /\ worker' = "wait" /\ deferred' = DueRows
        /\ UNCHANGED slots
     \/ /\ ~CtxAlive
        /\ worker' = "wait" /\ deferred' = {}
        /\ UNCHANGED slots
  /\ UNCHANGED <<dbVars, callVars, picked, excluded, wake, active, run,
                 envVars, accepted, served, dropped>>

\* activeProviderIDs is evaluated before the query that uses it.
SnapshotProviders ==
  /\ WorkerAt("snapshot")
  /\ excluded' = active /\ worker' = "load"
  /\ UNCHANGED <<dbVars, callVars, picked, slots, wake, active, run, envVars,
                 accepted, served, dropped, deferred>>

\* Variant: an empty result is not told from a row.
LoadUnchecked ==
  /\ WorkerAt("load") /\ CtxAlive
  /\ \/ picked' \in FirstDue(excluded)
     \/ FirstDue(excluded) = {} /\ picked' = NoEvent
  /\ worker' = "lock" /\ excluded' = {}
  /\ UNCHANGED <<dbVars, callVars, slots, wake, active, run, envVars,
                 accepted, served, dropped, deferred>>

LoadDue ==
  /\ WorkerAt("load")
  /\ \/ /\ CtxAlive
        /\ picked' \in FirstDue(excluded)
        /\ worker' = "lock"
        /\ UNCHANGED <<slots, deferred>>
     \/ /\ CtxAlive /\ FirstDue(excluded) = {}
        /\ slots' = slots - 1 /\ worker' = "wait" /\ deferred' = DueRows
        /\ UNCHANGED picked
     \/ /\ StatementFails
        /\ slots' = slots - 1 /\ worker' = "wait" /\ deferred' = {}
        /\ UNCHANGED picked
  /\ excluded' = {}
  /\ UNCHANGED <<dbVars, callVars, wake, active, run, envVars,
                 accepted, served, dropped>>

TryLockProvider ==
  /\ WorkerAt("lock")
  /\ \/ /\ Provider(picked) \notin active
        /\ active' = active \cup {Provider(picked)}
        /\ worker' = "validate"
        /\ UNCHANGED <<slots, picked>>
     \/ /\ Provider(picked) \in active
        /\ slots' = slots - 1 /\ worker' = "acquire" /\ picked' = NoEvent
        /\ UNCHANGED active
  /\ UNCHANGED <<dbVars, callVars, excluded, wake, run, envVars,
                 accepted, served, dropped, deferred>>

\* An error of the lookup is treated like an invalid target.
ValidateTarget ==
  /\ WorkerAt("validate")
  /\ \/ CtxAlive /\ Reachable(picked) /\ worker' = "dequeue"
     \/ CtxAlive /\ ~Reachable(picked) /\ worker' = "drop_invalid"
     \/ StatementFails /\ worker' = "drop_error"
  /\ UNCHANGED <<dbVars, callVars, picked, excluded, slots, wake, active, run,
                 envVars, accepted, served, dropped, deferred>>

\* Variants: an early return keeps the lock, or the slot.
GiveUpSlotOnly(pc) ==
  /\ UNCHANGED active
  /\ slots' = slots - 1
  /\ worker' = pc /\ picked' = NoEvent

GiveUpLockOnly(pc) ==
  /\ active' = active \ {Provider(picked)}
  /\ UNCHANGED slots
  /\ worker' = pc /\ picked' = NoEvent

\* The early returns of prepareQueuedScan unlock the provider and free the slot.
GiveUp(pc) ==
  /\ active' = active \ {Provider(picked)}
  /\ slots' = slots - 1
  /\ worker' = pc /\ picked' = NoEvent

DiscardRow ==
  /\ WorkerAt("drop_invalid") \/ WorkerAt("drop_error")
  /\ \/ /\ CtxAlive /\ picked \in queue
        /\ queue' = queue \ {picked}
        /\ dropped' = IF worker = "drop_invalid"
                      THEN dropped \cup CoveredBy(picked) ELSE dropped
        /\ GiveUp("acquire")
        /\ UNCHANGED deferred
     \/ /\ StatementFails \/ picked \notin queue
        /\ GiveUp("wait")
        /\ deferred' = {}
        /\ UNCHANGED <<queue, dropped>>
  /\ UNCHANGED <<runAfter, target, callVars, excluded, wake, run,
                 envVars, accepted, served>>

\* Variant: keepProviderLock is not set, the deferred unlock runs.
StartScanUnlocked ==
  /\ run' = [run EXCEPT ![picked] = "scan"]
  /\ served' = served \cup CoveredBy(picked)
  /\ active' = active \ {Provider(picked)}
  /\ worker' = "acquire" /\ picked' = NoEvent
  /\ UNCHANGED <<slots, deferred>>

\* The go statement: the lock and the slot pass to the goroutine.
StartScan ==
  /\ run' = [run EXCEPT ![picked] = "scan"]
  /\ served' = served \cup CoveredBy(picked)
  /\ worker' = "acquire" /\ picked' = NoEvent
  /\ UNCHANGED <<active, slots, deferred>>

\* Variant: the rows affected by the DELETE are not counted.
DequeueUncounted ==
  /\ WorkerAt("dequeue")
  /\ \/ CtxAlive /\ queue' = queue \ {picked} /\ StartScan
     \/ /\ StatementFails
        /\ UNCHANGED <<queue, run, served>>
        /\ GiveUp("wait")
        /\ deferred' = {}
  /\ UNCHANGED <<runAfter, target, callVars, excluded, wake, envVars,
                 accepted, dropped>>

\* DeleteAndCreateTask: when the transaction fails the lock and the slot are
\* given back.  A commit whose result cannot be read back is a failure too.
Dequeue ==
  /\ WorkerAt("dequeue")
  /\ \/ /\ CtxAlive /\ picked \in queue
        /\ queue' = queue \ {picked}
        /\ StartScan
     \/ /\ StatementFails \/ picked \notin queue
        /\ \/ UNCHANGED queue
           \/ Faults /\ queue' = queue \ {picked}
        /\ GiveUp("wait")
        /\ deferred' = {}
        /\ UNCHANGED <<run, served>>
  /\ UNCHANGED <<runAfter, target, callVars, excluded, wake, envVars,
                 accepted, dropped>>

-----------------------------------------------------------------------------
(* The scan goroutines *)

RunAt(r, pc) == phase # "down" /\ run[r] = pc

\* The task ends, in whatever status; the deferred function runs next.
FinishScan(r) ==
  /\ RunAt(r, "scan")
  /\ run' = [run EXCEPT ![r] = "unlock"]
  /\ UNCHANGED <<dbVars, callVars, worker, picked, excluded, slots, wake,
                 active, envVars, accepted, served, dropped, deferred>>

UnlockProvider(r) ==
  /\ RunAt(r, "unlock")
  /\ active' = active \ {Provider(r)}
  /\ run' = [run EXCEPT ![r] = "release"]
  /\ UNCHANGED <<dbVars, callVars, worker, picked, excluded, slots, wake,
                 envVars, accepted, served, dropped, deferred>>

ReleaseSlot(r) ==
  /\ RunAt(r, "release")
  /\ slots' = slots - 1
  /\ run' = [run EXCEPT ![r] = "notify"]
  /\ UNCHANGED <<dbVars, callVars, worker, picked, excluded, wake, active,
                 envVars, accepted, served, dropped, deferred>>

\* Variant: the send is missing.
NotifyNobody(r) ==
  /\ RunAt(r, "notify")
  /\ run' = [run EXCEPT ![r] = "none"]
  /\ UNCHANGED <<dbVars, callVars, worker, picked, excluded, slots, wake,
                 active, envVars, accepted, served, dropped, deferred>>

\* A full wake channel drops the send: one wake-up is already pending.
Notify(r) ==
  /\ RunAt(r, "notify")
  /\ wake' = TRUE
  /\ run' = [run EXCEPT ![r] = "none"]
  /\ UNCHANGED <<dbVars, callVars, worker, picked, excluded, slots, active,
                 envVars, accepted, served, dropped, deferred>>

-----------------------------------------------------------------------------
(* The environment: time, the admin, the process *)

Tick ==
  /\ now < MaxTime
  /\ now' = now + 1
  /\ UNCHANGED <<dbVars, callVars, workVars, phase, stops, admin,
                 accepted, served, dropped, deferred>>

\* The admin enables or disables a mount or its library, removes the mount (to
\* the queue the same as disabling it), or deletes the library or the provider,
\* which deletes the queue rows too (ON DELETE CASCADE).
ChangeMount(m) ==
  /\ phase # "down" /\ admin < MaxAdmin
  /\ admin' = admin + 1
  /\ target[m] # "deleted"
  /\ \E s \in {"enabled", "disabled", "deleted"} \ {target[m]} :
       LET gone == IF s = "deleted"
                   THEN {e \in Begun : request[e].mount = m} ELSE {}
       IN  /\ target' = [target EXCEPT ![m] = s]
           /\ queue' = queue \ gone
           /\ dropped' = dropped \cup gone
  /\ UNCHANGED <<runAfter, callVars, workVars, now, phase, stops,
                 accepted, served, deferred>>

\* Shutdown cancels the worker's ctx first; the HTTP handlers go on.
Stop ==
  /\ phase = "up" /\ stops < MaxStops
  /\ phase' = "stopping" /\ stops' = stops + 1
  /\ UNCHANGED <<dbVars, callVars, workVars, now, admin,
                 accepted, served, dropped, deferred>>

\* What lives in the memory of the process is gone.
Die ==
  /\ phase' = "down"
  /\ callPc' = [c \in Callers |-> "idle"]
  /\ callEvent' = [c \in Callers |-> NoEvent]
  /\ callRow' = [c \in Callers |-> NoEvent]
  /\ worker' = "exited" /\ picked' = NoEvent
  /\ slots' = 0 /\ wake' = FALSE
  /\ active' = {} /\ excluded' = {}
  /\ run' = [r \in Events |-> "none"]
  /\ deferred' = {}
  /\ UNCHANGED <<dbVars, request, now, admin,
                 accepted, served, dropped>>

Crash == phase \in {"up", "stopping"} /\ stops < MaxStops
         /\ stops' = stops + 1 /\ Die

\* Run returns when the workers are done or 30 seconds have passed.
Exit == phase = "stopping" /\ Die /\ UNCHANGED stops

\* A new process starts its worker with a drain.
Restart ==
  /\ phase = "down"
  /\ phase' = "up" /\ worker' = "acquire"
  /\ UNCHANGED <<dbVars, callVars, picked, excluded, slots, wake, active, run,
                 now, stops, admin, accepted, served, dropped, deferred>>

-----------------------------------------------------------------------------
Init ==
  /\ queue = {} /\ runAfter = [e \in Events |-> 0]
  /\ target = [m \in Mounts |-> "enabled"]
  /\ request = [e \in {} |-> e]
  /\ callPc = [c \in Callers |-> "idle"]
  /\ callEvent = [c \in Callers |-> NoEvent]
  /\ callRow = [c \in Callers |-> NoEvent]
  /\ worker = "acquire" /\ picked = NoEvent /\ excluded = {}
  /\ slots = 0 /\ wake = FALSE /\ active = {}
  /\ run = [r \in Events |-> "none"]
  /\ now = 0 /\ phase = "up" /\ stops = 0 /\ admin = 0
  /\ accepted = {} /\ served = {} /\ dropped = {} /\ deferred = {}

CallStep(c) ==
  \/ FindCovering(c) \/ Touch(c) \/ Upsert(c) \/ DeleteCovered(c)
  \/ CallFails(c)

WorkerStep ==
  \/ WakeUp \/ AcquireSlot \/ SnapshotProviders \/ LoadDue
  \/ TryLockProvider \/ ValidateTarget \/ DiscardRow \/ Dequeue

RunStep(r) == FinishScan(r) \/ UnlockProvider(r) \/ ReleaseSlot(r) \/ Notify(r)

Next ==
  \/ \E c \in Callers, e \in Events, q \in Requests : BeginCall(c, e, q)
  \/ \E c \in Callers : CallStep(c)
  \/ WorkerStep
  \/ \E r \in Events : RunStep(r)
  \/ \E m \in Mounts : ChangeMount(m)
  \/ Tick \/ Stop \/ Crash \/ Exit \/ Restart

Spec == Init /\ [][Next]_vars

\* The worker has a ticker, started statements and scans end, time passes, and
\* the service manager starts the process again.  Nobody has to enqueue.
Fairness ==
  /\ \A c \in Callers : WF_vars(CallStep(c))
  /\ WF_vars(WorkerStep)
  /\ \A r \in Events : WF_vars(RunStep(r))
  /\ WF_vars(Tick) /\ WF_vars(Exit) /\ WF_vars(Restart)

FairSpec == Spec /\ Fairness

-----------------------------------------------------------------------------
(* Properties *)

Scanning == {r \in Events : run[r] \in {"scan", "unlock"}}

\* Scans whose deferred function has not released their slot.
Occupying == {r \in Events : run[r] \in {"scan", "unlock", "release"}}

WorkerHoldsLock == worker \in {"validate", "dequeue", "drop_invalid", "drop_error"}

WorkerHoldsSlot == WorkerHoldsLock \/ worker \in {"snapshot", "load", "lock"}

\* The variables have their types; a caller or a worker in the middle of its
\* work has an event in hand, and only begun events are rows, scans or history.
TypeOK ==
  /\ request \in [Begun -> Requests] /\ Begun \subseteq Events
  /\ runAfter \in [Events -> Nat]
  /\ target \in [Mounts -> {"enabled", "disabled", "deleted"}]
  /\ callPc \in [Callers -> {"idle", "find", "touch", "upsert", "cleanup"}]
  /\ callEvent \in [Callers -> Events \cup {NoEvent}]
  /\ callRow \in [Callers -> Events \cup {NoEvent}]
  /\ \A c \in Callers : callPc[c] # "idle" => callEvent[c] \in Begun
  /\ \A c \in Callers : callPc[c] = "touch" => callRow[c] \in Begun
  /\ worker \in {"wait", "acquire", "snapshot", "load", "lock", "validate",
                 "drop_invalid", "drop_error", "dequeue", "exited"}
  /\ picked \in Events \cup {NoEvent}
  /\ WorkerHoldsLock \/ worker = "lock" => picked \in Begun
  /\ excluded \subseteq Providers /\ active \subseteq Providers
  /\ slots \in Int /\ wake \in BOOLEAN
  /\ run \in [Events -> {"none", "scan", "unlock", "release", "notify"}]
  /\ \A r \in Events : run[r] # "none" => r \in Begun
  /\ now \in Nat /\ stops \in Nat /\ admin \in Nat
  /\ phase \in {"up", "stopping", "down"}
  /\ queue \subseteq Begun /\ accepted \subseteq Begun
  /\ served \subseteq Begun /\ dropped \subseteq Begun
  /\ deferred \subseteq Events

\* Scans of one provider never overlap (docs/scan-problem.md:135), not even
\* while the deferred function of the earlier one is still running.
ProviderSerial ==
  \A a, b \in Scanning : Provider(a) = Provider(b) => a = b

\* activeProviders holds exactly the providers being scanned or prepared: no
\* early return keeps a lock, which would silence that provider for ever.
LocksAccounted ==
  active = {Provider(r) : r \in Scanning}
           \cup (IF WorkerHoldsLock THEN {Provider(picked)} ELSE {})

\* Every taken slot belongs to the worker or to a scan that will release it, so
\* no path of the drain loop leaks a slot and the limit on scans is respected.
SlotsAccounted ==
  /\ slots = Cardinality(Occupying) + (IF WorkerHoldsSlot THEN 1 ELSE 0)
  /\ slots <= MaxConcurrent

\* The row the worker has loaded is free to lock: the snapshot of the busy
\* providers may be stale, but only towards too many of them.
LockIsFree == worker = "lock" => Provider(picked) \notin active

\* A scan never starts for a library or provider that the admin has deleted,
\* although callers list the mounts, and the worker validates the target of the
\* row it has loaded, some statements before a row is inserted or dequeued.
DeletedNotScanned ==
  [][\A r \in Events : run[r] # "scan" /\ run'[r] = "scan"
       => target[request[r].mount] # "deleted"]_vars

\* A due row that the last drain left behind because of a busy provider or of
\* missing slots is not left to the ticker: a wake-up is pending or a scan that
\* will send one is alive.
NoLostWakeup ==
  worker = "wait" /\ CtxAlive /\ deferred \cap queue # {}
    => wake \/ \E r \in Events : run[r] # "none"

\* An event whose enqueue call succeeded is never forgotten: a pending row
\* covers it, or a scan that started after it does, or the row that covered it
\* was discarded because its target was no longer valid.
AcceptedEventsKept ==
  \A e \in accepted :
    e \in served \cup dropped \/ \E r \in queue : Covers(r, e)

\* When every call so far has succeeded, merging has left no row whose scan
\* another pending row would do as well (docs/scan-problem.md:102-105).
MergedAtRest ==
  Begun = accepted => \A a, b \in queue : Covers(a, b) => a = b

\* The queue keeps the promise of ScanIntents: an accepted event is owed while
\* a pending row covers it, and settled once a scan or a discard took that row.
Owed == {e \in accepted \ (served \cup dropped) : \E r \in queue : Covers(r, e)}

Settled == accepted \cap (served \cup dropped)

Intents == INSTANCE ScanIntents
             WITH Intents <- Events, owed <- Owed, settled <- Settled

KeepsIntents == Intents!Spec

=============================================================================
