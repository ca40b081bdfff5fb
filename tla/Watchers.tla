------------------------------ MODULE Watchers ------------------------------
(***************************************************************************)
(* The watchers of local mounts and the library scans they ask for.        *)
(*                                                                         *)
(* One goroutine, the loop, runs a generation of watchers: a goroutine for *)
(* each mount whose library, provider and own row are switched on.  When a *)
(* handler has changed any of these rows it requests a reload, and the     *)
(* loop ends the generation and starts the next one from what it reads     *)
(* then.  A watcher that sees a file change (re)starts its library's timer,*)
(* and a timer that is still the library's when it fires enqueues a scan.  *)
(*                                                                         *)
(* Contexts are numbered by generation: the context of generation n is     *)
(* cancelled when n <= ended or the application is closing.                *)
(***************************************************************************)
EXTENDS Integers, FiniteSets

CONSTANTS
  Library, Mount, Provider,
  LibraryOf, ProviderOf,  \* the library and the provider of a mount
  Configured,             \* the sets of enabled rows a start may find
  Timer,                  \* timers that may be in use at a time
  MaxSwitches,            \* bound on rows changed by handlers
  MaxChanges              \* bound on changes below the mounts

ASSUME MountAssumption ==
  /\ LibraryOf \in [Mount -> Library] /\ ProviderOf \in [Mount -> Provider]
  /\ Configured \subseteq SUBSET (Library \cup Mount \cup Provider)
  /\ MaxSwitches \in Nat /\ MaxChanges \in Nat
  /\ IsFiniteSet(Timer) /\ (Timer # {} => Library # {})

VARIABLES
  on,        \* the rows that are enabled (of a provider: watch_enabled too)
  owed,      \* handlers that wrote a row and have not requested a reload yet
  reload,    \* requests in the channel watchReload
  loop,      \* the loop: what it does and what it still has to start
  gen,       \* the generation it started last
  ended,     \* the generation it cancelled last
  closing,   \* whether the application shuts down
  routines,  \* the watchers' goroutines
  timers,    \* timers; "cur" when it is its library's entry in watchTimers
  wg,        \* the counter of watchTimerWG
  status,    \* watchStatus
  gaps,      \* mounts this generation could not start or that failed since
  due,       \* libraries with a change some watcher has got hold of
  switches, changes

vars == <<on, owed, reload, loop, gen, ended, closing, routines, timers, wg,
          status, gaps, due, switches, changes>>

Row == Library \cup Mount \cup Provider

LoopType == [pc : {"waiting", "stopping", "draining", "listing", "starting", "stopped"},
             then : {"listing", "stopped"}, libs : SUBSET Library, mounts : SUBSET Mount]

RoutineType == [mount : Mount, gen : Nat, st : {"starting", "adding", "armed", "emitting"},
                inbox : SUBSET {"file", "dir"}]

TimerType == [st : {"free", "armed", "fired", "popped"}, lib : Library,
              gen : Nat, cur : BOOLEAN]

\* Every variable keeps to its type; the channel holds one request at most.
TypeOK ==
  /\ on \subseteq Row /\ owed \in 0..MaxSwitches /\ reload \in 0..1
  /\ loop \in LoopType
  /\ gen \in Nat /\ ended \in 0..gen /\ closing \in BOOLEAN
  /\ routines \subseteq RoutineType
  /\ timers \in [Timer -> TimerType] /\ wg \in Nat
  /\ status \in [Mount -> [active : BOOLEAN, error : BOOLEAN]]
  /\ gaps \subseteq Mount /\ due \subseteq Library
  /\ switches \in 0..MaxSwitches /\ changes \in 0..MaxChanges

NoTimer == [st |-> "free", lib |-> CHOOSE l \in Library : TRUE, gen |-> 0, cur |-> FALSE]

Cancelled(n) == n <= ended \/ closing
Wanted(m) == {LibraryOf[m], m, ProviderOf[m]} \subseteq on
InUse == {t \in Timer : timers[t].st # "free"}

Init ==
  /\ on \in Configured
  /\ owed = 0 /\ reload = 0 /\ gen = 1 /\ ended = 0 /\ closing = FALSE
  /\ loop = [pc |-> "listing", then |-> "listing", libs |-> {}, mounts |-> {}]
  /\ routines = {} /\ wg = 0
  /\ timers = [t \in Timer |-> NoTimer]
  /\ status = [m \in Mount |-> [active |-> FALSE, error |-> FALSE]]
  /\ gaps = {} /\ due = {} /\ switches = 0 /\ changes = 0

-----------------------------------------------------------------------------
(* Handlers, and the tree *)

\* A handler creates, updates or deletes a row.
WriteRow(r) ==
  /\ switches < MaxSwitches
  /\ on' = IF r \in on THEN on \ {r} ELSE on \cup {r}
  /\ owed' = owed + 1 /\ switches' = switches + 1
  /\ UNCHANGED <<reload, loop, gen, ended, closing, routines, timers, wg, status,
                 gaps, due, changes>>

RequestAll ==
  /\ owed > 0
  /\ owed' = owed - 1 /\ reload' = reload + 1
  /\ UNCHANGED <<on, loop, gen, ended, closing, routines, timers, wg, status, gaps,
                 due, switches, changes>>

RequestUnbuffered ==
  /\ owed > 0
  /\ owed' = owed - 1 /\ reload' = IF loop.pc = "waiting" THEN 1 ELSE reload
  /\ UNCHANGED <<on, loop, gen, ended, closing, routines, timers, wg, status, gaps,
                 due, switches, changes>>

\* A request that finds another one in the channel is dropped.
RequestReload ==
  /\ owed > 0
  /\ owed' = owed - 1 /\ reload' = 1
  /\ UNCHANGED <<on, loop, gen, ended, closing, routines, timers, wg, status, gaps,
                 due, switches, changes>>

\* A file below the mount changes, or a directory with files appears there.  A
\* watcher that is still adding directories may not have come to this one.
Change(m, kind) ==
  /\ changes < MaxChanges /\ changes' = changes + 1
  /\ \E missed \in SUBSET {g \in routines : g.mount = m /\ g.st = "adding"} :
     LET Told == {g \in routines : g.mount = m /\ g.st # "starting"} \ missed IN
     /\ routines' = (routines \ Told) \cup {[g EXCEPT !.inbox = @ \cup {kind}] : g \in Told}
     /\ due' = IF kind = "file" /\ \E g \in Told : ~Cancelled(g.gen)
               THEN due \cup {LibraryOf[m]} ELSE due
  /\ UNCHANGED <<on, owed, reload, loop, gen, ended, closing, timers, wg, status,
                 gaps, switches>>

Shutdown ==
  /\ ~closing /\ closing' = TRUE
  /\ UNCHANGED <<on, owed, reload, loop, gen, ended, routines, timers, wg, status,
                 gaps, due, switches, changes>>

-----------------------------------------------------------------------------
(* The loop *)

ResetStatus == [m \in Mount |-> [active |-> FALSE, error |-> FALSE]]

EndGeneration(next) ==
  /\ loop.pc = "waiting"
  /\ loop' = [loop EXCEPT !.pc = "stopping", !.then = next]
  /\ ended' = gen
  /\ UNCHANGED <<on, owed, gen, closing, routines, timers, wg, gaps, due, switches, changes>>

TakeReloadResets ==
  /\ reload = 1 /\ reload' = 0
  /\ EndGeneration("listing") /\ status' = ResetStatus

TakeReload ==
  /\ reload = 1 /\ reload' = 0
  /\ EndGeneration("listing") /\ UNCHANGED status

Leave == closing /\ EndGeneration("stopped") /\ UNCHANGED <<reload, status>>

StopTimersKeep ==
  /\ timers' = [t \in Timer |-> IF timers[t].st = "armed" THEN NoTimer
                                ELSE [timers[t] EXCEPT !.cur = FALSE]]
  /\ UNCHANGED wg

\* Stops the timers that have not fired and forgets all of them: a change
\* that only they stand for is dropped.
StopTimers ==
  /\ timers' = [t \in Timer |-> IF timers[t].st = "armed" THEN NoTimer
                                ELSE [timers[t] EXCEPT !.cur = FALSE]]
  /\ wg' = wg - Cardinality({t \in Timer : timers[t].st = "armed"})

StopWatchers(wait) ==
  /\ loop.pc = "stopping" /\ wait
  /\ StopTimers
  /\ due' = due \ {timers[t].lib : t \in {u \in InUse : timers[u].cur}}
  /\ loop' = [loop EXCEPT !.pc = "draining"]
  /\ UNCHANGED <<on, owed, reload, gen, ended, closing, routines, status, gaps,
                 switches, changes>>

DrainAtOnce == StopWatchers(TRUE)
DrainWatchers == StopWatchers(routines = {})

\* Once every callback has returned, the next generation begins, or the loop ends.
NextGeneration ==
  /\ loop.pc = "draining" /\ wg = 0
  /\ loop' = [loop EXCEPT !.pc = loop.then]
  /\ IF loop.then = "listing"
     THEN gen' = gen + 1 /\ status' = ResetStatus /\ gaps' = {}
     ELSE UNCHANGED <<gen, status, gaps>>
  /\ UNCHANGED <<on, owed, reload, ended, closing, routines, timers, wg, due,
                 switches, changes>>

\* Lists the enabled libraries; a failure leaves the generation without watchers.
ListLibraries ==
  /\ loop.pc = "listing"
  /\ \/ /\ ~closing
        /\ loop' = [loop EXCEPT !.pc = "starting", !.libs = Library \cap on]
        /\ UNCHANGED gaps
     \/ /\ loop' = [loop EXCEPT !.pc = "starting"]
        /\ gaps' = Mount
  /\ UNCHANGED <<on, owed, reload, gen, ended, closing, routines, timers, wg, status,
                 due, switches, changes>>

\* Lists the enabled mounts of a library; one that cannot be read is skipped.
ListMounts(l) ==
  /\ loop.pc = "starting" /\ loop.mounts = {} /\ l \in loop.libs
  /\ \/ /\ ~closing
        /\ loop' = [loop EXCEPT !.libs = @ \ {l},
                                !.mounts = {m \in Mount \cap on : LibraryOf[m] = l}]
        /\ UNCHANGED gaps
     \/ /\ loop' = [loop EXCEPT !.libs = IF closing THEN {} ELSE @ \ {l}]
        /\ gaps' = gaps \cup {m \in Mount : LibraryOf[m] = l}
  /\ UNCHANGED <<on, owed, reload, gen, ended, closing, routines, timers, wg, status,
                 due, switches, changes>>

\* Reads the provider of a mount and starts a watcher if it is to be watched.
StartMountWatcher(m) ==
  /\ loop.pc = "starting" /\ m \in loop.mounts
  /\ loop' = [loop EXCEPT !.mounts = IF closing THEN {} ELSE @ \ {m}]
  /\ \/ /\ ~closing /\ ProviderOf[m] \in on
        /\ routines' = routines \cup
             {[mount |-> m, gen |-> gen, st |-> "starting", inbox |-> {}]}
        /\ UNCHANGED <<status, gaps>>
     \/ /\ ~closing /\ ProviderOf[m] \notin on
        /\ UNCHANGED <<routines, status, gaps>>
     \/ /\ status' = [status EXCEPT ![m].error = @ \/ ~closing]
        /\ gaps' = gaps \cup {m}
        /\ UNCHANGED routines
  /\ UNCHANGED <<on, owed, reload, gen, ended, closing, timers, wg, due, switches,
                 changes>>

Started ==
  /\ loop.pc = "starting" /\ loop.libs = {} /\ loop.mounts = {}
  /\ loop' = [loop EXCEPT !.pc = "waiting"]
  /\ UNCHANGED <<on, owed, reload, gen, ended, closing, routines, timers, wg, status,
                 gaps, due, switches, changes>>

-----------------------------------------------------------------------------
(* A watcher *)

Becomes(g, st, inbox) ==
  routines' = (routines \ {g}) \cup {[g EXCEPT !.st = st, !.inbox = inbox]}

Known(g) == IF "file" \in g.inbox THEN {LibraryOf[g.mount]} ELSE {}

\* The watcher's goroutine ends; what it has not handled is lost.
End(g, failed) ==
  /\ routines' = routines \ {g}
  /\ due' = due \ Known(g)
  /\ status' = [status EXCEPT ![g.mount] =
                  [active |-> FALSE, error |-> @.error \/ (failed /\ ~Cancelled(g.gen))]]
  /\ gaps' = IF failed THEN gaps \cup {g.mount} ELSE gaps

\* The goroutine begins: it reports itself active ...
Begin(g) ==
  /\ g.st = "starting" /\ Becomes(g, "adding", {})
  /\ status' = [status EXCEPT ![g.mount].active = TRUE]
  /\ UNCHANGED <<on, owed, reload, loop, gen, ended, closing, timers, wg, gaps, due,
                 switches, changes>>

\* ... and only then watches every directory below the mount, or fails.
Arm(g) ==
  /\ g.st = "adding"
  /\ \/ Becomes(g, "armed", g.inbox) /\ UNCHANGED <<status, gaps, due>>
     \/ End(g, TRUE)
  /\ UNCHANGED <<on, owed, reload, loop, gen, ended, closing, timers, wg, switches,
                 changes>>

\* A file's event is noted; a directory's only adds watches, which may fail.
TakeEvent(g, kind) ==
  /\ g.st = "armed" /\ kind \in g.inbox
  /\ \/ /\ kind = "file" /\ ~Cancelled(g.gen)
        /\ Becomes(g, "emitting", g.inbox \ {kind})
        /\ status' = [status EXCEPT ![g.mount].active = TRUE]
        /\ UNCHANGED <<gaps, due>>
     \/ /\ kind = "file" /\ Cancelled(g.gen)
        /\ Becomes(g, "armed", g.inbox \ {kind})
        /\ due' = due \ Known(g)
        /\ UNCHANGED <<status, gaps>>
     \/ /\ kind = "dir"
        /\ Becomes(g, "armed", g.inbox \ {kind})
        /\ UNCHANGED <<status, gaps, due>>
     \/ kind = "dir" /\ End(g, TRUE)
  /\ UNCHANGED <<on, owed, reload, loop, gen, ended, closing, timers, wg, switches,
                 changes>>

\* scheduleLibraryRescan: the library's timer is stopped and a new one armed.
ScheduleRescan(g) ==
  LET lib == LibraryOf[g.mount]
      old == {t \in InUse : timers[t].cur /\ timers[t].lib = lib}
      stopped == {t \in old : timers[t].st = "armed"}
  IN
  /\ g.st = "emitting" /\ Becomes(g, "armed", g.inbox)
  /\ \/ /\ Cancelled(g.gen)
        /\ due' = due \ {lib}
        /\ UNCHANGED <<timers, wg>>
     \/ /\ ~Cancelled(g.gen)
        /\ \E new \in Timer \ InUse :
             timers' = [t \in Timer |->
               IF t = new THEN [st |-> "armed", lib |-> lib, gen |-> g.gen, cur |-> TRUE]
               ELSE IF t \in stopped THEN NoTimer
               ELSE IF t \in old THEN [timers[t] EXCEPT !.cur = FALSE]
               ELSE timers[t]]
        /\ wg' = wg + 1 - Cardinality(stopped)
        /\ UNCHANGED due
  /\ UNCHANGED <<on, owed, reload, loop, gen, ended, closing, status, gaps, switches,
                 changes>>

\* Watch returns: its context is cancelled, or fsnotify reports an error.
WatchReturns(g) ==
  /\ g.st = "armed"
  /\ \/ Cancelled(g.gen) /\ End(g, FALSE)
     \/ End(g, TRUE)
  /\ UNCHANGED <<on, owed, reload, loop, gen, ended, closing, timers, wg, switches,
                 changes>>

-----------------------------------------------------------------------------
(* A timer's callback *)

Fire(t) ==
  /\ timers[t].st = "armed"
  /\ timers' = [timers EXCEPT ![t].st = "fired"]
  /\ UNCHANGED <<on, owed, reload, loop, gen, ended, closing, routines, wg, status,
                 gaps, due, switches, changes>>

DeleteThenCompare(t) ==
  /\ timers[t].st = "fired"
  /\ timers' = [u \in Timer |->
       IF u = t THEN IF timers[t].cur THEN [timers[t] EXCEPT !.st = "popped", !.cur = FALSE]
                     ELSE NoTimer
       ELSE IF timers[u].lib = timers[t].lib THEN [timers[u] EXCEPT !.cur = FALSE]
       ELSE timers[u]]
  /\ wg' = IF timers[t].cur THEN wg ELSE wg - 1
  /\ UNCHANGED <<on, owed, reload, loop, gen, ended, closing, routines, status, gaps,
                 due, switches, changes>>

\* A timer that has been replaced or forgotten returns.
Callback(t) ==
  /\ timers[t].st = "fired"
  /\ timers' = [timers EXCEPT ![t] = IF @.cur THEN [@ EXCEPT !.st = "popped", !.cur = FALSE]
                                     ELSE NoTimer]
  /\ wg' = IF timers[t].cur THEN wg ELSE wg - 1
  /\ UNCHANGED <<on, owed, reload, loop, gen, ended, closing, routines, status, gaps,
                 due, switches, changes>>

\* The library's mounts are enqueued; under a cancelled context, or when a
\* statement fails, they are not, and nothing tries again.
EnqueueLibrary(t) ==
  /\ timers[t].st = "popped"
  /\ timers' = [timers EXCEPT ![t] = NoTimer] /\ wg' = wg - 1
  /\ due' = due \ {timers[t].lib}
  /\ UNCHANGED <<on, owed, reload, loop, gen, ended, closing, routines, status, gaps,
                 switches, changes>>

-----------------------------------------------------------------------------
LoopStep ==
  \/ TakeReload \/ Leave \/ DrainWatchers \/ NextGeneration \/ ListLibraries \/ Started
  \/ \E l \in Library : ListMounts(l)
  \/ \E m \in Mount : StartMountWatcher(m)

WatcherStep(g) ==
  \/ Begin(g) \/ Arm(g) \/ ScheduleRescan(g) \/ WatchReturns(g)
  \/ \E kind \in {"file", "dir"} : TakeEvent(g, kind)

TimerStep(t) == Fire(t) \/ Callback(t) \/ EnqueueLibrary(t)

Next ==
  \/ \E r \in Row : WriteRow(r)
  \/ RequestReload
  \/ \E m \in Mount, kind \in {"file", "dir"} : Change(m, kind)
  \/ Shutdown
  \/ LoopStep
  \/ \E g \in routines : WatcherStep(g)
  \/ \E t \in Timer : TimerStep(t)

MountWatcherStep(m) == \E g \in routines : g.mount = m /\ WatcherStep(g)

(* Handlers, goroutines and timers run on; that rows are written, files    *)
(* change or the application closes is not required.                       *)
Spec ==
  /\ Init /\ [][Next]_vars
  /\ WF_vars(RequestReload) /\ WF_vars(LoopStep)
  /\ \A m \in Mount : WF_vars(MountWatcherStep(m))
  /\ \A t \in Timer : WF_vars(TimerStep(t))

-----------------------------------------------------------------------------
\* A new generation begins only when nothing of an earlier one is left: no
\* goroutine, no timer, no callback (watch.go:41-43, :313-323).
OneGeneration ==
  loop.pc \in {"listing", "starting", "waiting"} =>
    /\ \A g \in routines : g.gen = gen
    /\ \A t \in InUse : timers[t].gen = gen

\* When the loop waits and no handler owes a request, the watchers that run
\* are those the rows ask for, but for the ones that failed: no change of a
\* row is missed although a full channel drops requests (watch.go:61, :267).
AtRest ==
  loop.pc = "waiting" /\ reload = 0 /\ owed = 0 /\ ~closing =>
    {g.mount : g \in routines} = {m \in Mount : Wanted(m)} \ gaps

\* What the status page says of a mount is true of its goroutine, also while
\* generations change, and although the goroutine calls itself active before it
\* watches anything (watch.go:46, :157, :352-392).
StatusTruth ==
  \A m \in Mount :
    /\ status[m].active <=> \E g \in routines : g.mount = m /\ g.st # "starting"
    /\ status[m].error => m \in gaps /\ ~\E g \in routines : g.mount = m

\* The loop always gets back to waiting, or ends when the application closes:
\* no goroutine and no callback keeps it waiting for ever, whenever it fires
\* (watch.go:43-44, :284-291, :322).
ReloadFinishes ==
  /\ loop.pc # "waiting" ~> loop.pc \in {"waiting", "stopped"}
  /\ closing ~> loop.pc = "stopped"

\* A change that a watcher has got hold of has a scan of its library enqueued,
\* unless the generation ends, the watcher or the request fails: no
\* interleaving of timers loses it (watch.go:274-311).
ChangeIsRequested == \A l \in Library : l \in due ~> l \notin due

=============================================================================
