------------------------------ MODULE ScanTasks ------------------------------
(***************************************************************************)
(* The scan tasks: the rows of scan_tasks, the goroutine that runs each    *)
(* task and moves its row from pending to an end, the requests of the      *)
(* admin UI that cancel a task, the pruner of old rows, and the recovery   *)
(* of the rows a dead process has left behind.                             *)
(*                                                                         *)
(* Everyone works on a row through separate statements, so between reading *)
(* a row and writing it anybody else may write it.  What keeps them apart  *)
(* is the condition of UpdateIfActive and, for cancelling, the map         *)
(* activeTasks from a task to the cancel function of its context.          *)
(***************************************************************************)
EXTENDS Integers, FiniteSets

CONSTANTS
  Tasks,       \* the tasks a behaviour may create
  Requests,    \* the cancel requests, each handled at most once
  NoTask,      \* no task: an unset local variable
  ListLimit,   \* rows read by recovery (200 in ListPage)
  MaxStops,    \* bound on shutdowns, crashes and failed starts
  Faulty       \* tasks a statement of which may fail although its context is alive

ASSUME BoundAssumption ==
  /\ IsFiniteSet(Tasks) /\ NoTask \notin Tasks
  /\ ListLimit \in Nat \ {0} /\ MaxStops \in Nat /\ Faulty \subseteq Tasks

VARIABLES
  \* the database
  status,       \* of the row of each task, "none" and "pruned" without a row
  rank,         \* position in the order of created_at
  \* the goroutines of the tasks
  runner,
  registered,   \* DOMAIN of activeTasks
  cancelled,    \* tasks whose own context was cancelled
  \* the cancel requests
  reqPc, reqTask,
  \* the process
  phase, stops,
  listed,       \* rows recovery has still to update
  \* history, read by no action
  missed        \* tasks a request wanted to stop before they were registered

rowVars == <<status, rank>>
runVars == <<runner, registered, cancelled>>
reqVars == <<reqPc, reqTask>>
envVars == <<phase, stops, listed>>
vars == <<rowVars, runVars, reqVars, envVars, missed>>

Active == {"pending", "running"}

Ended == {"completed", "failed", "cancelled"}

Created == {t \in Tasks : status[t] # "none"}

Rows == {t \in Created : status[t] # "pruned"}

Up == phase \in {"up", "stopping"}

\* ctx.Err() of a task: its own cancel function, or the shutdown of the worker.
CtxErr(t) == t \in cancelled \/ phase = "stopping"

-----------------------------------------------------------------------------
(* The row *)

\* Variant: the update has no condition on the status.
SetAnyway(t, s) == status' = [status EXCEPT ![t] = s]

\* UpdateIfActive; an update that matches no row changes nothing.
SetIfActive(t, s) ==
  status' = IF status[t] \in Active THEN [status EXCEPT ![t] = s] ELSE status

\* DeleteAndCreateTask and the go statement.  When the row cannot be read back
\* after the commit, it stays without a goroutine.
Create(t) ==
  /\ phase = "up" /\ status[t] = "none"
  /\ status' = [status EXCEPT ![t] = "pending"]
  /\ rank' = [rank EXCEPT ![t] = Cardinality(Created)]
  /\ \/ runner' = [runner EXCEPT ![t] = "register"]
     \/ t \in Faulty /\ UNCHANGED runner
  /\ UNCHANGED <<registered, cancelled, reqVars, envVars, missed>>

\* DeleteFinishedBefore: rows that ended before the retention period.
Prune ==
  /\ phase = "up"
  /\ \E S \in SUBSET {t \in Tasks : status[t] \in Ended} :
       /\ S # {}
       /\ status' = [t \in Tasks |-> IF t \in S THEN "pruned" ELSE status[t]]
  /\ UNCHANGED <<rank, runVars, reqVars, envVars, missed>>

-----------------------------------------------------------------------------
(* runLibraryScanTask and runLibraryCurrentLevelScanTask *)

RunnerAt(t, pc) == Up /\ runner[t] = pc

Go(t, pc) == runner' = [runner EXCEPT ![t] = pc]

\* Variant: the cancel function is not stored.
RegisterNothing(t) ==
  /\ RunnerAt(t, "register") /\ Go(t, "check")
  /\ UNCHANGED <<rowVars, registered, cancelled, reqVars, envVars, missed>>

Register(t) ==
  /\ RunnerAt(t, "register") /\ Go(t, "check")
  /\ registered' = registered \cup {t}
  /\ UNCHANGED <<rowVars, cancelled, reqVars, envVars, missed>>

Check(t) ==
  /\ RunnerAt(t, "check")
  /\ Go(t, IF CtxErr(t) THEN "revoking" ELSE "load")
  /\ UNCHANGED <<rowVars, registered, cancelled, reqVars, envVars, missed>>

\* Variant: an error of the query ends the goroutine, whatever its cause.
LoadOrLeave(t) ==
  /\ RunnerAt(t, "load")
  /\ \/ ~CtxErr(t) /\ t \in Rows /\ status[t] # "cancelled" /\ Go(t, "start")
     \/ (CtxErr(t) \/ t \notin Rows \/ status[t] = "cancelled") /\ Go(t, "leave")
  /\ UNCHANGED <<rowVars, registered, cancelled, reqVars, envVars, missed>>

\* tasks.Get: only a cancelled row is recognised as ended here.
Load(t) ==
  /\ RunnerAt(t, "load")
  /\ \/ CtxErr(t) /\ Go(t, "revoking")
     \/ ~CtxErr(t) /\ t \in Rows /\ status[t] # "cancelled" /\ Go(t, "start")
     \/ ~CtxErr(t) /\ (t \notin Rows \/ status[t] = "cancelled") /\ Go(t, "leave")
     \/ ~CtxErr(t) /\ t \in Faulty /\ Go(t, "leave")
  /\ UNCHANGED <<rowVars, registered, cancelled, reqVars, envVars, missed>>

\* The row becomes running unless it has ended; a failed statement may have
\* been applied.
Start(t) ==
  /\ RunnerAt(t, "start")
  /\ \/ CtxErr(t) /\ Go(t, "revoking") /\ UNCHANGED status
     \/ ~CtxErr(t) /\ status[t] \in Active /\ SetIfActive(t, "running") /\ Go(t, "scan")
     \/ ~CtxErr(t) /\ status[t] \notin Active /\ Go(t, "leave") /\ UNCHANGED status
     \/ /\ ~CtxErr(t) /\ t \in Faulty /\ Go(t, "leave")
        /\ SetIfActive(t, "running") \/ UNCHANGED status
  /\ UNCHANGED <<rank, registered, cancelled, reqVars, envVars, missed>>

\* The scan returns nil even if the context is cancelled too late for it to
\* notice; its error is told apart by the context.
ScanReturns(t) ==
  /\ RunnerAt(t, "scan")
  /\ \/ Go(t, "finish")
     \/ CtxErr(t) /\ Go(t, "revoking")
     \/ ~CtxErr(t) /\ Go(t, "verdict")
  /\ UNCHANGED <<rowVars, registered, cancelled, reqVars, envVars, missed>>

Finish(t) ==
  /\ RunnerAt(t, "finish")
  /\ Go(t, IF CtxErr(t) THEN "revoking" ELSE "complete")
  /\ UNCHANGED <<rowVars, registered, cancelled, reqVars, envVars, missed>>

\* The last write of a goroutine: UpdateIfActive with a context of its own.
WriteEnd(t, pc, s) ==
  /\ RunnerAt(t, pc) /\ Go(t, "leave")
  /\ SetIfActive(t, s) \/ (t \in Faulty /\ UNCHANGED status)
  /\ UNCHANGED <<rank, registered, cancelled, reqVars, envVars, missed>>

Complete(t) == WriteEnd(t, "complete", "completed")

\* failTask: the check of the context, Get, UpdateIfActive.
Verdict(t) ==
  /\ RunnerAt(t, "verdict")
  /\ Go(t, IF CtxErr(t) THEN "revoking" ELSE "failing")
  /\ UNCHANGED <<rowVars, registered, cancelled, reqVars, envVars, missed>>

FailLoad(t) ==
  /\ RunnerAt(t, "failing")
  /\ \/ t \in Rows /\ Go(t, "fail")
     \/ (t \notin Rows \/ t \in Faulty) /\ Go(t, "leave")
  /\ UNCHANGED <<rowVars, registered, cancelled, reqVars, envVars, missed>>

Fail(t) == WriteEnd(t, "fail", "failed")

\* markTaskCancelled: Get, UpdateIfActive.
RevokeLoad(t) ==
  /\ RunnerAt(t, "revoking")
  /\ \/ status[t] \in Active /\ Go(t, "revoke")
     \/ (status[t] \notin Active \/ t \in Faulty) /\ Go(t, "leave")
  /\ UNCHANGED <<rowVars, registered, cancelled, reqVars, envVars, missed>>

Revoke(t) == WriteEnd(t, "revoke", "cancelled")

\* Variant: the deferred unregisterActiveTask is missing.
LeaveRegistered(t) ==
  /\ RunnerAt(t, "leave") /\ Go(t, "done")
  /\ UNCHANGED <<rowVars, registered, cancelled, reqVars, envVars, missed>>

\* The deferred cancel and unregisterActiveTask.
Leave(t) ==
  /\ RunnerAt(t, "leave") /\ Go(t, "done")
  /\ registered' = registered \ {t}
  /\ UNCHANGED <<rowVars, cancelled, reqVars, envVars, missed>>

-----------------------------------------------------------------------------
(* cancelScanTask *)

\* Get finds an active row; for any other row the request is answered at once.
RequestCancel(c, t) ==
  /\ Up /\ reqPc[c] = "idle" /\ status[t] \in Active
  /\ reqPc' = [reqPc EXCEPT ![c] = "signal"]
  /\ reqTask' = [reqTask EXCEPT ![c] = t]
  /\ UNCHANGED <<rowVars, runVars, envVars, missed>>

\* cancelActiveTask
Signal(c) ==
  LET t == reqTask[c]
  IN  /\ Up /\ reqPc[c] = "signal"
      /\ reqPc' = [reqPc EXCEPT ![c] = "write"]
      /\ cancelled' = cancelled \cup ({t} \cap registered)
      /\ missed' = IF runner[t] = "register" THEN missed \cup {t} ELSE missed
      /\ UNCHANGED <<rowVars, runner, registered, reqTask, envVars>>

\* UpdateIfActive, unless the client has hung up in the meantime.
WriteCancelled(c) ==
  /\ Up /\ reqPc[c] = "write"
  /\ reqPc' = [reqPc EXCEPT ![c] = "done"]
  /\ SetIfActive(reqTask[c], "cancelled") \/ UNCHANGED status
  /\ UNCHANGED <<rank, runVars, reqTask, envVars, missed>>

-----------------------------------------------------------------------------
(* The process *)

\* Shutdown cancels the context of the queue worker, every task's parent.
Stop ==
  /\ phase = "up" /\ stops < MaxStops
  /\ phase' = "stopping" /\ stops' = stops + 1
  /\ UNCHANGED <<rowVars, runVars, reqVars, listed, missed>>

Die ==
  /\ phase' = "down" /\ listed' = {}
  /\ runner' = [t \in Tasks |-> IF runner[t] = "none" THEN "none" ELSE "done"]
  /\ registered' = {} /\ cancelled' = {}
  /\ reqPc' = [c \in Requests |-> IF reqPc[c] = "idle" THEN "idle" ELSE "done"]
  /\ UNCHANGED <<rowVars, reqTask, missed>>

Crash == phase # "down" /\ stops < MaxStops /\ stops' = stops + 1 /\ Die

\* Run returns when the workers are done or 30 seconds have passed.
Exit == phase = "stopping" /\ Die /\ UNCHANGED stops

\* Variant: only running rows are taken for interrupted.
RestartRunning ==
  /\ phase = "down" /\ phase' = "recovering"
  /\ listed' = {t \in Tasks : status[t] = "running"}
  /\ UNCHANGED <<rowVars, runVars, reqVars, stops, missed>>

\* recoverInterruptedScanTasks lists the newest rows and keeps the active ones.
Restart ==
  LET newer(t) == {u \in Rows : rank[u] > rank[t]}
  IN  /\ phase = "down" /\ phase' = "recovering"
      /\ listed' = {t \in Rows : status[t] \in Active
                                 /\ Cardinality(newer(t)) < ListLimit}
      /\ UNCHANGED <<rowVars, runVars, reqVars, stops, missed>>

\* Update has no condition on the status.
Recover(t) ==
  /\ phase = "recovering" /\ t \in listed
  /\ \A u \in listed : rank[u] <= rank[t]
  /\ status' = [status EXCEPT ![t] = "failed"]
  /\ listed' = listed \ {t}
  /\ UNCHANGED <<rank, runVars, reqVars, phase, stops, missed>>

\* The server starts to serve when every listed row is updated.
Serve ==
  /\ phase = "recovering" /\ listed = {}
  /\ phase' = "up"
  /\ UNCHANGED <<rowVars, runVars, reqVars, stops, listed, missed>>

-----------------------------------------------------------------------------
Init ==
  /\ status = [t \in Tasks |-> "none"] /\ rank = [t \in Tasks |-> 0]
  /\ runner = [t \in Tasks |-> "none"] /\ registered = {} /\ cancelled = {}
  /\ reqPc = [c \in Requests |-> "idle"] /\ reqTask = [c \in Requests |-> NoTask]
  /\ phase = "up" /\ stops = 0 /\ listed = {} /\ missed = {}

RunnerStep(t) ==
  \/ Register(t) \/ Check(t) \/ Load(t) \/ Start(t) \/ ScanReturns(t) \/ Finish(t)
  \/ Complete(t) \/ Verdict(t) \/ FailLoad(t) \/ Fail(t)
  \/ RevokeLoad(t) \/ Revoke(t) \/ Leave(t)

RequestStep(c) == Signal(c) \/ WriteCancelled(c)

StartUp == Restart \/ (\E t \in Tasks : Recover(t)) \/ Serve

Next ==
  \/ \E t \in Tasks : Create(t) \/ RunnerStep(t)
  \/ \E c \in Requests : RequestStep(c) \/ \E t \in Tasks : RequestCancel(c, t)
  \/ Prune \/ Stop \/ Crash \/ Exit \/ StartUp

Spec == Init /\ [][Next]_vars

\* Scans end, requests are answered, and the service manager starts a process
\* that has stopped.
Fairness ==
  /\ \A t \in Tasks : WF_vars(RunnerStep(t))
  /\ \A c \in Requests : WF_vars(RequestStep(c))
  /\ WF_vars(Exit) /\ WF_vars(StartUp)

FairSpec == Spec /\ Fairness

-----------------------------------------------------------------------------
(* Properties *)

\* The variables have their types; goroutines run created tasks only, and the map
\* activeTasks holds only tasks whose goroutine is between its first statement
\* and its deferred ones.
TypeOK ==
  /\ status \in [Tasks -> {"none", "pruned"} \cup Active \cup Ended]
  /\ rank \in [Tasks -> Nat]
  /\ runner \in [Tasks -> {"none", "register", "check", "load", "start", "scan",
                           "finish", "complete", "verdict", "failing", "fail",
                           "revoking", "revoke", "leave", "done"}]
  /\ \A t \in Tasks : status[t] = "none" => runner[t] = "none"
  /\ registered \subseteq {t \in Tasks : runner[t] \notin {"none", "register", "done"}}
  /\ cancelled \subseteq Tasks
  /\ reqPc \in [Requests -> {"idle", "signal", "write", "done"}]
  /\ reqTask \in [Requests -> Tasks \cup {NoTask}]
  /\ \A c \in Requests : reqPc[c] \in {"signal", "write"} => reqTask[c] \in Tasks
  /\ phase \in {"up", "stopping", "down", "recovering"} /\ stops \in Nat
  /\ listed \subseteq Tasks /\ missed \subseteq Tasks

\* The first end of a task is its last: whatever cancellation, completion,
\* failure, shutdown and recovery write afterwards, an ended row keeps its
\* status until it is pruned, and a pruned row does not come back.
EndedOnce ==
  [][\A t \in Tasks :
       /\ status[t] \in Ended => status'[t] \in {status[t], "pruned"}
       /\ status[t] = "pruned" => status'[t] = "pruned"]_vars

\* So many tasks were created after t that recovery may not see its row.
OutOfSight(t) == Cardinality({u \in Created : rank[u] > rank[t]}) >= ListLimit

\* While the server runs, a row that is pending or running has a goroutine that
\* has yet to end it: no early return and no restart leaves a task that looks
\* alive for ever, unless a statement failed or recovery could not see the row.
ActiveHasRunner ==
  Up => \A t \in Tasks \ Faulty :
    status[t] \in Active =>
      OutOfSight(t) \/ runner[t] \notin {"none", "leave", "done"}

\* A scan goes on under a cancelled row only if its context is cancelled too,
\* so that it will stop, or if a request came before the task had registered.
CancelStopsScan ==
  \A t \in Tasks :
    status[t] = "cancelled" /\ runner[t] = "scan" => CtxErr(t) \/ t \in missed

\* Every task ends, by itself, by a request, or after a crash by recovery.
EveryTaskEnds ==
  \A t \in Tasks \ Faulty :
    (status[t] \in Active) ~> (status[t] \in Ended \cup {"pruned"} \/ OutOfSight(t))

=============================================================================
