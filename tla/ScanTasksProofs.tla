--------------------------- MODULE ScanTasksProofs ---------------------------
(***************************************************************************)
(* Proofs about ScanTasks, for every finite set of tasks, every set of     *)
(* requests, every set of faulty tasks, every limit and every bound.       *)
(***************************************************************************)
EXTENDS ScanTasks, TLAPS, FiniteSetTheorems

-----------------------------------------------------------------------------
(* Type correctness *)

\* A step of the goroutine of t either leaves the rows alone or writes the one
\* of t, and only while that row is active.
LEMMA RunnerFrame ==
  ASSUME NEW t \in Tasks, TypeOK, RunnerStep(t)
  PROVE  /\ UNCHANGED <<rank, cancelled, reqVars, envVars, missed>> /\ Up
         /\ runner[t] \notin {"none", "done"}
         /\ \E pc \in {"check", "load", "start", "scan", "finish", "complete",
                       "verdict", "failing", "fail", "revoking", "revoke",
                       "leave", "done"} : Go(t, pc)
         /\ \/ UNCHANGED status
            \/ \E s \in Ended \cup {"running"} : SetIfActive(t, s)
<1> USE DEF RunnerAt, rowVars, Ended
<1>1. CASE Register(t) \/ Check(t) \/ Load(t)
  BY <1>1 DEF Register, Check, Load
<1>2. CASE Start(t)
  BY <1>2 DEF Start
<1>3. CASE ScanReturns(t) \/ Finish(t) \/ Verdict(t)
  BY <1>3 DEF ScanReturns, Finish, Verdict
<1>4. CASE Complete(t) \/ Fail(t) \/ Revoke(t)
  BY <1>4 DEF Complete, Fail, Revoke, WriteEnd
<1>5. CASE FailLoad(t) \/ RevokeLoad(t) \/ Leave(t)
  BY <1>5 DEF FailLoad, RevokeLoad, Leave
<1> QED BY <1>1, <1>2, <1>3, <1>4, <1>5 DEF RunnerStep

\* What a goroutine does to activeTasks.
LEMMA RunnerRegistered ==
  ASSUME NEW t \in Tasks, TypeOK, RunnerStep(t)
  PROVE  \/ runner[t] = "register" /\ Go(t, "check") /\ registered' = registered \cup {t}
         \/ runner[t] = "leave" /\ Go(t, "done") /\ registered' = registered \ {t}
         \/ /\ runner[t] \notin {"register", "leave"} /\ UNCHANGED registered
            /\ \E pc \in {"load", "start", "scan", "finish", "complete", "verdict",
                          "failing", "fail", "revoking", "revoke", "leave"} : Go(t, pc)
<1> USE DEF RunnerAt
<1>1. CASE Register(t) \/ Leave(t)
  BY <1>1 DEF Register, Leave
<1>2. CASE Check(t) \/ Load(t) \/ Start(t)
  BY <1>2 DEF Check, Load, Start
<1>3. CASE ScanReturns(t) \/ Finish(t) \/ Verdict(t)
  BY <1>3 DEF ScanReturns, Finish, Verdict
<1>4. CASE Complete(t) \/ Fail(t) \/ Revoke(t)
  BY <1>4 DEF Complete, Fail, Revoke, WriteEnd
<1>5. CASE FailLoad(t) \/ RevokeLoad(t)
  BY <1>5 DEF FailLoad, RevokeLoad
<1> QED BY <1>1, <1>2, <1>3, <1>4, <1>5 DEF RunnerStep

\* The number of created tasks is a rank.
LEMMA CreatedCounted == Cardinality(Created) \in Nat
<1>1. IsFiniteSet(Created)
  BY BoundAssumption, FS_Subset DEF Created
<1> QED BY <1>1, FS_CardinalityType

\* TypeOK is an invariant: what the goroutines, the requests and recovery keep
\* in their local variables is always what their next statement expects.
THEOREM TypeCorrect == Spec => []TypeOK
<1>1. Init => TypeOK
  BY DEF Init, TypeOK
<1>2. TypeOK /\ [Next]_vars => TypeOK'
  <2> SUFFICES ASSUME TypeOK, [Next]_vars PROVE TypeOK'
    OBVIOUS
  <2> USE DEF TypeOK, Active, Ended, SetIfActive, Go, rowVars, runVars, reqVars, envVars
  <2>1. CASE UNCHANGED vars
    BY <2>1 DEF vars
  <2>2. ASSUME NEW t \in Tasks, Create(t) PROVE TypeOK'
    BY <2>2, CreatedCounted DEF Create
  <2>3. ASSUME NEW t \in Tasks, RunnerStep(t) PROVE TypeOK'
    <3>1. /\ runner' \in [Tasks -> {"none", "register", "check", "load", "start",
                           "scan", "finish", "complete", "verdict", "failing", "fail",
                           "revoking", "revoke", "leave", "done"}]
          /\ status' \in [Tasks -> {"none", "pruned"} \cup Active \cup Ended]
      BY <2>3, RunnerFrame
    <3>2. registered' \subseteq {u \in Tasks : runner'[u] \notin {"none", "register", "done"}}
      BY <2>3, RunnerRegistered
    <3> QED BY <2>3, <3>1, <3>2, RunnerFrame
  <2>4. ASSUME NEW c \in Requests, RequestStep(c) PROVE TypeOK'
    BY <2>4 DEF RequestStep, Signal, WriteCancelled
  <2>5. ASSUME NEW c \in Requests, NEW t \in Tasks, RequestCancel(c, t) PROVE TypeOK'
    BY <2>5 DEF RequestCancel
  <2>6. CASE Prune
    BY <2>6 DEF Prune
  <2>7. CASE Stop
    BY <2>7 DEF Stop
  <2>8. CASE Crash \/ Exit
    BY <2>8 DEF Crash, Exit, Die
  <2>9. CASE StartUp
    BY <2>9 DEF StartUp, Restart, Recover, Serve, Rows, Created
  <2> QED BY <2>1, <2>2, <2>3, <2>4, <2>5, <2>6, <2>7, <2>8, <2>9 DEF Next
<1> QED BY <1>1, <1>2, PTL DEF Spec


-----------------------------------------------------------------------------
(* Nobody competes with recovery *)

\* While no server runs there are no goroutines, and the rows that recovery has
\* listed stay active until it updates them: its unconditional Update is safe.
RecoveryInv ==
  /\ ~Up => \A t \in Tasks : runner[t] \in {"none", "done"}
  /\ phase # "recovering" => listed = {}
  /\ \A t \in listed : status[t] \in Active

\* RecoveryInv is an invariant.
THEOREM RecoveryAlone == Spec => []RecoveryInv
<1>1. Init => RecoveryInv
  BY DEF Init, RecoveryInv, Up
<1>2. TypeOK /\ RecoveryInv /\ [Next]_vars => RecoveryInv'
  <2> SUFFICES ASSUME TypeOK, RecoveryInv, [Next]_vars PROVE RecoveryInv'
    OBVIOUS
  <2> USE DEF RecoveryInv, Up, rowVars, runVars, reqVars, envVars
  <2>1. CASE UNCHANGED vars
    BY <2>1 DEF vars
  <2>2. ASSUME NEW t \in Tasks, Create(t) PROVE RecoveryInv'
    BY <2>2 DEF Create
  <2>3. ASSUME NEW t \in Tasks, RunnerStep(t) PROVE RecoveryInv'
    BY <2>3, RunnerFrame
  <2>4. ASSUME NEW c \in Requests, RequestStep(c) PROVE RecoveryInv'
    BY <2>4 DEF RequestStep, Signal, WriteCancelled
  <2>5. ASSUME NEW c \in Requests, NEW t \in Tasks, RequestCancel(c, t)
        PROVE  RecoveryInv'
    BY <2>5 DEF RequestCancel
  <2>6. CASE Prune \/ Stop
    BY <2>6 DEF Prune, Stop
  <2>7. CASE Crash \/ Exit
    BY <2>7 DEF Crash, Exit, Die
  <2>8. CASE Restart \/ Serve
    BY <2>8 DEF Restart, Serve
  <2>9. ASSUME NEW t \in Tasks, Recover(t) PROVE RecoveryInv'
    BY <2>9 DEF Recover, TypeOK
  <2> QED
    BY <2>1, <2>2, <2>3, <2>4, <2>5, <2>6, <2>7, <2>8, <2>9 DEF Next, StartUp
<1> QED BY <1>1, <1>2, TypeCorrect, PTL DEF Spec

\* One step respects the ends of the tasks: UpdateIfActive writes active rows
\* only, recovery writes rows that are active still.
LEMMA EndedStep ==
  ASSUME TypeOK, RecoveryInv, [Next]_vars, NEW t \in Tasks
  PROVE  /\ status[t] \in Ended => status'[t] \in {status[t], "pruned"}
         /\ status[t] = "pruned" => status'[t] = "pruned"
<1> USE DEF Ended, Active, TypeOK, SetIfActive, rowVars
<1>1. CASE UNCHANGED status
  BY <1>1
<1>2. ASSUME NEW u \in Tasks, Create(u) \/ RunnerStep(u)
      PROVE  /\ status[t] \in Ended => status'[t] \in {status[t], "pruned"}
             /\ status[t] = "pruned" => status'[t] = "pruned"
  BY <1>2, RunnerFrame DEF Create
<1>3. ASSUME NEW c \in Requests, WriteCancelled(c)
      PROVE  /\ status[t] \in Ended => status'[t] \in {status[t], "pruned"}
             /\ status[t] = "pruned" => status'[t] = "pruned"
  BY <1>3 DEF WriteCancelled
<1>4. CASE Prune
  BY <1>4 DEF Prune
<1>5. ASSUME NEW u \in Tasks, Recover(u)
      PROVE  /\ status[t] \in Ended => status'[t] \in {status[t], "pruned"}
             /\ status[t] = "pruned" => status'[t] = "pruned"
  BY <1>5 DEF Recover, RecoveryInv
<1> QED
  BY <1>1, <1>2, <1>3, <1>4, <1>5
  DEF Next, RequestStep, Signal, RequestCancel, Stop, Crash, Exit, Die, StartUp,
      Restart, Serve, vars

\* The first end of a task is its last.
THEOREM FirstEndIsLast == Spec => EndedOnce
<1>1. TypeOK /\ RecoveryInv /\ [Next]_vars =>
        [\A t \in Tasks :
           /\ status[t] \in Ended => status'[t] \in {status[t], "pruned"}
           /\ status[t] = "pruned" => status'[t] = "pruned"]_vars
  BY EndedStep
<1> QED BY <1>1, TypeCorrect, RecoveryAlone, PTL DEF Spec, EndedOnce

-----------------------------------------------------------------------------
(* Cancelling *)

\* Only a row made running by the goroutine is scanned.
LEMMA ScanStarts ==
  ASSUME NEW t \in Tasks, TypeOK, RunnerStep(t), runner'[t] = "scan"
  PROVE  status'[t] = "running"
BY DEF RunnerStep, Register, Check, Load, Start, ScanReturns, Finish, Complete,
       Verdict, FailLoad, Fail, RevokeLoad, Revoke, Leave, WriteEnd, Go, TypeOK,
       SetIfActive

\* A request that has signalled has stopped the goroutine, or came too early for
\* it, or there is none: the function to call is in the map from the first
\* statement of a goroutine to its deferred ones.
CancelInv ==
  /\ \A t \in Tasks : runner[t] \notin {"none", "register", "done"} => t \in registered
  /\ \A c \in Requests : reqPc[c] \in {"signal", "write"} => status[reqTask[c]] # "none"
  /\ \A c \in Requests : reqPc[c] = "write" =>
       \/ reqTask[c] \in cancelled \cup missed
       \/ runner[reqTask[c]] \in {"none", "done"}
  /\ CancelStopsScan

\* CancelInv is an invariant.
THEOREM CancelInOrder == Spec => []CancelInv
<1>1. Init => CancelInv
  BY DEF Init, CancelInv, CancelStopsScan
<1>2. TypeOK /\ RecoveryInv /\ CancelInv /\ [Next]_vars => CancelInv'
  <2> SUFFICES ASSUME TypeOK, RecoveryInv, CancelInv, [Next]_vars PROVE CancelInv'
    OBVIOUS
  <2> USE DEF CancelInv, CancelStopsScan, CtxErr, TypeOK, Active, Ended,
              rowVars, runVars, reqVars, envVars
  <2>1. CASE UNCHANGED vars
    BY <2>1 DEF vars
  <2>2. ASSUME NEW t \in Tasks, Create(t) PROVE CancelInv'
    BY <2>2 DEF Create
  <2>3. ASSUME NEW t \in Tasks, RunnerStep(t) PROVE CancelInv'
    <3>1. /\ UNCHANGED <<rank, cancelled, reqVars, envVars, missed>>
          /\ \A u \in Tasks : u # t => runner'[u] = runner[u] /\ status'[u] = status[u]
          /\ \A u \in Tasks : status[u] # "none" => status'[u] # "none"
          /\ runner[t] \notin {"none", "done"} /\ status[t] # "none"
      BY <2>3, RunnerFrame DEF Go, SetIfActive
    <3>2. \A u \in Tasks : runner'[u] \notin {"none", "register", "done"} => u \in registered'
      <4>1. CASE registered' = registered \cup {t}
        BY <3>1, <4>1
      <4>2. CASE registered' = registered \ {t} /\ Go(t, "done")
        BY <3>1, <4>2 DEF Go
      <4>3. CASE runner[t] # "register" /\ UNCHANGED registered
        BY <3>1, <4>3
      <4> QED BY <2>3, <4>1, <4>2, <4>3, RunnerRegistered
    <3>3. runner'[t] = "scan" => status'[t] = "running"
      BY <2>3, ScanStarts
    <3>4. \A c \in Requests : reqPc[c] = "write" =>
            \/ reqTask[c] \in cancelled \cup missed
            \/ runner'[reqTask[c]] \in {"none", "done"}
      BY <3>1
    <3> QED BY <3>1, <3>2, <3>3, <3>4
  <2>4. ASSUME NEW c \in Requests, Signal(c) PROVE CancelInv'
    BY <2>4 DEF Signal
  <2>5. ASSUME NEW c \in Requests, WriteCancelled(c) PROVE CancelInv'
    BY <2>5 DEF WriteCancelled, SetIfActive
  <2>6. ASSUME NEW c \in Requests, NEW t \in Tasks, RequestCancel(c, t) PROVE CancelInv'
    BY <2>6 DEF RequestCancel
  <2>7. CASE Prune \/ Stop
    BY <2>7 DEF Prune, Stop
  <2>8. CASE Crash \/ Exit
    BY <2>8 DEF Crash, Exit, Die
  <2>9. CASE Restart \/ Serve
    BY <2>9 DEF Restart, Serve
  <2>10. ASSUME NEW t \in Tasks, Recover(t) PROVE CancelInv'
    BY <2>10 DEF Recover, RecoveryInv, Up
  <2> QED
    BY <2>1, <2>2, <2>3, <2>4, <2>5, <2>6, <2>7, <2>8, <2>9, <2>10
    DEF Next, StartUp, RequestStep
<1> QED BY <1>1, <1>2, TypeCorrect, RecoveryAlone, PTL DEF Spec

\* A scan under a cancelled row will stop, unless the request came before the
\* task had registered.
THEOREM CancelReachesScan == Spec => []CancelStopsScan
BY CancelInOrder, PTL DEF CancelInv

-----------------------------------------------------------------------------
(* Nobody is forgotten *)

\* A goroutine whose statements work leaves only when its row has ended.
LEMMA LeavesEnded ==
  ASSUME NEW t \in Tasks \ Faulty, TypeOK, RunnerStep(t),
         runner'[t] \in {"leave", "done"}
  PROVE  status'[t] \notin Active \/ (runner[t] = "leave" /\ UNCHANGED status)
<1> USE DEF Go, TypeOK, RunnerAt, Active, Ended, SetIfActive, rowVars
<1>1. CASE Register(t) \/ Check(t) \/ Load(t) \/ Start(t)
  BY <1>1 DEF Register, Check, Load, Start, Rows, Created
<1>2. CASE ScanReturns(t) \/ Finish(t) \/ Verdict(t)
  BY <1>2 DEF ScanReturns, Finish, Verdict
<1>3. CASE Complete(t) \/ Fail(t) \/ Revoke(t)
  BY <1>3 DEF Complete, Fail, Revoke, WriteEnd
<1>4. CASE FailLoad(t) \/ RevokeLoad(t) \/ Leave(t)
  BY <1>4 DEF FailLoad, RevokeLoad, Leave, Rows, Created
<1> QED BY <1>1, <1>2, <1>3, <1>4 DEF RunnerStep

\* Tasks are only ever created after a task, so what is out of the sight of
\* recovery stays so.
LEMMA OutOfSightStays ==
  ASSUME TypeOK, [Next]_vars, NEW t \in Created, OutOfSight(t)
  PROVE  OutOfSight(t)'
<1> DEFINE Later == {u \in Created : rank[u] > rank[t]}
<1>1. /\ Created \subseteq Created'
      /\ \A u \in Created : rank'[u] = rank[u]
  <2>1. CASE UNCHANGED rowVars
    BY <2>1 DEF rowVars, Created
  <2>2. ASSUME NEW u \in Tasks, Create(u)
        PROVE  Created \subseteq Created' /\ \A v \in Created : rank'[v] = rank[v]
    BY <2>2 DEF Create, Created, TypeOK
  <2>3. ASSUME NEW u \in Tasks, RunnerStep(u)
        PROVE  Created \subseteq Created' /\ \A v \in Created : rank'[v] = rank[v]
    BY <2>3, RunnerFrame DEF Created, SetIfActive, Active, Ended, TypeOK
  <2>4. ASSUME NEW c \in Requests, WriteCancelled(c)
        PROVE  Created \subseteq Created' /\ \A v \in Created : rank'[v] = rank[v]
    BY <2>4 DEF WriteCancelled, Created, SetIfActive, TypeOK
  <2>5. CASE Prune
    BY <2>5 DEF Prune, Created
  <2>6. ASSUME NEW u \in Tasks, Recover(u)
        PROVE  Created \subseteq Created' /\ \A v \in Created : rank'[v] = rank[v]
    BY <2>6 DEF Recover, Created, TypeOK
  <2> QED
    BY <2>1, <2>2, <2>3, <2>4, <2>5, <2>6
    DEF Next, RequestStep, Signal, RequestCancel, Stop, Crash, Exit, Die,
        StartUp, Restart, Serve, vars
<1>2. Later \subseteq Later'
  BY <1>1
<1>3. IsFiniteSet(Later) /\ IsFiniteSet(Later')
  BY BoundAssumption, FS_Subset DEF Created
<1>4. Cardinality(Later) <= Cardinality(Later')
  BY <1>2, <1>3, FS_Subset
<1>5. Cardinality(Later) \in Nat /\ Cardinality(Later') \in Nat
  BY <1>3, FS_CardinalityType
<1>6. Cardinality(Later) >= ListLimit
  BY DEF OutOfSight
<1>7. Cardinality(Later') >= ListLimit
  BY <1>4, <1>5, <1>6, BoundAssumption
<1> QED BY <1>7 DEF OutOfSight

\* What recovery does not list is out of its sight.
LEMMA RestartLists ==
  ASSUME TypeOK, Restart, NEW t \in Tasks, status[t] \in Active, ~OutOfSight(t)
  PROVE  t \in listed'
<1> DEFINE Newer == {u \in Rows : rank[u] > rank[t]}
           Later == {u \in Created : rank[u] > rank[t]}
<1>1. Newer \subseteq Later
  BY DEF Rows
<1>2. IsFiniteSet(Later)
  BY BoundAssumption, FS_Subset DEF Created
<1>3. Cardinality(Newer) <= Cardinality(Later) /\ Cardinality(Newer) \in Nat
  BY <1>1, <1>2, FS_Subset, FS_CardinalityType
<1>4. Cardinality(Later) < ListLimit
  BY <1>2, FS_CardinalityType, BoundAssumption DEF OutOfSight
<1>5. Cardinality(Newer) < ListLimit
  BY <1>2, <1>3, <1>4, FS_CardinalityType, BoundAssumption
<1>6. t \in Rows
  BY DEF Rows, Created, Active
<1> QED BY <1>5, <1>6 DEF Restart

\* The part of a task t without faults: its goroutine starts with its row, and
\* a row that is active without one is on the list of recovery or out of sight.
AttendedInv ==
  \A t \in Tasks \ Faulty :
    /\ status[t] # "none" => runner[t] # "none"
    /\ /\ phase \in {"up", "stopping", "recovering"}
       /\ status[t] \in Active /\ runner[t] \in {"leave", "done"}
       => t \in listed \/ OutOfSight(t)

\* AttendedInv is an invariant.
THEOREM AllAttended == Spec => []AttendedInv
<1>1. Init => AttendedInv
  BY DEF Init, AttendedInv, Active
<1>2. TypeOK /\ RecoveryInv /\ AttendedInv /\ [Next]_vars => AttendedInv'
  <2> SUFFICES ASSUME TypeOK, RecoveryInv, AttendedInv, [Next]_vars,
                      NEW t \in Tasks \ Faulty
               PROVE  /\ status'[t] # "none" => runner'[t] # "none"
                      /\ /\ phase' \in {"up", "stopping", "recovering"}
                         /\ status'[t] \in Active /\ runner'[t] \in {"leave", "done"}
                         => t \in listed' \/ OutOfSight(t)'
    BY DEF AttendedInv
  <2> DEFINE Good == /\ status[t] # "none" => runner[t] # "none"
                     /\ /\ phase \in {"up", "stopping", "recovering"}
                        /\ status[t] \in Active /\ runner[t] \in {"leave", "done"}
                        => t \in listed \/ OutOfSight(t)
  <2>0. Good /\ (status[t] \in Active /\ OutOfSight(t) => OutOfSight(t)')
    BY OutOfSightStays DEF AttendedInv, Created, Active
  <2> HIDE DEF Good
  <2> USE DEF TypeOK, Active, Ended, rowVars, runVars, reqVars, envVars
  <2>1. CASE UNCHANGED vars
    BY <2>0, <2>1 DEF vars, Good
  <2>2. ASSUME NEW u \in Tasks, Create(u) PROVE Good'
    BY <2>0, <2>2 DEF Create, Good
  <2>3. ASSUME NEW u \in Tasks, RunnerStep(u) PROVE Good'
    <3>1. CASE u = t
      <4>1. /\ UNCHANGED <<phase, listed>>
            /\ runner[t] \notin {"none", "done"} /\ runner'[t] # "none"
        BY <2>3, <3>1, RunnerFrame DEF Go
      <4>2. runner'[t] \in {"leave", "done"} =>
              status'[t] \notin Active \/ (runner[t] = "leave" /\ UNCHANGED status)
        BY <2>3, <3>1, LeavesEnded
      <4> QED BY <2>0, <4>1, <4>2 DEF Good
    <3>2. CASE u # t
      <4>1. /\ UNCHANGED <<phase, listed>>
            /\ runner'[t] = runner[t] /\ status'[t] = status[t]
        BY <2>3, <3>2, RunnerFrame DEF Go, SetIfActive
      <4> QED BY <2>0, <4>1 DEF Good
    <3> QED BY <3>1, <3>2
  <2>4. ASSUME NEW c \in Requests, RequestStep(c) PROVE Good'
    BY <2>0, <2>4 DEF RequestStep, Signal, WriteCancelled, SetIfActive, Good
  <2>5. ASSUME NEW c \in Requests, NEW u \in Tasks, RequestCancel(c, u) PROVE Good'
    BY <2>0, <2>5 DEF RequestCancel, Good
  <2>6. CASE Prune \/ Stop
    BY <2>0, <2>6 DEF Prune, Stop, Good
  <2>7. CASE Crash \/ Exit
    BY <2>0, <2>7 DEF Crash, Exit, Die, Good
  <2>8. CASE Restart
    <3>1. status[t] \in Active => t \in listed' \/ OutOfSight(t)
      BY <2>8, RestartLists
    <3>2. UNCHANGED <<rowVars, runVars>>
      BY <2>8 DEF Restart
    <3> QED BY <2>0, <3>1, <3>2 DEF Good
  <2>9. CASE Serve
    BY <2>0, <2>9 DEF Serve, Good
  <2>10. ASSUME NEW u \in Tasks, Recover(u) PROVE Good'
    <3>1. /\ UNCHANGED <<runVars, phase>>
          /\ status' = [status EXCEPT ![u] = "failed"] /\ listed' = listed \ {u}
      BY <2>10 DEF Recover
    <3>0. status[u] \in Active
      BY <2>10 DEF Recover, RecoveryInv
    <3>2. CASE u = t
      BY <2>0, <3>0, <3>1, <3>2 DEF Good
    <3>3. CASE u # t
      <4>1. status'[t] = status[t] /\ (t \in listed => t \in listed')
        BY <3>1, <3>3
      <4> QED BY <2>0, <3>1, <4>1 DEF Good
    <3> QED BY <3>2, <3>3
  <2> HIDE DEF TypeOK, Active, Ended, rowVars, runVars, reqVars, envVars
  <2> QED
    BY <2>1, <2>2, <2>3, <2>4, <2>5, <2>6, <2>7, <2>8, <2>9, <2>10
    DEF Next, StartUp, Good
<1> QED BY <1>1, <1>2, TypeCorrect, RecoveryAlone, PTL DEF Spec

\* While the server runs, an active row has a goroutine that has yet to end it.
THEOREM NobodyForgotten == Spec => []ActiveHasRunner
<1>1. AttendedInv /\ RecoveryInv => ActiveHasRunner
  BY DEF AttendedInv, RecoveryInv, ActiveHasRunner, Up, Active
<1> QED BY <1>1, AllAttended, RecoveryAlone, PTL

=============================================================================
