--------------------------- MODULE ScanQueueProofs ---------------------------
(***************************************************************************)
(* Proofs about ScanQueue, for every set of callers, events, mounts,       *)
(* providers and paths and every bound.                                    *)
(***************************************************************************)
EXTENDS ScanQueue, TLAPS, FiniteSetTheorems, WellFoundedInduction

-----------------------------------------------------------------------------
(* Type correctness *)

\* The initial state is well typed.
LEMMA InitTyped == Init => TypeOK
<1> SUFFICES ASSUME Init PROVE TypeOK
  OBVIOUS
<1>1. request \in [{} -> Requests] /\ Begun = {}
  BY DEF Init, Begun
<1> QED
  <2>1. request \in [Begun -> Requests] /\ Begun \subseteq Events
    BY <1>1
  <2>2. /\ runAfter \in [Events -> Nat]
        /\ target \in [Mounts -> {"enabled", "disabled", "deleted"}]
        /\ callPc \in [Callers -> {"idle", "find", "touch", "upsert", "cleanup"}]
        /\ callEvent \in [Callers -> Events \cup {NoEvent}]
        /\ callRow \in [Callers -> Events \cup {NoEvent}]
        /\ run \in [Events -> {"none", "scan", "unlock", "release", "notify"}]
    BY DEF Init
  <2>3. /\ \A c \in Callers : callPc[c] = "idle"
        /\ \A r \in Events : run[r] = "none"
    BY DEF Init
  <2>4. /\ queue = {} /\ accepted = {} /\ served = {} /\ dropped = {}
        /\ deferred = {} /\ excluded = {} /\ active = {}
        /\ worker = "acquire" /\ picked = NoEvent /\ phase = "up"
        /\ slots = 0 /\ now = 0 /\ stops = 0 /\ admin = 0
    BY DEF Init
  <2>5. wake \in BOOLEAN
    BY DEF Init
  <2> QED
    BY <2>1, <2>2, <2>3, <2>4, <2>5 DEF TypeOK, WorkerHoldsLock

\* Every step of an enqueue call keeps the types.
LEMMA CallTyped ==
  ASSUME TypeOK, NEW c \in Callers, CallStep(c)
  PROVE  TypeOK'
<1> USE DEF TypeOK, Begun, WorkerHoldsLock, AtStep, Return, Accept,
            dbVars, workVars, envVars
<1>1. CASE FindCovering(c)
  BY <1>1 DEF FindCovering, CoveringRows
<1>2. CASE Touch(c)
  BY <1>2 DEF Touch
<1>3. CASE Upsert(c)
  BY <1>3 DEF Upsert, UpsertRow
<1>4. CASE DeleteCovered(c)
  BY <1>4 DEF DeleteCovered
<1>5. CASE CallFails(c)
  BY <1>5 DEF CallFails
<1> QED BY <1>1, <1>2, <1>3, <1>4, <1>5 DEF CallStep

\* A new enqueue call keeps the types.
LEMMA BeginTyped ==
  ASSUME TypeOK, NEW c \in Callers, NEW e \in Events, NEW q \in Requests,
         BeginCall(c, e, q)
  PROVE  TypeOK'
<1>1. q.delay \in Nat
  BY ScopeAssumption DEF RequestType
<1>2. Begun' = Begun \cup {e}
  BY DEF BeginCall, Begun
<1>3. request' \in [Begun' -> Requests]
  BY <1>2 DEF BeginCall, TypeOK, Begun
<1>4. runAfter' \in [Events -> Nat]
  BY <1>1 DEF BeginCall, TypeOK
<1> QED
  BY <1>2, <1>3, <1>4
  DEF TypeOK, BeginCall, WorkerHoldsLock, workVars, envVars

\* Every step of the worker keeps the types.
LEMMA WorkerTyped ==
  ASSUME TypeOK, WorkerStep
  PROVE  TypeOK'
<1> USE DEF TypeOK, Begun, WorkerHoldsLock, WorkerAt, dbVars, callVars, envVars
<1>0. \A r \in Begun : Provider(r) \in Providers
  BY ScopeAssumption DEF Provider, RequestType
<1>1. CASE WakeUp
  BY <1>1 DEF WakeUp
<1>2. CASE AcquireSlot
  BY <1>2 DEF AcquireSlot, DueRows
<1>3. CASE SnapshotProviders
  BY <1>3 DEF SnapshotProviders
<1>4. CASE LoadDue
  BY <1>4 DEF LoadDue, FirstDue, DueRows
<1>5. CASE TryLockProvider
  BY <1>0, <1>5 DEF TryLockProvider
<1>6. CASE ValidateTarget
  BY <1>6 DEF ValidateTarget
<1>7. CASE DiscardRow
  BY <1>7 DEF DiscardRow, GiveUp, CoveredBy
<1>8. CASE Dequeue
  BY <1>8 DEF Dequeue, StartScan, GiveUp, CoveredBy
<1> QED
  BY <1>1, <1>2, <1>3, <1>4, <1>5, <1>6, <1>7, <1>8 DEF WorkerStep

\* Every step of a scan goroutine keeps the types.
LEMMA RunTyped ==
  ASSUME TypeOK, NEW r \in Events, RunStep(r)
  PROVE  TypeOK'
<1> USE DEF TypeOK, Begun, WorkerHoldsLock, RunAt, dbVars, callVars, envVars
<1>1. CASE FinishScan(r)
  BY <1>1 DEF FinishScan
<1>2. CASE UnlockProvider(r)
  BY <1>2 DEF UnlockProvider
<1>3. CASE ReleaseSlot(r)
  BY <1>3 DEF ReleaseSlot
<1>4. CASE Notify(r)
  BY <1>4 DEF Notify
<1> QED BY <1>1, <1>2, <1>3, <1>4 DEF RunStep

\* Every step of the environment keeps the types.
LEMMA EnvTyped ==
  ASSUME TypeOK,
         (\E m \in Mounts : ChangeMount(m)) \/ Tick \/ Stop \/ Crash \/ Exit
         \/ Restart
  PROVE  TypeOK'
<1> USE DEF TypeOK, Begun, WorkerHoldsLock, dbVars, callVars, workVars, envVars
<1>1. ASSUME NEW m \in Mounts, ChangeMount(m) PROVE TypeOK'
  BY <1>1 DEF ChangeMount
<1>2. CASE Tick
  BY <1>2, BoundAssumption DEF Tick
<1>3. CASE Stop
  BY <1>3 DEF Stop
<1>4. ASSUME Die, stops' \in Nat PROVE TypeOK'
  <2>1. /\ callPc' \in [Callers -> {"idle", "find", "touch", "upsert", "cleanup"}]
        /\ callEvent' \in [Callers -> Events \cup {NoEvent}]
        /\ callRow' \in [Callers -> Events \cup {NoEvent}]
        /\ run' \in [Events -> {"none", "scan", "unlock", "release", "notify"}]
    BY <1>4 DEF Die
  <2>2. /\ \A c \in Callers : callPc'[c] = "idle"
        /\ \A r \in Events : run'[r] = "none"
    BY <1>4 DEF Die
  <2>3. wake' \in BOOLEAN
    BY <1>4 DEF Die
  <2>4. worker' = "exited" /\ slots' = 0 /\ phase' = "down"
    BY <1>4 DEF Die
  <2> QED BY <1>4, <2>1, <2>2, <2>3, <2>4 DEF Die
<1>5. stops' \in Nat => (Crash \/ Exit => TypeOK')
  BY <1>4 DEF Crash, Exit
<1>7. CASE Crash \/ Exit
  BY <1>5, <1>7 DEF Crash, Exit
<1>6. CASE Restart
  BY <1>6 DEF Restart
<1> QED BY <1>1, <1>2, <1>3, <1>6, <1>7

\* TypeOK is an invariant of the queue: every local variable that a step reads
\* was set by the step before it.
THEOREM TypeCorrect == Spec => []TypeOK
<1>1. TypeOK /\ [Next]_vars => TypeOK'
  <2> SUFFICES ASSUME TypeOK, [Next]_vars PROVE TypeOK'
    OBVIOUS
  <2>1. CASE UNCHANGED vars
    BY <2>1 DEF vars, dbVars, callVars, workVars, envVars, TypeOK, Begun,
                WorkerHoldsLock
  <2> QED
    BY <2>1, BeginTyped, CallTyped, WorkerTyped, RunTyped, EnvTyped DEF Next
<1> QED BY <1>1, InitTyped, PTL DEF Spec

-----------------------------------------------------------------------------
(* Provider locks *)

\* What the provider locks rest on: the worker's own provider is not being
\* scanned, and the snapshot it queries with can only be too large.
LockInv ==
  /\ LocksAccounted
  /\ ProviderSerial
  /\ LockIsFree
  /\ WorkerHoldsLock => \A r \in Scanning : Provider(r) # Provider(picked)
  /\ worker = "load" => active \subseteq excluded
  /\ phase = "down" => worker = "exited"

\* Enqueue calls, admins and the clock leave the worker's variables alone.
LEMMA WorkUntouched ==
  ASSUME TypeOK,
         \/ \E c \in Callers, e \in Events, q \in Requests : BeginCall(c, e, q)
         \/ \E c \in Callers : CallStep(c)
         \/ \E m \in Mounts : ChangeMount(m)
         \/ Tick \/ Stop \/ UNCHANGED vars
  PROVE  UNCHANGED workVars /\ (phase' = "down" => phase = "down")
BY DEF BeginCall, CallStep, FindCovering, Touch, Upsert, DeleteCovered,
       CallFails, ChangeMount, Tick, Stop, workVars, envVars, vars

\* What an event asked for never changes.
LEMMA RequestKept ==
  ASSUME TypeOK, [Next]_vars
  PROVE  /\ Begun \subseteq Begun'
         /\ \A r \in Begun : request'[r] = request[r] /\ Provider(r)' = Provider(r)
<1>1. CASE \E c \in Callers, e \in Events, q \in Requests : BeginCall(c, e, q)
  <2>1. PICK c \in Callers, e \in Events, q \in Requests : BeginCall(c, e, q)
    BY <1>1
  <2>2. request' = [x \in Begun \cup {e} |-> IF x = e THEN q ELSE request[x]]
        /\ e \notin Begun
    BY <2>1 DEF BeginCall
  <2> QED BY <2>2 DEF Begun, Provider
<1>2. CASE UNCHANGED request
  BY <1>2 DEF Begun, Provider
<1>3. CASE \E c \in Callers : CallStep(c)
  <2>1. UNCHANGED request
    BY <1>3 DEF CallStep, FindCovering, Touch, Upsert, DeleteCovered, CallFails
  <2> QED BY <2>1, <1>2
<1>4. CASE WorkerStep
  <2>1. UNCHANGED request
    BY <1>4 DEF WorkerStep, WakeUp, AcquireSlot, SnapshotProviders, LoadDue,
       TryLockProvider, ValidateTarget, DiscardRow, Dequeue, callVars
  <2> QED BY <2>1, <1>2
<1>5. CASE \E r \in Events : RunStep(r)
  <2>1. UNCHANGED request
    BY <1>5 DEF RunStep, FinishScan, UnlockProvider, ReleaseSlot, Notify, callVars
  <2> QED BY <2>1, <1>2
<1>6. CASE (\E m \in Mounts : ChangeMount(m)) \/ Tick \/ Stop \/ Crash \/ Exit
           \/ Restart \/ UNCHANGED vars
  <2>1. UNCHANGED request
    BY <1>6 DEF ChangeMount, Tick, Stop, Crash, Exit, Die, Restart, vars, callVars
  <2> QED BY <2>1, <1>2
<1> QED BY <1>1, <1>3, <1>4, <1>5, <1>6 DEF Next

\* A step that leaves the worker's variables alone keeps the locks in order.
LEMMA LockFrame ==
  ASSUME TypeOK, LockInv, UNCHANGED workVars,
         phase' = "down" => phase = "down",
         \A r \in Begun : Provider(r)' = Provider(r)
  PROVE  LockInv'
<1>1. Scanning' = Scanning /\ Scanning \subseteq Begun
  BY DEF Scanning, TypeOK, workVars
<1>2. {Provider(r) : r \in Scanning}' = {Provider(r) : r \in Scanning}
  BY <1>1
<1>3. WorkerHoldsLock' = WorkerHoldsLock /\ (WorkerHoldsLock => picked \in Begun)
  BY DEF WorkerHoldsLock, workVars, TypeOK
<1>4. worker = "lock" => picked \in Begun
  BY DEF TypeOK
<1>5. UNCHANGED <<active, excluded, worker, picked>>
  BY DEF workVars
<1>6. LocksAccounted'
  BY <1>2, <1>3, <1>5 DEF LockInv, LocksAccounted
<1>7. ProviderSerial'
  BY <1>1 DEF LockInv, ProviderSerial
<1> QED
  BY <1>1, <1>3, <1>4, <1>5, <1>6, <1>7 DEF LockInv, LockIsFree

\* The worker's steps keep the locks in order: it hands the lock over or gives
\* it back on every path.
LEMMA LockWorker ==
  ASSUME TypeOK, LockInv, WorkerStep
  PROVE  LockInv'
<1> USE DEF LockInv, LocksAccounted, ProviderSerial, LockIsFree, WorkerHoldsLock,
            WorkerAt, Provider, dbVars, callVars, envVars
<1>0. Scanning \subseteq Begun
  BY DEF Scanning, TypeOK
<1>1. CASE WakeUp
  BY <1>1 DEF WakeUp, Scanning
<1>2. CASE AcquireSlot
  BY <1>2 DEF AcquireSlot, Scanning
<1>3. CASE SnapshotProviders
  BY <1>3 DEF SnapshotProviders, Scanning
<1>4. CASE LoadDue
  BY <1>4 DEF LoadDue, FirstDue, Scanning
<1>5. CASE TryLockProvider
  BY <1>5 DEF TryLockProvider, Scanning
<1>6. CASE ValidateTarget
  BY <1>6 DEF ValidateTarget, Scanning
<1>7. CASE DiscardRow
  BY <1>7 DEF DiscardRow, GiveUp, Scanning
<1>8. CASE Dequeue
  <2>1. CASE run' = [run EXCEPT ![picked] = "scan"] /\ StartScan
    <3>1. picked \in Begun /\ picked \in Events
      BY <1>8 DEF Dequeue, TypeOK
    <3>2. Scanning' = Scanning \cup {picked}
      BY <2>1, <3>1 DEF Scanning, TypeOK
    <3> QED
      BY <1>8, <2>1, <3>1, <3>2 DEF Dequeue, StartScan
  <2>2. CASE GiveUp("wait") /\ UNCHANGED run
    BY <1>8, <2>2 DEF Dequeue, GiveUp, Scanning
  <2> QED BY <1>8, <2>1, <2>2 DEF Dequeue, StartScan
<1> QED
  BY <1>1, <1>2, <1>3, <1>4, <1>5, <1>6, <1>7, <1>8 DEF WorkerStep

\* A scan goroutine gives back exactly the lock it holds.
LEMMA LockRun ==
  ASSUME TypeOK, LockInv, NEW r \in Events, RunStep(r)
  PROVE  LockInv'
<1> USE DEF LockInv, LocksAccounted, ProviderSerial, LockIsFree, WorkerHoldsLock,
            RunAt, Provider, dbVars, callVars, envVars
<1>1. CASE FinishScan(r)
  <2>1. Scanning' = Scanning
    BY <1>1 DEF FinishScan, Scanning, TypeOK
  <2> QED BY <1>1, <2>1 DEF FinishScan
<1>2. CASE UnlockProvider(r)
  <2>1. r \in Scanning /\ Scanning' = Scanning \ {r}
    BY <1>2 DEF UnlockProvider, Scanning, TypeOK
  <2>2. {Provider(s) : s \in Scanning}' = {Provider(s) : s \in Scanning} \ {Provider(r)}
    BY <1>2, <2>1 DEF UnlockProvider
  <2>3. LocksAccounted'
    BY <1>2, <2>1, <2>2 DEF UnlockProvider
  <2> QED BY <1>2, <2>1, <2>3 DEF UnlockProvider
<1>3. CASE ReleaseSlot(r)
  <2>1. Scanning' = Scanning
    BY <1>3 DEF ReleaseSlot, Scanning, TypeOK
  <2> QED BY <1>3, <2>1 DEF ReleaseSlot
<1>4. CASE Notify(r)
  <2>1. Scanning' = Scanning
    BY <1>4 DEF Notify, Scanning, TypeOK
  <2> QED BY <1>4, <2>1 DEF Notify
<1> QED BY <1>1, <1>2, <1>3, <1>4 DEF RunStep

\* A dead process holds no locks, and a new one starts with none.
LEMMA LockProcess ==
  ASSUME TypeOK, LockInv, Crash \/ Exit \/ Restart
  PROVE  LockInv'
<1> USE DEF LockInv, LocksAccounted, ProviderSerial, LockIsFree, WorkerHoldsLock
<1>1. CASE Crash \/ Exit
  <2>1. Scanning' = {} /\ active' = {} /\ worker' = "exited" /\ phase' = "down"
    BY <1>1 DEF Crash, Exit, Die, Scanning
  <2> QED BY <2>1
<1>2. CASE Restart
  <2>1. /\ UNCHANGED <<active, excluded, picked>> /\ worker' = "acquire"
        /\ phase' = "up" /\ phase = "down"
        /\ Scanning' = Scanning
        /\ {Provider(r) : r \in Scanning}' = {Provider(r) : r \in Scanning}
        /\ \A r \in Events : Provider(r)' = Provider(r)
    BY <1>2 DEF Restart, Scanning, Provider, dbVars, callVars
  <2>2. Scanning \subseteq Events
    BY DEF Scanning
  <2> QED BY <2>1, <2>2
<1> QED BY <1>1, <1>2

\* LockInv is an invariant.
THEOREM LocksInOrder == Spec => []LockInv
<1>1. Init => LockInv
  <2> SUFFICES ASSUME Init PROVE LockInv
    OBVIOUS
  <2>1. Scanning = {} /\ active = {} /\ worker = "acquire" /\ phase = "up"
    BY DEF Init, Scanning
  <2> QED
    BY <2>1 DEF LockInv, LocksAccounted, ProviderSerial, LockIsFree, WorkerHoldsLock
<1>2. TypeOK /\ LockInv /\ [Next]_vars => LockInv'
  <2> SUFFICES ASSUME TypeOK, LockInv, [Next]_vars PROVE LockInv'
    OBVIOUS
  <2>1. \A r \in Begun : Provider(r)' = Provider(r)
    BY RequestKept
  <2>2. CASE UNCHANGED workVars /\ (phase' = "down" => phase = "down")
    BY <2>1, <2>2, LockFrame
  <2> QED
    BY <2>2, WorkUntouched, LockWorker, LockRun, LockProcess DEF Next
<1> QED BY <1>1, <1>2, TypeCorrect, PTL DEF Spec

\* Scans of one provider never overlap, whatever the enqueuers, the admin and
\* the service manager do.
THEOREM ProvidersSerial == Spec => []ProviderSerial
BY LocksInOrder, PTL DEF LockInv

\* No early return of the drain loop keeps a provider locked.
THEOREM LocksNeverLeak == Spec => []LocksAccounted
BY LocksInOrder, PTL DEF LockInv

\* tryLockProvider never fails, so the drain loop does not spin.
THEOREM TryLockSucceeds == Spec => []LockIsFree
BY LocksInOrder, PTL DEF LockInv

-----------------------------------------------------------------------------
(* Rows and slots *)

\* A row is inserted once and dequeued once, so what the worker dequeues never
\* ran.
RowInv ==
  /\ \A r \in queue : run[r] = "none"
  /\ \A c \in Callers : callPc[c] \in {"find", "upsert"} =>
       callEvent[c] \notin queue /\ run[callEvent[c]] = "none"
  /\ \A c, d \in Callers :
       /\ callPc[c] # "idle" /\ callPc[d] # "idle"
       /\ callEvent[c] = callEvent[d]
       => c = d

\* A call keeps RowInv: only its own upsert inserts its event.
LEMMA RowCall ==
  ASSUME TypeOK, RowInv, NEW c \in Callers, CallStep(c)
  PROVE  RowInv'
<1> USE DEF RowInv, AtStep, Return, TypeOK,
            dbVars, workVars, envVars
<1>1. CASE FindCovering(c)
  BY <1>1 DEF FindCovering
<1>2. CASE Touch(c)
  BY <1>2 DEF Touch, Accept
<1>3. CASE Upsert(c)
  BY <1>3 DEF Upsert, UpsertRow, Accept
<1>4. CASE DeleteCovered(c)
  BY <1>4 DEF DeleteCovered, Accept
<1>5. CASE CallFails(c)
  BY <1>5 DEF CallFails
<1> QED BY <1>1, <1>2, <1>3, <1>4, <1>5 DEF CallStep

\* A new call keeps RowInv: its event is new.
LEMMA RowBegin ==
  ASSUME TypeOK, RowInv, NEW c \in Callers, NEW e \in Events, NEW q \in Requests,
         BeginCall(c, e, q)
  PROVE  RowInv'
<1>1. e \notin queue /\ run[e] = "none"
      /\ \A d \in Callers : callPc[d] # "idle" => callEvent[d] # e
  BY DEF BeginCall, TypeOK
<1> QED
  BY <1>1 DEF BeginCall, RowInv, workVars, TypeOK

\* Everything else only removes rows, and starts scans of rows it removes.
LEMMA RowRest ==
  ASSUME TypeOK, RowInv,
         \/ WorkerStep \/ \E r \in Events : RunStep(r)
         \/ \E m \in Mounts : ChangeMount(m)
         \/ Tick \/ Stop \/ Crash \/ Exit \/ Restart \/ UNCHANGED vars
  PROVE  RowInv'
<1>1. /\ queue' \subseteq queue /\ UNCHANGED request
      /\ \A c \in Callers : \/ callPc'[c] = "idle"
                            \/ callPc'[c] = callPc[c] /\ callEvent'[c] = callEvent[c]
  BY DEF WorkerStep, WakeUp, AcquireSlot, SnapshotProviders, LoadDue,
         TryLockProvider, ValidateTarget, DiscardRow, Dequeue, RunStep,
         FinishScan, UnlockProvider, ReleaseSlot, Notify, ChangeMount, Tick,
         Stop, Crash, Exit, Die, Restart, dbVars, callVars, vars
<1>2. CASE StartScan /\ queue' = queue \ {picked} /\ picked \in queue
  BY <1>1, <1>2 DEF RowInv, StartScan, TypeOK
<1>3. CASE \A r \in Events : run[r] = "none" => run'[r] = "none"
  BY <1>1, <1>3 DEF RowInv, TypeOK
<1>4. WorkerStep => \/ UNCHANGED run
                    \/ StartScan /\ queue' = queue \ {picked} /\ picked \in queue
  BY DEF WorkerStep, WakeUp, AcquireSlot, SnapshotProviders, LoadDue,
         TryLockProvider, ValidateTarget, DiscardRow, Dequeue
<1>5. ASSUME NEW r \in Events, RunStep(r)
      PROVE  \A s \in Events : run[s] = "none" => run'[s] = "none"
  BY <1>5 DEF RunStep, FinishScan, UnlockProvider, ReleaseSlot, Notify, RunAt, TypeOK
<1>6. ASSUME (\E m \in Mounts : ChangeMount(m)) \/ Tick \/ Stop \/ Crash \/ Exit
             \/ Restart \/ UNCHANGED vars
      PROVE  \A s \in Events : run[s] = "none" => run'[s] = "none"
  BY <1>6 DEF ChangeMount, Tick, Stop, Crash, Exit, Die, Restart, vars, workVars
<1> QED BY <1>2, <1>3, <1>4, <1>5, <1>6

\* RowInv is an invariant.
THEOREM RowsInOrder == Spec => []RowInv
<1>1. Init => RowInv
  BY DEF Init, RowInv
<1>2. TypeOK /\ RowInv /\ [Next]_vars => RowInv'
  BY RowCall, RowBegin, RowRest DEF Next
<1> QED BY <1>1, <1>2, TypeCorrect, PTL DEF Spec

\* No row belongs to a deleted library or provider: the cascade takes the rows
\* along with it, and the foreign keys let no caller insert one later.
TargetInv == \A r \in queue : target[request[r].mount] # "deleted"

\* A call keeps TargetInv: its upsert is the statement the foreign keys check.
LEMMA TargetCall ==
  ASSUME TypeOK, TargetInv, NEW c \in Callers, CallStep(c)
  PROVE  TargetInv'
<1> UNCHANGED <<target, request>>
  BY DEF CallStep, FindCovering, Touch, Upsert, DeleteCovered, CallFails, dbVars
<1> QED
  BY DEF CallStep, FindCovering, Touch, Upsert, UpsertRow, DeleteCovered,
         CallFails, Accept, Return, dbVars, TargetInv, TypeOK

\* A change of a mount keeps TargetInv: a deletion takes its rows.
LEMMA TargetChange ==
  ASSUME TypeOK, TargetInv, NEW m \in Mounts, ChangeMount(m)
  PROVE  TargetInv'
<1>1. PICK s \in {"enabled", "disabled", "deleted"} :
        /\ target' = [target EXCEPT ![m] = s]
        /\ queue' = queue \ (IF s = "deleted"
                              THEN {e \in Begun : request[e].mount = m} ELSE {})
  BY DEF ChangeMount
<1>2. UNCHANGED request
  BY DEF ChangeMount, callVars
<1> SUFFICES ASSUME NEW r \in queue'
             PROVE  target'[request[r].mount] # "deleted"
  BY <1>2 DEF TargetInv
<1>3. r \in queue /\ r \in Begun /\ target[request[r].mount] # "deleted"
  BY <1>1 DEF TargetInv, TypeOK
<1>4. CASE request[r].mount = m
  BY <1>1, <1>3, <1>4 DEF TypeOK
<1>5. CASE request[r].mount # m
  BY <1>1, <1>3, <1>5 DEF TypeOK
<1> QED BY <1>4, <1>5

\* TargetInv is an invariant.
THEOREM RowsHaveTargets == Spec => []TargetInv
<1>1. Init => TargetInv
  BY DEF Init, TargetInv
<1>2. ASSUME TypeOK, TargetInv, NEW c \in Callers, NEW e \in Events,
             NEW q \in Requests, BeginCall(c, e, q)
      PROVE  TargetInv'
  BY <1>2 DEF BeginCall, TargetInv, TypeOK, Begun
<1>3. ASSUME TypeOK, TargetInv,
             \/ WorkerStep \/ \E r \in Events : RunStep(r)
             \/ Tick \/ Stop \/ Crash \/ Exit \/ Restart \/ UNCHANGED vars
      PROVE  TargetInv'
  <2>1. queue' \subseteq queue /\ UNCHANGED <<request, target>>
    BY <1>3 DEF WorkerStep, WakeUp, AcquireSlot, SnapshotProviders, LoadDue,
           TryLockProvider, ValidateTarget, DiscardRow, Dequeue, RunStep,
           FinishScan, UnlockProvider, ReleaseSlot, Notify, Tick, Stop, Crash,
           Exit, Die, Restart, dbVars, callVars, vars
  <2> QED BY <1>3, <2>1 DEF TargetInv
<1>4. TypeOK /\ TargetInv /\ [Next]_vars => TargetInv'
  BY <1>2, <1>3, TargetCall, TargetChange DEF Next
<1> QED BY <1>1, <1>4, TypeCorrect, PTL DEF Spec

\* No scan starts for a deleted library or provider: the transaction of Dequeue
\* finds the row that the worker loaded, which the deletion would have taken.
THEOREM DeletedStayUnscanned == Spec => DeletedNotScanned
<1>1. TypeOK /\ TargetInv /\ [Next]_vars
      => [\A r \in Events : run[r] # "scan" /\ run'[r] = "scan"
            => target[request[r].mount] # "deleted"]_vars
  <2> SUFFICES ASSUME TypeOK, TargetInv, [Next]_vars, NEW r \in Events,
                      run[r] # "scan", run'[r] = "scan"
               PROVE  target[request[r].mount] # "deleted"
    OBVIOUS
  <2>1. CASE WorkerStep
    <3>1. picked \in queue /\ run' = [run EXCEPT ![picked] = "scan"]
      BY <2>1 DEF WorkerStep, WakeUp, AcquireSlot, SnapshotProviders, LoadDue,
             TryLockProvider, ValidateTarget, DiscardRow, Dequeue, StartScan
    <3> QED BY <3>1 DEF TargetInv, TypeOK
  <2>2. ASSUME NEW s \in Events, RunStep(s)
        PROVE  FALSE
    BY <2>2 DEF RunStep, FinishScan, UnlockProvider, ReleaseSlot, Notify, TypeOK
  <2>3. CASE \/ \E c \in Callers, e \in Events, q \in Requests : BeginCall(c, e, q)
             \/ \E c \in Callers : CallStep(c)
             \/ \E m \in Mounts : ChangeMount(m)
             \/ Tick \/ Stop \/ Restart \/ UNCHANGED vars
    <3>1. UNCHANGED run
      BY <2>3 DEF BeginCall, CallStep, FindCovering, Touch, Upsert, DeleteCovered,
             CallFails, ChangeMount, Tick, Stop, Restart, workVars, vars
    <3> QED BY <3>1
  <2>4. CASE Crash \/ Exit
    BY <2>4 DEF Crash, Exit, Die
  <2> QED BY <2>1, <2>2, <2>3, <2>4 DEF Next
<1> QED BY <1>1, TypeCorrect, RowsHaveTargets, PTL DEF Spec, DeletedNotScanned

-----------------------------------------------------------------------------
(* Slots *)

\* The number of occupying scans is a natural number.
LEMMA OccupyingCounted ==
  IsFiniteSet(Occupying) /\ Cardinality(Occupying) \in Nat
<1>1. IsFiniteSet(Occupying)
  BY BoundAssumption, FS_Subset DEF Occupying
<1> QED BY <1>1, FS_CardinalityType

\* A step that leaves the worker's variables alone keeps the slots in order.
LEMMA SlotFrame ==
  ASSUME SlotsAccounted, UNCHANGED workVars
  PROVE  SlotsAccounted'
<1>1. UNCHANGED <<worker, slots, run>>
  BY DEF workVars
<1>2. Occupying' = Occupying
  BY <1>1 DEF Occupying
<1> QED BY <1>1, <1>2 DEF SlotsAccounted, WorkerHoldsSlot, WorkerHoldsLock

\* The worker's steps keep the slots in order: the slot of a row is released on
\* every path that does not start its scan.
LEMMA SlotWorker ==
  ASSUME TypeOK, RowInv, SlotsAccounted, WorkerStep
  PROVE  SlotsAccounted'
<1> USE DEF SlotsAccounted, WorkerHoldsSlot, WorkerHoldsLock, WorkerAt
<1> DEFINE n == Cardinality(Occupying)
<1>0. n \in Nat /\ slots \in Int /\ MaxConcurrent \in Nat \ {0}
  BY OccupyingCounted, BoundAssumption DEF TypeOK
<1>a. UNCHANGED run => Occupying' = Occupying
  BY DEF Occupying
<1>1. CASE WakeUp
  BY <1>0, <1>1, <1>a DEF WakeUp
<1>2. CASE AcquireSlot
  BY <1>0, <1>2, <1>a DEF AcquireSlot
<1>3. CASE SnapshotProviders
  BY <1>0, <1>3, <1>a DEF SnapshotProviders
<1>4. CASE LoadDue
  BY <1>0, <1>4, <1>a DEF LoadDue
<1>5. CASE TryLockProvider
  BY <1>0, <1>5, <1>a DEF TryLockProvider
<1>6. CASE ValidateTarget
  BY <1>0, <1>6, <1>a DEF ValidateTarget
<1>7. CASE DiscardRow
  BY <1>0, <1>7, <1>a DEF DiscardRow, GiveUp
<1>8. CASE Dequeue
  <2>1. CASE StartScan /\ picked \in queue
    <3>1. picked \in Events /\ run[picked] = "none" /\ picked \notin Occupying
      BY <2>1 DEF RowInv, TypeOK, Occupying, Begun
    <3>2. Occupying' = Occupying \cup {picked}
      BY <2>1, <3>1 DEF StartScan, Occupying, TypeOK
    <3>3. Cardinality(Occupying') = n + 1
      BY <3>1, <3>2, OccupyingCounted, FS_AddElement
    <3> QED BY <1>0, <1>8, <2>1, <3>3 DEF Dequeue, StartScan
  <2>2. CASE GiveUp("wait") /\ UNCHANGED run
    BY <1>0, <1>8, <1>a, <2>2 DEF Dequeue, GiveUp
  <2> QED BY <1>8, <2>1, <2>2 DEF Dequeue
<1> QED
  BY <1>1, <1>2, <1>3, <1>4, <1>5, <1>6, <1>7, <1>8 DEF WorkerStep

\* A scan goroutine releases the one slot it occupies.
LEMMA SlotRun ==
  ASSUME TypeOK, SlotsAccounted, NEW r \in Events, RunStep(r)
  PROVE  SlotsAccounted'
<1> USE DEF SlotsAccounted, WorkerHoldsSlot, WorkerHoldsLock, RunAt
<1>0. Cardinality(Occupying) \in Nat /\ slots \in Int /\ MaxConcurrent \in Nat \ {0}
  BY OccupyingCounted, BoundAssumption DEF TypeOK
<1>1. CASE FinishScan(r) \/ UnlockProvider(r) \/ Notify(r)
  <2>1. Occupying' = Occupying
    BY <1>1 DEF FinishScan, UnlockProvider, Notify, Occupying, TypeOK
  <2> QED BY <1>1, <2>1 DEF FinishScan, UnlockProvider, Notify
<1>2. CASE ReleaseSlot(r)
  <2>1. r \in Occupying /\ Occupying' = Occupying \ {r}
    BY <1>2 DEF ReleaseSlot, Occupying, TypeOK
  <2>2. Cardinality(Occupying') = Cardinality(Occupying) - 1
    BY <2>1, OccupyingCounted, FS_RemoveElement
  <2> QED BY <1>0, <1>2, <2>2 DEF ReleaseSlot
<1> QED BY <1>1, <1>2 DEF RunStep

\* No path of the drain loop leaks a slot, and the limit on scans is respected.
THEOREM SlotsNeverLeak == Spec => []SlotsAccounted
<1>1. Init => SlotsAccounted
  <2> SUFFICES ASSUME Init PROVE SlotsAccounted
    OBVIOUS
  <2>1. Occupying = {} /\ slots = 0 /\ worker = "acquire"
    BY DEF Init, Occupying
  <2> QED
    BY <2>1, FS_EmptySet, BoundAssumption
    DEF SlotsAccounted, WorkerHoldsSlot, WorkerHoldsLock
<1>2. TypeOK /\ LockInv /\ RowInv /\ SlotsAccounted /\ [Next]_vars => SlotsAccounted'
  <2> SUFFICES ASSUME TypeOK, LockInv, RowInv, SlotsAccounted, [Next]_vars
               PROVE  SlotsAccounted'
    OBVIOUS
  <2>1. CASE UNCHANGED workVars
    BY <2>1, SlotFrame
  <2>2. CASE Crash \/ Exit
    <3>1. Occupying' = {} /\ slots' = 0 /\ worker' = "exited"
      BY <2>2 DEF Crash, Exit, Die, Occupying
    <3> QED
      BY <3>1, FS_EmptySet, BoundAssumption
      DEF SlotsAccounted, WorkerHoldsSlot, WorkerHoldsLock
  <2>3. CASE Restart
    <3>1. worker = "exited" /\ worker' = "acquire" /\ UNCHANGED slots
          /\ Occupying' = Occupying
      BY <2>3 DEF Restart, LockInv, Occupying
    <3> QED BY <3>1 DEF SlotsAccounted, WorkerHoldsSlot, WorkerHoldsLock
  <2> QED
    BY <2>1, <2>2, <2>3, WorkUntouched, SlotWorker, SlotRun DEF Next
<1> QED BY <1>1, <1>2, TypeCorrect, LocksInOrder, RowsInOrder, PTL DEF Spec

-----------------------------------------------------------------------------
(* Wake-ups *)

\* The order of the naturals, in the form the library's theorem takes it.
LEMMA LessIsRelated ==
  ASSUME NEW x \in Nat, NEW y \in Nat, y < x
  PROVE  <<y, x>> \in OpToRel(<, Nat)
BY DEF OpToRel

\* Among free due rows there is a first one.
LEMMA SomeRowIsFirst ==
  ASSUME TypeOK, FirstDue(excluded) = {}
  PROVE  \A r \in DueRows : Provider(r) \in excluded
<1> DEFINE free == {r \in DueRows : Provider(r) \notin excluded}
           times == {runAfter[r] : r \in free}
<1> SUFFICES ASSUME free # {} PROVE FALSE
  OBVIOUS
<1>1. times \subseteq Nat /\ times # {}
  BY DEF TypeOK, DueRows, Begun
<1>2. PICK x \in times : \A y \in times : ~ (<<y, x>> \in OpToRel(<, Nat))
  BY <1>1, NatLessThanWellFounded, WFMin
<1>3. \A y \in times : ~ (y < x)
  <2> SUFFICES ASSUME NEW y \in times, y < x PROVE FALSE
    OBVIOUS
  <2>1. x \in Nat /\ y \in Nat
    BY <1>1
  <2>2. <<y, x>> \in OpToRel(<, Nat)
    BY <2>1, LessIsRelated
  <2>3. ~ (<<y, x>> \in OpToRel(<, Nat))
    BY <1>2
  <2> QED BY <2>2, <2>3
<1>4. PICK r \in free : runAfter[r] = x
  OBVIOUS
<1>5. \A s \in free : runAfter[r] <= runAfter[s]
  <2> SUFFICES ASSUME NEW s \in free PROVE runAfter[r] <= runAfter[s]
    OBVIOUS
  <2>1. runAfter[s] \in times
    OBVIOUS
  <2>2. runAfter[r] \in Nat /\ runAfter[s] \in Nat
    BY <1>1, <1>4, <2>1
  <2>3. ~ (runAfter[s] < runAfter[r])
    BY <1>3, <1>4, <2>1
  <2> HIDE DEF free, times
  <2> QED BY <2>2, <2>3
<1>6. r \in FirstDue(excluded)
  BY <1>5 DEF FirstDue
<1> QED BY <1>6

Alive == \E r \in Events : run[r] # "none"

\* Busy providers and taken slots belong to scans that have yet to notify the
\* worker, or have done so already: whatever the worker leaves for later because
\* of them, somebody will wake it up for.
WakeInv ==
  /\ worker = "load" /\ excluded # {} => wake \/ Alive
  /\ worker = "wait" /\ deferred # {} => wake \/ Alive

\* The worker's steps keep WakeInv.
LEMMA WakeWorker ==
  ASSUME TypeOK, LockInv, SlotsAccounted, WakeInv, WorkerStep
  PROVE  WakeInv'
<1> USE DEF WakeInv, WorkerAt
<1>0. UNCHANGED run => Alive' = Alive
  BY DEF Alive
<1>1. CASE WakeUp
  BY <1>1 DEF WakeUp
<1>2. CASE AcquireSlot
  <2>1. slots >= MaxConcurrent /\ worker = "acquire" => Alive
    <3> SUFFICES ASSUME slots >= MaxConcurrent, worker = "acquire" PROVE Alive
      OBVIOUS
    <3>1. Cardinality(Occupying) >= MaxConcurrent
      BY OccupyingCounted, BoundAssumption DEF SlotsAccounted, WorkerHoldsSlot, WorkerHoldsLock
    <3>2. Occupying # {}
      BY <3>1, FS_EmptySet, BoundAssumption
    <3> QED BY <3>2 DEF Occupying, Alive
  <2> QED BY <1>0, <1>2, <2>1 DEF AcquireSlot
<1>3. CASE SnapshotProviders
  <2>1. active # {} => Alive
    BY <1>3 DEF SnapshotProviders, LockInv, LocksAccounted, Scanning, Alive,
                WorkerHoldsLock
  <2> QED BY <1>0, <1>3, <2>1 DEF SnapshotProviders
<1>4. CASE LoadDue
  <2>1. CASE FirstDue(excluded) = {} /\ deferred' = DueRows
    <3>1. DueRows # {} => excluded # {}
      BY <2>1, SomeRowIsFirst
    <3> QED BY <1>0, <1>4, <2>1, <3>1 DEF LoadDue
  <2>2. CASE worker' = "lock" \/ deferred' = {}
    BY <1>4, <2>2 DEF LoadDue
  <2> QED BY <1>4, <2>1, <2>2 DEF LoadDue
<1>5. CASE TryLockProvider
  BY <1>5 DEF TryLockProvider
<1>6. CASE ValidateTarget
  BY <1>6 DEF ValidateTarget
<1>7. CASE DiscardRow
  BY <1>7 DEF DiscardRow, GiveUp
<1>8. CASE Dequeue
  BY <1>8 DEF Dequeue, GiveUp, StartScan
<1> QED
  BY <1>1, <1>2, <1>3, <1>4, <1>5, <1>6, <1>7, <1>8 DEF WorkerStep

\* A scan goroutine that ends wakes the worker.
LEMMA WakeRun ==
  ASSUME TypeOK, WakeInv, NEW r \in Events, RunStep(r)
  PROVE  WakeInv'
<1> USE DEF WakeInv, RunAt
<1>1. CASE Notify(r)
  BY <1>1 DEF Notify
<1>2. CASE FinishScan(r) \/ UnlockProvider(r) \/ ReleaseSlot(r)
  <2>1. Alive'
    BY <1>2 DEF FinishScan, UnlockProvider, ReleaseSlot, Alive, TypeOK
  <2> QED BY <1>2, <2>1 DEF FinishScan, UnlockProvider, ReleaseSlot
<1> QED BY <1>1, <1>2 DEF RunStep

\* WakeInv is an invariant.
THEOREM WakeUpsInOrder == Spec => []WakeInv
<1>1. Init => WakeInv
  BY DEF Init, WakeInv
<1>2. TypeOK /\ LockInv /\ SlotsAccounted /\ WakeInv /\ [Next]_vars => WakeInv'
  <2> SUFFICES ASSUME TypeOK, LockInv, SlotsAccounted, WakeInv, [Next]_vars
               PROVE  WakeInv'
    OBVIOUS
  <2>1. CASE UNCHANGED workVars
    <3>1. UNCHANGED deferred \/ ~(worker \in {"load", "wait"})
      BY <2>1 DEF Next, BeginCall, CallStep, FindCovering, Touch, Upsert,
         DeleteCovered, CallFails, ChangeMount, Tick, Stop, Crash, Exit, Die,
         Restart, vars, RunStep, FinishScan, UnlockProvider, ReleaseSlot, Notify,
         WorkerStep, WakeUp, AcquireSlot, SnapshotProviders, LoadDue,
         TryLockProvider, ValidateTarget, DiscardRow, Dequeue, workVars, WorkerAt
    <3> QED BY <2>1, <3>1 DEF WakeInv, workVars, Alive
  <2>2. CASE Crash \/ Exit \/ Restart
    BY <2>2 DEF Crash, Exit, Die, Restart, WakeInv
  <2> QED
    BY <2>1, <2>2, WorkUntouched, WakeWorker, WakeRun DEF Next
<1> QED BY <1>1, <1>2, TypeCorrect, LocksInOrder, SlotsNeverLeak, PTL DEF Spec

\* A due row that was left behind is not left to the ticker.
THEOREM WakeUpsNotLost == Spec => []NoLostWakeup
<1>1. WakeInv => NoLostWakeup
  BY DEF WakeInv, NoLostWakeup, Alive
<1> QED BY <1>1, WakeUpsInOrder, PTL

-----------------------------------------------------------------------------
(* What is accepted is kept, if calls do not overlap and statements do not fail *)

\* At most one goroutine is inside enqueueScan.
OneCaller == \A c, d \in Callers : c = d

\* The scan of the row an event asks for, of its own row or of one like it.
RowOf(e) == \E r \in queue : SameKey(r, e)

\* What keeps an accepted event: the row that absorbs it stays a covering one
\* until it is touched; and once a call has written its row, that row is there
\* for what the clean-up removes, or has been scanned or discarded already, and
\* with it everything it covers.  Only an error of the lookup discards a row
\* for nothing, and without faults only a shutdown makes one.
KeptInv ==
  /\ AcceptedEventsKept
  /\ worker = "drop_error" => phase # "up"
  /\ \A c \in Callers : callPc[c] # "idle" => callEvent[c] \notin accepted
  /\ \A c \in Callers : callPc[c] = "touch" => RecursiveOver(callRow[c], callEvent[c])
  /\ \A c \in Callers : callPc[c] = "cleanup" =>
       /\ request[callEvent[c]].mode = "recursive"
       /\ \/ RowOf(callEvent[c])
          \/ CoveredBy(callEvent[c]) \subseteq served \cup dropped

\* What an event asked for does not change, so neither does what it covers.
LEMMA ScopesKept ==
  ASSUME TypeOK, [Next]_vars
  PROVE  \A r, e \in Begun : /\ SameKey(r, e)' <=> SameKey(r, e)
                             /\ RecursiveOver(r, e)' <=> RecursiveOver(r, e)
                             /\ Covers(r, e)' <=> Covers(r, e)
<1>1. \A r \in Begun : request'[r] = request[r]
  BY RequestKept
<1> QED BY <1>1 DEF SameKey, RecursiveOver, Covers

\* A recursive scan of a directory does what any scan at or below it does.
LEMMA CoverChain ==
  ASSUME TypeOK, NEW e \in Begun, NEW r \in Begun, NEW x \in Begun,
         request[e].mode = "recursive", request[e].mount = request[r].mount,
         request[e].path \in Ancestors[request[r].path], Covers(r, x)
  PROVE  Covers(e, x)
<1>1. request[x].path \in Paths /\ request[r].path \in Paths
  BY ScopeAssumption DEF TypeOK, RequestType
<1>2. CASE SameKey(r, x)
  BY <1>2 DEF SameKey, Covers, RecursiveOver
<1>3. CASE RecursiveOver(r, x)
  <2>1. Ancestors[request[r].path] \subseteq Ancestors[request[x].path]
    BY <1>1, <1>3, ScopeAssumption DEF RecursiveOver
  <2> QED BY <1>3, <2>1 DEF Covers, RecursiveOver
<1> QED BY <1>2, <1>3 DEF Covers

\* Rows that are like each other cover the same events.
LEMMA SameCover ==
  ASSUME TypeOK, NEW e \in Begun, NEW r \in Begun, NEW x \in Begun,
         SameKey(r, e), Covers(e, x)
  PROVE  Covers(r, x)
BY DEF SameKey, Covers, RecursiveOver

\* A step that removes no row and accepts nothing keeps what is accepted.
LEMMA KeptFrame ==
  ASSUME TypeOK, KeptInv, [Next]_vars,
         queue \subseteq queue', accepted' = accepted,
         served \subseteq served', dropped \subseteq dropped'
  PROVE  AcceptedEventsKept'
<1>1. queue \subseteq Begun /\ accepted \subseteq Begun
  BY DEF TypeOK
<1> QED BY <1>1, ScopesKept DEF KeptInv, AcceptedEventsKept
\* A step of a call keeps KeptInv.
LEMMA KeptCall ==
  ASSUME OneCaller, TypeOK, KeptInv, NEW c \in Callers, CallStep(c)
  PROVE  KeptInv'
<1> DEFINE e == callEvent[c]
<1>n. [Next]_vars
  BY DEF Next
<1>0. /\ UNCHANGED <<request, served, dropped, worker, phase>>
      /\ callPc[c] # "idle" /\ e \in Begun /\ e \notin accepted
      /\ Begun' = Begun
  <2>1. UNCHANGED <<request, served, dropped, worker, phase>>
    BY DEF CallStep, FindCovering, Touch, Upsert, DeleteCovered, CallFails, workVars, envVars
  <2>2. callPc[c] # "idle"
    BY DEF CallStep, FindCovering, Touch, Upsert, DeleteCovered, CallFails, AtStep
  <2> QED BY <2>1, <2>2 DEF TypeOK, KeptInv, Begun
<1>t. /\ callPc \in [Callers -> {"idle", "find", "touch", "upsert", "cleanup"}]
      /\ callEvent \in [Callers -> Events \cup {NoEvent}]
      /\ callRow \in [Callers -> Events \cup {NoEvent}]
      /\ queue \subseteq Begun /\ accepted \subseteq Begun
  BY DEF TypeOK
<1>a. \A r, x \in Begun : /\ SameKey(r, x)' <=> SameKey(r, x)
                          /\ RecursiveOver(r, x)' <=> RecursiveOver(r, x)
                          /\ Covers(r, x)' <=> Covers(r, x)
  BY <1>n, ScopesKept
<1>b. \A d \in Callers : d = c
  BY DEF OneCaller
<1>d. worker' = "drop_error" => phase' # "up"
  BY <1>0 DEF KeptInv
<1>k. AcceptedEventsKept
  BY DEF KeptInv
<1>r. ASSUME Return(c), accepted' \in {accepted, accepted \cup {e}}
      PROVE  /\ callPc'[c] = "idle"
             /\ AcceptedEventsKept' => KeptInv'
  <2>1. callPc'[c] = "idle"
    BY <1>r, <1>t DEF Return
  <2> QED BY <2>1, <1>b, <1>d DEF KeptInv
<1>1. CASE FindCovering(c)
  <2>1. UNCHANGED <<queue, accepted, callEvent>>
    BY <1>1 DEF FindCovering, dbVars
  <2>2. AcceptedEventsKept'
    BY <1>n, <1>0, <2>1, KeptFrame
  <2>3. callPc'[c] \in {"touch", "upsert"}
    BY <1>1, <1>t DEF FindCovering
  <2>4. callPc'[c] = "touch" => RecursiveOver(callRow'[c], e)
    BY <1>1, <1>t DEF FindCovering, CoveringRows
  <2>5. callPc'[c] = "touch" => callRow'[c] \in queue
    BY <1>1, <1>t DEF FindCovering, CoveringRows
  <2>6. callPc'[c] = "touch" => RecursiveOver(callRow[c], callEvent[c])'
    BY <2>1, <2>4, <1>0 DEF RecursiveOver
  <2> QED BY <1>0, <1>b, <1>d, <2>1, <2>2, <2>3, <2>6 DEF KeptInv
<1>2. CASE Touch(c)
  <2>1. UNCHANGED queue /\ Return(c) /\ accepted' \in {accepted, accepted \cup {e}}
    BY <1>2 DEF Touch, Accept, dbVars
  <2>2. CASE accepted' = accepted
    BY <1>n, <1>0, <1>r, <2>1, <2>2, KeptFrame
  <2>3. CASE callRow[c] \in queue /\ accepted' = accepted \cup {e}
    <3>1. Covers(callRow[c], e)
      BY <1>2 DEF Touch, AtStep, KeptInv, Covers
    <3>2. AcceptedEventsKept'
      <4> SUFFICES ASSUME NEW x \in accepted'
                   PROVE  (x \in served \cup dropped \/ \E r \in queue : Covers(r, x))'
        BY DEF AcceptedEventsKept
      <4>1. CASE x = e
        BY <4>1, <3>1, <2>1, <2>3, <1>a, <1>t, <1>0
      <4>2. CASE x \in accepted
        BY <4>2, <2>1, <1>a, <1>t, <1>0, <1>k DEF AcceptedEventsKept
      <4> QED BY <4>1, <4>2, <2>3
    <3> QED BY <3>2, <2>1, <1>r
  <2> QED BY <1>2, <2>2, <2>3 DEF Touch, Accept
<1>3. CASE Upsert(c)
  <2>1. queue \subseteq queue' /\ callPc[c] = "upsert"
    BY <1>3 DEF Upsert, UpsertRow, AtStep
  <2>2. CASE target[request[e].mount] = "deleted"
    <3>1. Return(c) /\ accepted' = accepted
      BY <1>3, <2>2 DEF Upsert
    <3> QED BY <1>n, <1>0, <1>r, <2>1, <3>1, KeptFrame
  <2>3. CASE target[request[e].mount] # "deleted" /\ UpsertRow(e)
    <3>1. \E r \in queue' : SameKey(r, e)
      BY <2>3 DEF UpsertRow, SameKey
    <3>2. queue' \subseteq Begun
      BY <2>3, <1>0, <1>t DEF UpsertRow
    <3>3. PICK r \in queue' : SameKey(r, e)
      BY <3>1
    <3>4. CASE /\ request[e].mode = "recursive"
               /\ callPc' = [callPc EXCEPT ![c] = "cleanup"]
               /\ UNCHANGED <<callEvent, callRow, accepted>>
      <4>1. AcceptedEventsKept'
        BY <1>n, <1>0, <2>1, <3>4, KeptFrame
      <4>2. SameKey(r, callEvent[c])'
        BY <3>2, <3>3, <3>4, <1>0 DEF SameKey
      <4>3. RowOf(callEvent[c])'
        BY <4>2 DEF RowOf
      <4>4. callPc'[c] = "cleanup" /\ callEvent'[c] = e
        BY <3>4, <1>t
      <4> QED BY <4>1, <4>3, <4>4, <3>4, <1>0, <1>b, <1>d DEF KeptInv
    <3>5. CASE Accept(c)
      <4>1. AcceptedEventsKept'
        <5> SUFFICES ASSUME NEW x \in accepted'
                     PROVE  (x \in served \cup dropped \/ \E s \in queue : Covers(s, x))'
          BY DEF AcceptedEventsKept
        <5>1. CASE x = e
          <6>1. Covers(r, x)
            BY <5>1, <3>3 DEF Covers
          <6> QED BY <5>1, <6>1, <3>2, <3>3, <1>a, <1>0
        <5>2. CASE x \in accepted
          BY <5>2, <2>1, <1>a, <1>t, <1>0, <1>k DEF AcceptedEventsKept
        <5> QED BY <5>1, <5>2, <3>5 DEF Accept
      <4> QED BY <4>1, <3>5, <1>r DEF Accept
    <3> QED BY <1>3, <2>3, <3>4, <3>5 DEF Upsert
  <2> QED BY <1>3, <2>2, <2>3 DEF Upsert
<1>4. CASE DeleteCovered(c)
  <2>1. /\ queue' = queue \ CoveredRows(e) /\ Return(c)
        /\ accepted' = accepted \cup {e}
        /\ request[e].mode = "recursive"
        /\ RowOf(e) \/ CoveredBy(e) \subseteq served \cup dropped
    BY <1>4 DEF DeleteCovered, Accept, KeptInv, AtStep
  <2>2. \A x \in Begun : Covers(e, x) =>
          x \in served \cup dropped \/ \E r \in queue' : Covers(r, x)
    <3> SUFFICES ASSUME NEW x \in Begun, Covers(e, x)
                 PROVE  x \in served \cup dropped \/ \E r \in queue' : Covers(r, x)
      OBVIOUS
    <3>1. CASE RowOf(e)
      <4>1. PICK r \in queue : SameKey(r, e)
        BY <3>1 DEF RowOf
      <4>2. r \in queue'
        BY <2>1, <4>1 DEF CoveredRows
      <4>3. Covers(r, x)
        BY <4>1, <1>0, <1>t, SameCover
      <4> QED BY <4>2, <4>3
    <3>2. CASE CoveredBy(e) \subseteq served \cup dropped
      BY <3>2 DEF CoveredBy
    <3> QED BY <2>1, <3>1, <3>2
  <2>3. AcceptedEventsKept'
    <3> SUFFICES ASSUME NEW x \in accepted'
                 PROVE  (x \in served \cup dropped \/ \E r \in queue : Covers(r, x))'
      BY DEF AcceptedEventsKept
    <3>1. x \in Begun
      BY <2>1, <1>0, <1>t
    <3>2. x \in served \cup dropped \/ \E r \in queue' : Covers(r, x)
      <4>1. CASE x = e
        BY <4>1, <2>2, <1>0 DEF Covers, SameKey
      <4>2. CASE x \in accepted /\ x \notin served \cup dropped
        <5>1. PICK r \in queue : Covers(r, x)
          BY <4>2, <1>k DEF AcceptedEventsKept
        <5>2. CASE r \in CoveredRows(e)
          <6>1. Covers(e, x)
            BY <5>1, <5>2, <2>1, <3>1, <1>0, <1>t, CoverChain DEF CoveredRows
          <6> QED BY <6>1, <2>2, <3>1
        <5> QED BY <5>1, <5>2, <2>1
      <4> QED BY <4>1, <4>2, <2>1
    <3> QED BY <3>1, <3>2, <2>1, <1>0, <1>a, <1>t
  <2> QED BY <2>1, <2>3, <1>r
<1>5. CASE CallFails(c)
  <2>1. Return(c) /\ UNCHANGED <<queue, accepted>>
    BY <1>5 DEF CallFails, dbVars
  <2> QED BY <1>n, <1>0, <1>r, <2>1, KeptFrame
<1> QED BY <1>1, <1>2, <1>3, <1>4, <1>5 DEF CallStep

\* A new call keeps KeptInv: no other call is under way, so none has yet to
\* clean up rows that the new event might come to rely on.
LEMMA KeptBegin ==
  ASSUME OneCaller, TypeOK, KeptInv,
         NEW c \in Callers, NEW e \in Events, NEW q \in Requests, BeginCall(c, e, q)
  PROVE  KeptInv'
<1>n. [Next]_vars
  BY DEF Next
<1>1. /\ UNCHANGED <<queue, served, dropped, accepted, worker, phase>>
      /\ e \notin Begun /\ callPc[c] = "idle"
  BY DEF BeginCall, workVars, envVars
<1>2. AcceptedEventsKept'
  BY <1>n, <1>1, KeptFrame
<1>3. \/ callPc'[c] = "find" /\ callEvent'[c] = e
      \/ callPc'[c] = "idle"
  BY <1>1 DEF BeginCall, TypeOK
<1>4. e \notin accepted
  BY <1>1 DEF TypeOK
<1> QED BY <1>1, <1>2, <1>3, <1>4 DEF KeptInv, OneCaller

\* The worker keeps KeptInv: it serves what the row it dequeues covers, and
\* drops what the row it discards covers.
LEMMA KeptWorker ==
  ASSUME ~Faults, TypeOK, KeptInv, WorkerStep
  PROVE  KeptInv'
<1>n. [Next]_vars
  BY DEF Next
<1>1. /\ UNCHANGED <<request, callPc, callEvent, callRow, accepted, phase>>
      /\ Begun' = Begun
  BY DEF WorkerStep, WakeUp, AcquireSlot, SnapshotProviders, LoadDue,
         TryLockProvider, ValidateTarget, DiscardRow, Dequeue, callVars, envVars, Begun
<1>t. queue \subseteq Begun /\ accepted \subseteq Begun
  BY DEF TypeOK
<1>2. worker' = "drop_error" => phase' # "up"
  BY <1>1 DEF WorkerStep, WakeUp, AcquireSlot, SnapshotProviders, LoadDue, KeptInv,
         TryLockProvider, ValidateTarget, DiscardRow, Dequeue, GiveUp, StartScan,
         StatementFails, CtxAlive
<1>3. \/ UNCHANGED <<queue, served, dropped>>
      \/ /\ picked \in queue /\ queue' = queue \ {picked}
         /\ served' \cup dropped' = (served \cup dropped) \cup CoveredBy(picked)
  <2>1. CASE DiscardRow
    BY <2>1 DEF DiscardRow, KeptInv, WorkerAt, CtxAlive
  <2>2. CASE Dequeue
    BY <2>2 DEF Dequeue, StartScan
  <2>3. CASE WakeUp \/ AcquireSlot \/ SnapshotProviders \/ LoadDue
             \/ TryLockProvider \/ ValidateTarget
    BY <2>3 DEF WakeUp, AcquireSlot, SnapshotProviders, LoadDue,
       TryLockProvider, ValidateTarget, dbVars
  <2> QED BY <2>1, <2>2, <2>3 DEF WorkerStep
<1>a. \A r, x \in Begun : /\ SameKey(r, x)' <=> SameKey(r, x)
                          /\ RecursiveOver(r, x)' <=> RecursiveOver(r, x)
                          /\ Covers(r, x)' <=> Covers(r, x)
  BY <1>n, ScopesKept
<1>4. \A x \in Begun : x \in served \cup dropped \/ (\E r \in queue : Covers(r, x))
        => x \in served' \cup dropped' \/ (\E r \in queue' : Covers(r, x))
  BY <1>3, <1>t DEF CoveredBy
<1>5. AcceptedEventsKept'
  BY <1>1, <1>4, <1>a, <1>t, <1>3 DEF KeptInv, AcceptedEventsKept
<1>6. ASSUME NEW c \in Callers, callPc[c] = "cleanup"
      PROVE  (\/ RowOf(callEvent[c])
              \/ CoveredBy(callEvent[c]) \subseteq served \cup dropped)'
  <2> DEFINE e == callEvent[c]
  <2>0. e \in Begun
    BY <1>6 DEF TypeOK
  <2>1. CASE CoveredBy(e) \subseteq served \cup dropped
    <3>1. CoveredBy(e) \subseteq served' \cup dropped'
      BY <1>3, <2>1
    <3> QED BY <3>1, <1>1, <1>a, <2>0 DEF CoveredBy
  <2>2. CASE RowOf(e)
    <3>1. PICK r \in queue : SameKey(r, e)
      BY <2>2 DEF RowOf
    <3>2. CASE r \in queue'
      BY <3>1, <3>2, <1>1, <1>a, <1>t, <2>0 DEF RowOf
    <3>3. CASE r \notin queue'
      <4>1. CoveredBy(e) \subseteq CoveredBy(r)
        BY <3>1, <1>t, <2>0, SameCover DEF CoveredBy
      <4>2. CoveredBy(e) \subseteq served' \cup dropped'
        BY <4>1, <3>1, <3>3, <1>3
      <4> QED BY <4>2, <1>1, <1>a, <2>0 DEF CoveredBy
    <3> QED BY <3>2, <3>3
  <2> QED BY <1>6, <2>1, <2>2 DEF KeptInv
<1>7. \A c \in Callers : callPc[c] = "touch" =>
        RecursiveOver(callRow[c], callEvent[c])'
  BY <1>1 DEF KeptInv, RecursiveOver
<1> QED BY <1>1, <1>2, <1>5, <1>6, <1>7 DEF KeptInv

\* The rest keeps KeptInv: deleting a mount drops every event about it, and a
\* process that dies takes its calls with it.
LEMMA KeptRest ==
  ASSUME TypeOK, KeptInv,
         \/ \E r \in Events : RunStep(r)
         \/ \E m \in Mounts : ChangeMount(m)
         \/ Tick \/ Stop \/ Crash \/ Exit \/ Restart \/ UNCHANGED vars
  PROVE  KeptInv'
<1>n. [Next]_vars
  BY DEF Next
<1>t. queue \subseteq Begun /\ accepted \subseteq Begun
  BY DEF TypeOK
<1>1. UNCHANGED <<request, accepted, served>>
  BY DEF RunStep, FinishScan, UnlockProvider, ReleaseSlot, Notify, ChangeMount,
         Tick, Stop, Crash, Exit, Die, Restart, callVars, vars
<1>a. \A r, x \in Begun : /\ SameKey(r, x)' <=> SameKey(r, x)
                          /\ RecursiveOver(r, x)' <=> RecursiveOver(r, x)
                          /\ Covers(r, x)' <=> Covers(r, x)
  BY <1>n, ScopesKept
<1>2. CASE Crash \/ Exit
  <2>1. /\ UNCHANGED <<queue, dropped>> /\ worker' = "exited"
        /\ \A c \in Callers : callPc'[c] = "idle"
    BY <1>2 DEF Crash, Exit, Die, dbVars
  <2>2. AcceptedEventsKept'
    BY <1>n, <1>1, <2>1, KeptFrame
  <2> QED BY <2>1, <2>2 DEF KeptInv
<1>3. CASE (\E r \in Events : RunStep(r)) \/ Tick \/ Stop \/ Restart \/ UNCHANGED vars
  <2>1. /\ UNCHANGED <<queue, dropped, callPc, callEvent, callRow>>
        /\ worker' = "drop_error" => worker = "drop_error" /\ (phase' = "up" => phase = "up")
    BY <1>3 DEF RunStep, FinishScan, UnlockProvider, ReleaseSlot, Notify, Tick, Stop,
                Restart, dbVars, callVars, workVars, envVars, vars
  <2>2. AcceptedEventsKept'
    BY <1>n, <1>1, <2>1, KeptFrame
  <2>3. \A c \in Callers : callPc[c] = "cleanup" =>
          /\ RowOf(callEvent[c])' <=> RowOf(callEvent[c])
          /\ CoveredBy(callEvent[c])' = CoveredBy(callEvent[c])
    BY <1>1, <2>1 DEF RowOf, CoveredBy, Covers, SameKey, RecursiveOver, Begun
  <2> QED BY <1>1, <2>1, <2>2, <2>3 DEF KeptInv, RecursiveOver
<1>4. ASSUME NEW m \in Mounts, ChangeMount(m) PROVE KeptInv'
  <2> DEFINE G == {e \in Begun : request[e].mount = m}
  <2>1. /\ UNCHANGED <<callPc, callEvent, callRow, worker, phase>>
        /\ \/ queue' = queue \ G /\ dropped' = dropped \cup G
           \/ UNCHANGED <<queue, dropped>>
    BY <1>4 DEF ChangeMount, callVars, workVars
  <2>2. \A r, x \in Begun : Covers(r, x) => (r \in G <=> x \in G)
    BY DEF Covers, SameKey, RecursiveOver
  <2>3. AcceptedEventsKept'
    <3> SUFFICES ASSUME NEW x \in accepted
                 PROVE  (x \in served \cup dropped \/ \E r \in queue : Covers(r, x))'
      BY <1>1 DEF AcceptedEventsKept
    <3>1. CASE x \in served \cup dropped
      BY <3>1, <1>1, <2>1
    <3>2. CASE \E r \in queue : Covers(r, x)
      <4>1. PICK r \in queue : Covers(r, x)
        BY <3>2
      <4> QED BY <4>1, <1>1, <1>a, <1>t, <2>1, <2>2
    <3> QED BY <3>1, <3>2 DEF KeptInv, AcceptedEventsKept
  <2>4. ASSUME NEW c \in Callers, callPc[c] = "cleanup"
        PROVE  (\/ RowOf(callEvent[c])
                \/ CoveredBy(callEvent[c]) \subseteq served \cup dropped)'
    <3> DEFINE e == callEvent[c]
    <3>0. e \in Begun
      BY <2>4 DEF TypeOK
    <3>1. CASE e \in G /\ dropped' = dropped \cup G
      BY <3>0, <3>1, <2>1, <2>2, <1>1 DEF CoveredBy, Covers, SameKey, RecursiveOver, Begun
    <3>2. CASE e \notin G \/ UNCHANGED <<queue, dropped>>
      <4>1. CASE RowOf(e)
        <5>1. PICK r \in queue : SameKey(r, e)
          BY <4>1 DEF RowOf
        <5>2. r \in queue'
          BY <5>1, <3>0, <3>2, <2>1, <2>2, <1>t DEF Covers
        <5>3. SameKey(r, callEvent[c])'
          BY <5>1, <1>1, <2>1 DEF SameKey
        <5> QED BY <5>2, <5>3 DEF RowOf
      <4>2. CASE CoveredBy(e) \subseteq served \cup dropped
        BY <4>2, <1>1, <2>1 DEF CoveredBy, Covers, SameKey, RecursiveOver, Begun
      <4> QED BY <2>4, <4>1, <4>2 DEF KeptInv
    <3> QED BY <3>1, <3>2, <2>1
  <2> QED BY <1>1, <2>1, <2>3, <2>4 DEF KeptInv, RecursiveOver
<1> QED BY <1>2, <1>3, <1>4

\* KeptInv is an invariant, if calls do not overlap and statements do not fail.
THEOREM KeptInOrder == OneCaller /\ ~Faults => (Spec => []KeptInv)
<1> SUFFICES ASSUME OneCaller, ~Faults PROVE Spec => []KeptInv
  OBVIOUS
<1>1. Init => KeptInv
  BY DEF Init, KeptInv, AcceptedEventsKept
<1>2. TypeOK /\ KeptInv /\ [Next]_vars => KeptInv'
  BY KeptCall, KeptBegin, KeptWorker, KeptRest DEF Next
<1> QED BY <1>1, <1>2, TypeCorrect, PTL DEF Spec

\* An accepted event is covered by a row, served, or dropped with its target.
\* Calls that overlap do lose events, as the run ScanQueueLostEvent shows.
THEOREM AcceptedNotLost == OneCaller /\ ~Faults => (Spec => []AcceptedEventsKept)
<1>1. KeptInv => AcceptedEventsKept
  BY DEF KeptInv
<1> QED BY <1>1, KeptInOrder, PTL

-----------------------------------------------------------------------------
(* Merging leaves no row that another row makes superfluous *)

\* An event whose call ended without success: its row may have been written
\* and never cleaned up after.
Astray ==
  \E e \in Begun \ accepted :
    \A c \in Callers : callPc[c] = "idle" \/ callEvent[c] # e

RowsMerged == \A a, b \in queue : Covers(a, b) => a = b

\* What merging rests on, as long as no call went astray: rows are merged but
\* for those the call that wrote its row is about to remove, and a call on its
\* way to write has seen no recursive row at or above its own, except its own.
MergeInv ==
  /\ \A c \in Callers : callPc[c] # "idle" => callEvent[c] \notin accepted
  /\ \/ Astray \/ RowsMerged
     \/ \E c \in Callers :
          /\ callPc[c] = "cleanup"
          /\ \A a, b \in queue : Covers(a, b) /\ a # b => b \in CoveredRows(callEvent[c])
  /\ \/ Astray
     \/ \A c \in Callers : callPc[c] = "upsert" =>
          \A r \in queue : RecursiveOver(r, callEvent[c]) => SameKey(r, callEvent[c])

\* Of the recursive rows at or above a directory, which form a chain, the
\* deepest is the one found: so if rows are merged there is but one.
LEMMA DeepestFound ==
  ASSUME TypeOK, RowsMerged, NEW e \in Begun, NEW r \in queue, RecursiveOver(r, e)
  PROVE  r \in CoveringRows(e)
<1>1. SUFFICES ASSUME NEW s \in queue, RecursiveOver(s, e)
               PROVE  request[s].path \in Ancestors[request[r].path]
  BY DEF CoveringRows
<1>2. /\ request[e].path \in Paths /\ request[r].path \in Paths
      /\ request[s].path \in Ancestors[request[e].path]
      /\ request[r].path \in Ancestors[request[e].path]
  BY <1>1, ScopeAssumption DEF TypeOK, RequestType, RecursiveOver
<1>3. CASE request[r].path \in Ancestors[request[s].path]
  <2>1. RecursiveOver(r, s)
    BY <1>1, <1>3 DEF RecursiveOver
  <2>2. r = s
    BY <2>1 DEF RowsMerged, Covers
  <2> QED BY <1>2, <2>2, ScopeAssumption
<1> QED BY <1>2, <1>3, ScopeAssumption

\* An event that went astray stays astray: no later call is about it.
LEMMA AstrayKept ==
  ASSUME TypeOK, MergeInv, Astray, [Next]_vars
  PROVE  Astray'
<1>1. PICK e \in Begun \ accepted :
        \A c \in Callers : callPc[c] = "idle" \/ callEvent[c] # e
  BY DEF Astray
<1>2. e \in Begun'
  BY RequestKept
<1>3. e \notin accepted'
  <2>1. CASE \E c \in Callers : CallStep(c)
    BY <1>1, <2>1 DEF CallStep, FindCovering, Touch, Upsert, DeleteCovered, CallFails,
       Accept, AtStep
  <2>2. CASE UNCHANGED accepted
    BY <1>1, <2>2
  <2>3. \/ UNCHANGED accepted
        \/ \E c \in Callers : CallStep(c)
    BY DEF Next, BeginCall, WorkerStep, WakeUp, AcquireSlot, SnapshotProviders, LoadDue,
       TryLockProvider, ValidateTarget, DiscardRow, Dequeue, RunStep, FinishScan,
       UnlockProvider, ReleaseSlot, Notify, ChangeMount, Tick, Stop, Crash, Exit, Die,
       Restart, vars
  <2> QED BY <2>1, <2>2, <2>3
<1>4. \A c \in Callers : callPc'[c] = "idle" \/ callEvent'[c] # e
  <2>1. CASE \E c \in Callers, x \in Events, q \in Requests : BeginCall(c, x, q)
    BY <1>1, <2>1 DEF BeginCall, TypeOK
  <2>2. ASSUME NEW c \in Callers, CallStep(c)
        PROVE  \A d \in Callers : callPc'[d] = "idle" \/ callEvent'[d] # e
    <3>1. callPc[c] # "idle"
      BY <2>2 DEF CallStep, FindCovering, Touch, Upsert, DeleteCovered, CallFails, AtStep
    <3>2. CASE Return(c)
      BY <1>1, <3>2 DEF Return, TypeOK
    <3>3. CASE FindCovering(c)
      BY <1>1, <3>1, <3>3 DEF FindCovering, TypeOK
    <3>4. CASE Upsert(c)
      BY <1>1, <3>1, <3>2, <3>4 DEF Upsert, Accept, TypeOK
    <3> QED BY <2>2, <3>2, <3>3, <3>4
            DEF CallStep, Touch, DeleteCovered, CallFails, Accept
  <2>3. CASE Crash \/ Exit
    BY <2>3 DEF Crash, Exit, Die
  <2>4. CASE UNCHANGED <<callPc, callEvent>>
    BY <1>1, <2>4
  <2>5. WorkerStep \/ (\E r \in Events : RunStep(r)) \/ (\E m \in Mounts : ChangeMount(m))
        \/ Tick \/ Stop \/ Restart \/ UNCHANGED vars => UNCHANGED <<callPc, callEvent>>
    BY DEF WorkerStep, WakeUp, AcquireSlot, SnapshotProviders, LoadDue,
       TryLockProvider, ValidateTarget, DiscardRow, Dequeue, RunStep, FinishScan,
       UnlockProvider, ReleaseSlot, Notify, ChangeMount, Tick, Stop, Restart, vars, callVars
  <2> QED BY <2>1, <2>2, <2>3, <2>4, <2>5 DEF Next
<1> QED BY <1>2, <1>3, <1>4 DEF Astray

\* A call that ends without success leaves its event astray.
LEMMA FailureAstray ==
  ASSUME TypeOK, MergeInv, NEW c \in Callers, callPc[c] # "idle",
         UNCHANGED <<request, accepted>>,
         \A d \in Callers : callPc'[d] = "idle" \/ callEvent'[d] # callEvent[c]
  PROVE  Astray'
<1>1. callEvent[c] \in Begun /\ callEvent[c] \notin accepted
  BY DEF TypeOK, MergeInv
<1> QED BY <1>1 DEF Astray, Begun

\* A step of a call keeps MergeInv.
LEMMA MergeCall ==
  ASSUME OneCaller, TypeOK, MergeInv, NEW c \in Callers, CallStep(c)
  PROVE  MergeInv'
<1> DEFINE e == callEvent[c]
<1>n. [Next]_vars
  BY DEF Next
<1>0. callPc[c] # "idle" /\ e \in Begun /\ e \notin accepted /\ UNCHANGED request
  <2>1. callPc[c] # "idle" /\ UNCHANGED request
    BY DEF CallStep, FindCovering, Touch, Upsert, DeleteCovered, CallFails, AtStep
  <2> QED BY <2>1 DEF TypeOK, MergeInv
<1>t. /\ callPc \in [Callers -> {"idle", "find", "touch", "upsert", "cleanup"}]
      /\ callEvent \in [Callers -> Events \cup {NoEvent}]
      /\ callRow \in [Callers -> Events \cup {NoEvent}]
      /\ queue \subseteq Begun /\ accepted \subseteq Begun
  BY DEF TypeOK
<1>a. \A r, x \in Begun : /\ SameKey(r, x)' <=> SameKey(r, x)
                          /\ RecursiveOver(r, x)' <=> RecursiveOver(r, x)
                          /\ Covers(r, x)' <=> Covers(r, x)
  BY <1>n, ScopesKept
<1>b. \A d \in Callers : d = c
  BY DEF OneCaller
<1>s. Astray => Astray'
  BY <1>n, AstrayKept
<1>r. ASSUME Return(c), Astray' \/ RowsMerged' PROVE MergeInv'
  <2>1. callPc'[c] = "idle"
    BY <1>r, <1>t DEF Return
  <2> QED BY <2>1, <1>b, <1>r DEF MergeInv
<1>f. ASSUME Return(c), accepted' = accepted PROVE MergeInv'
  <2>1. callPc'[c] = "idle"
    BY <1>f, <1>t DEF Return
  <2>2. Astray'
    BY <2>1, <1>b, <1>f, <1>0, FailureAstray
  <2> QED BY <2>2, <1>r, <1>f
<1>1. CASE FindCovering(c)
  <2>1. UNCHANGED <<queue, accepted, callEvent>> /\ callPc[c] = "find"
    BY <1>1 DEF FindCovering, dbVars, AtStep
  <2>2. callPc'[c] \in {"touch", "upsert"}
    BY <1>1, <1>t DEF FindCovering
  <2>3. Astray \/ RowsMerged
    BY <2>1, <1>b DEF MergeInv
  <2>4. RowsMerged => RowsMerged'
    BY <2>1, <1>a, <1>t DEF RowsMerged
  <2>5. ASSUME RowsMerged, callPc'[c] = "upsert", NEW r \in queue, RecursiveOver(r, e)
        PROVE  SameKey(r, e)
    <3>1. r \in CoveringRows(e)
      BY <2>5, <1>0, DeepestFound
    <3> QED BY <1>1, <1>t, <2>5, <3>1 DEF FindCovering
  <2>6. callPc'[c] = "upsert" /\ RowsMerged =>
          \A r \in queue' : RecursiveOver(r, callEvent[c])' => SameKey(r, callEvent[c])'
    BY <2>1, <2>5, <1>0 DEF RecursiveOver, SameKey
  <2> QED BY <2>1, <2>2, <2>3, <2>4, <2>6, <1>0, <1>b, <1>s DEF MergeInv
<1>2. CASE Touch(c)
  <2>1. UNCHANGED queue /\ Return(c) /\ callPc[c] = "touch"
    BY <1>2 DEF Touch, Accept, dbVars, AtStep
  <2>2. Astray \/ RowsMerged
    BY <2>1, <1>b DEF MergeInv
  <2>3. RowsMerged => RowsMerged'
    BY <2>1, <1>a, <1>t DEF RowsMerged
  <2> QED BY <2>1, <2>2, <2>3, <1>r, <1>s
<1>3. CASE Upsert(c)
  <2>0. callPc[c] = "upsert"
    BY <1>3 DEF Upsert, AtStep
  <2>1. CASE target[request[e].mount] = "deleted"
    BY <1>3, <2>1, <1>f DEF Upsert
  <2>2. CASE target[request[e].mount] # "deleted"
    <3>1. UpsertRow(e)
      BY <1>3, <2>2 DEF Upsert
    <3>2. \/ Astray
          \/ /\ RowsMerged
             /\ \A r \in queue : RecursiveOver(r, e) => SameKey(r, e)
      BY <2>0, <1>b DEF MergeInv
    <3>3. queue' \subseteq queue \cup {e}
      BY <3>1 DEF UpsertRow
    <3>4. ASSUME ~Astray, NEW a \in queue', NEW b \in queue', Covers(a, b), a # b
          PROVE  a = e /\ b \in queue /\ RecursiveOver(e, b) /\ ~SameKey(e, b)
      <4>1. CASE a \in queue /\ b \in queue
        BY <4>1, <3>2, <3>4 DEF RowsMerged
      <4>2. CASE \A r \in queue : ~SameKey(r, e)
        <5>1. \A r \in queue : ~Covers(r, e) /\ ~SameKey(e, r)
          BY <4>2, <3>2, <3>4 DEF Covers, SameKey
        <5> QED BY <5>1, <4>1, <3>3, <3>4 DEF Covers
      <4>3. CASE \E r \in queue : SameKey(r, e)
        <5>1. queue' = queue
          BY <4>3, <3>1 DEF UpsertRow
        <5> QED BY <5>1, <4>1
      <4> QED BY <4>2, <4>3
    <3>5. queue' \subseteq Begun
      BY <3>3, <1>0, <1>t
    <3>6. CASE request[e].mode = "recursive"
      <4>1. /\ callPc' = [callPc EXCEPT ![c] = "cleanup"]
            /\ UNCHANGED <<callEvent, accepted>>
        BY <1>3, <2>2, <3>6 DEF Upsert
      <4>2. callPc'[c] = "cleanup" /\ callEvent'[c] = e
        BY <4>1, <1>t
      <4>3. ASSUME ~Astray, NEW a \in queue', NEW b \in queue', Covers(a, b)', a # b
            PROVE  b \in CoveredRows(callEvent[c])'
        <5>1. Covers(a, b)
          BY <4>3, <3>5, <1>a
        <5>2. b \in queue' /\ RecursiveOver(e, b) /\ ~SameKey(e, b)
          BY <5>1, <4>3, <3>4
        <5> QED BY <5>2, <4>2, <1>0 DEF CoveredRows, RecursiveOver, SameKey
      <4> QED BY <4>1, <4>2, <4>3, <1>0, <1>b, <1>s DEF MergeInv
    <3>7. CASE request[e].mode # "recursive"
      <4>1. Return(c)
        BY <1>3, <2>2, <3>7 DEF Upsert, Accept
      <4>2. ~Astray => RowsMerged'
        BY <3>4, <3>5, <3>7, <1>a DEF RowsMerged, RecursiveOver
      <4> QED BY <4>1, <4>2, <1>r, <1>s
    <3> QED BY <3>6, <3>7
  <2> QED BY <2>1, <2>2
<1>4. CASE DeleteCovered(c)
  <2>1. queue' = queue \ CoveredRows(e) /\ Return(c)
    BY <1>4 DEF DeleteCovered, Accept
  <2>2. \/ Astray \/ RowsMerged
        \/ \A a, b \in queue : Covers(a, b) /\ a # b => b \in CoveredRows(e)
    BY <1>b DEF MergeInv
  <2>3. Astray \/ RowsMerged'
    BY <2>1, <2>2, <1>a, <1>t DEF RowsMerged
  <2> QED BY <2>1, <2>3, <1>r, <1>s
<1>5. CASE CallFails(c)
  <2>1. Return(c) /\ UNCHANGED accepted
    BY <1>5 DEF CallFails
  <2> QED BY <2>1, <1>f
<1> QED BY <1>1, <1>2, <1>3, <1>4, <1>5 DEF CallStep

\* A new call keeps MergeInv; one that fails at once leaves its event astray.
LEMMA MergeBegin ==
  ASSUME OneCaller, TypeOK, MergeInv,
         NEW c \in Callers, NEW e \in Events, NEW q \in Requests, BeginCall(c, e, q)
  PROVE  MergeInv'
<1>n. [Next]_vars
  BY DEF Next
<1>1. /\ UNCHANGED <<queue, accepted>>
      /\ e \notin Begun /\ callPc[c] = "idle" /\ e \in Begun' /\ e \notin accepted
  BY DEF BeginCall, TypeOK, Begun
<1>2. \A d \in Callers : d = c
  BY DEF OneCaller
<1>3. \/ callPc'[c] = "find" /\ callEvent'[c] = e
      \/ callPc'[c] = "idle"
  BY <1>1 DEF BeginCall, TypeOK
<1>4. Astray \/ RowsMerged
  BY <1>1, <1>2 DEF MergeInv
<1>5. Astray => Astray'
  BY <1>n, AstrayKept
<1>6. RowsMerged => RowsMerged'
  <2>1. queue \subseteq Begun
    BY DEF TypeOK
  <2> QED BY <2>1, <1>n, <1>1, ScopesKept DEF RowsMerged
<1> QED BY <1>1, <1>2, <1>3, <1>4, <1>5, <1>6 DEF MergeInv

\* The rest only removes rows, or ends every call with the process.
LEMMA MergeRest ==
  ASSUME TypeOK, MergeInv,
         \/ WorkerStep \/ \E r \in Events : RunStep(r)
         \/ \E m \in Mounts : ChangeMount(m)
         \/ Tick \/ Stop \/ Crash \/ Exit \/ Restart \/ UNCHANGED vars
  PROVE  MergeInv'
<1>n. [Next]_vars
  BY DEF Next
<1>t. queue \subseteq Begun
  BY DEF TypeOK
<1>1. /\ queue' \subseteq queue /\ UNCHANGED <<request, accepted>>
      /\ \/ UNCHANGED <<callPc, callEvent>>
         \/ \A c \in Callers : callPc'[c] = "idle"
  BY DEF WorkerStep, WakeUp, AcquireSlot, SnapshotProviders, LoadDue,
         TryLockProvider, ValidateTarget, DiscardRow, Dequeue, RunStep,
         FinishScan, UnlockProvider, ReleaseSlot, Notify, ChangeMount, Tick,
         Stop, Crash, Exit, Die, Restart, dbVars, callVars, vars
<1>a. \A r, x \in Begun : Covers(r, x)' <=> Covers(r, x)
  BY <1>n, ScopesKept
<1>2. Astray => Astray'
  BY <1>n, AstrayKept
<1>3. RowsMerged => RowsMerged'
  BY <1>1, <1>a, <1>t DEF RowsMerged
<1>4. CASE UNCHANGED <<callPc, callEvent>>
  <2>1. ASSUME NEW c \in Callers,
               \A a, b \in queue : Covers(a, b) /\ a # b => b \in CoveredRows(callEvent[c])
        PROVE  (\A a, b \in queue : Covers(a, b) /\ a # b
                  => b \in CoveredRows(callEvent[c]))'
    BY <1>1, <1>4, <1>a, <1>t, <2>1 DEF CoveredRows, SameKey
  <2>2. ASSUME NEW c \in Callers,
               \A r \in queue : RecursiveOver(r, callEvent[c]) => SameKey(r, callEvent[c])
        PROVE  (\A r \in queue : RecursiveOver(r, callEvent[c])
                  => SameKey(r, callEvent[c]))'
    BY <1>1, <1>4, <2>2 DEF RecursiveOver, SameKey
  <2>3. \/ Astray' \/ RowsMerged'
        \/ \E c \in Callers :
             /\ callPc'[c] = "cleanup"
             /\ (\A a, b \in queue : Covers(a, b) /\ a # b
                   => b \in CoveredRows(callEvent[c]))'
    BY <1>2, <1>3, <1>4, <2>1 DEF MergeInv
  <2>4. \/ Astray'
        \/ \A c \in Callers : callPc'[c] = "upsert" =>
             (\A r \in queue : RecursiveOver(r, callEvent[c]) => SameKey(r, callEvent[c]))'
    BY <1>2, <1>4, <2>2 DEF MergeInv
  <2>5. \A c \in Callers : callPc'[c] # "idle" => callEvent'[c] \notin accepted'
    BY <1>1, <1>4 DEF MergeInv
  <2> QED BY <2>3, <2>4, <2>5 DEF MergeInv
<1>5. CASE \A c \in Callers : callPc'[c] = "idle"
  <2>1. Astray' \/ RowsMerged'
    <3>1. CASE \E c \in Callers : callPc[c] # "idle"
      BY <3>1, <1>1, <1>5, FailureAstray
    <3>2. CASE \A c \in Callers : callPc[c] = "idle"
      BY <3>2, <1>2, <1>3 DEF MergeInv
    <3> QED BY <3>1, <3>2
  <2> QED BY <2>1, <1>5 DEF MergeInv
<1> QED BY <1>1, <1>4, <1>5

\* MergeInv is an invariant, if calls do not overlap.
THEOREM MergesInOrder == OneCaller => (Spec => []MergeInv)
<1> SUFFICES ASSUME OneCaller PROVE Spec => []MergeInv
  OBVIOUS
<1>1. Init => MergeInv
  BY DEF Init, MergeInv, RowsMerged
<1>2. TypeOK /\ MergeInv /\ [Next]_vars => MergeInv'
  BY MergeCall, MergeBegin, MergeRest DEF Next
<1> QED BY <1>1, <1>2, TypeCorrect, PTL DEF Spec

\* When every call has succeeded, no row does what another would do as well,
\* also when scans, discards, stops and faults of the worker come in between.
THEOREM RowsAreMerged == OneCaller => (Spec => []MergedAtRest)
<1>1. TypeOK /\ MergeInv => MergedAtRest
  BY DEF TypeOK, MergeInv, MergedAtRest, Astray, RowsMerged
<1> QED BY <1>1, MergesInOrder, TypeCorrect, PTL

-----------------------------------------------------------------------------
(* The queue implements ScanIntents, but for its fairness *)

\* While accepted events are kept, an event is owed until it is settled.
LEMMA OwedUnsettled == KeptInv => Owed = accepted \ (served \cup dropped)
BY DEF KeptInv, AcceptedEventsKept, Owed

\* A step accepts the event of one call, or serves and drops events, or neither.
LEMMA StepKinds ==
  ASSUME TypeOK, KeptInv, [Next]_vars
  PROVE  \/ /\ UNCHANGED <<served, dropped>>
            /\ \E e \in Events : e \notin accepted /\ accepted' = accepted \cup {e}
         \/ /\ UNCHANGED accepted
            /\ served \subseteq served' /\ dropped \subseteq dropped'
<1>1. ASSUME NEW c \in Callers, CallStep(c)
      PROVE  /\ UNCHANGED <<served, dropped>>
             /\ \/ UNCHANGED accepted
                \/ /\ callEvent[c] \in Events /\ callEvent[c] \notin accepted
                   /\ accepted' = accepted \cup {callEvent[c]}
  <2>1. callPc[c] # "idle"
    BY <1>1 DEF CallStep, FindCovering, Touch, Upsert, DeleteCovered, CallFails, AtStep
  <2>2. callEvent[c] \in Events /\ callEvent[c] \notin accepted
    BY <2>1 DEF TypeOK, KeptInv
  <2> QED
    BY <1>1, <2>2 DEF CallStep, FindCovering, Touch, Upsert, DeleteCovered, CallFails, Accept
<1>2. CASE WorkerStep
  BY <1>2 DEF WorkerStep, WakeUp, AcquireSlot, SnapshotProviders, LoadDue,
     TryLockProvider, ValidateTarget, DiscardRow, Dequeue, StartScan
<1>3. CASE \E m \in Mounts : ChangeMount(m)
  BY <1>3 DEF ChangeMount
<1>4. CASE \/ \E c \in Callers, e \in Events, q \in Requests : BeginCall(c, e, q)
           \/ \E r \in Events : RunStep(r)
           \/ Tick \/ Stop \/ Crash \/ Exit \/ Restart \/ UNCHANGED vars
  BY <1>4 DEF BeginCall, RunStep, FinishScan, UnlockProvider, ReleaseSlot, Notify,
     Tick, Stop, Crash, Exit, Die, Restart, vars
<1> QED BY <1>1, <1>2, <1>3, <1>4 DEF Next

\* Accepting an event submits it; serving and dropping events settles those
\* that were owed; every other step is invisible.
LEMMA StepImplements ==
  ASSUME TypeOK, KeptInv, KeptInv', [Next]_vars
  PROVE  [Intents!Next]_(Intents!vars)
<1> DEFINE S == Owed \ Owed'
<1>1. /\ Owed = accepted \ (served \cup dropped)
      /\ Owed' = accepted' \ (served' \cup dropped')
      /\ Settled = accepted \cap (served \cup dropped)
      /\ Settled' = accepted' \cap (served' \cup dropped')
  <2>1. (KeptInv => Owed = accepted \ (served \cup dropped))'
    BY OwedUnsettled, PTL
  <2> QED BY <2>1, OwedUnsettled DEF Settled
<1>2. CASE /\ UNCHANGED <<served, dropped>>
           /\ \E e \in Events : e \notin accepted /\ accepted' = accepted \cup {e}
  <2>1. PICK e \in Events : e \notin accepted /\ accepted' = accepted \cup {e}
    BY <1>2
  <2>2. Intents!Submit(e)
    BY <1>1, <1>2, <2>1 DEF Intents!Submit
  <2> QED BY <2>2 DEF Intents!Next
<1>3. CASE /\ UNCHANGED accepted
           /\ served \subseteq served' /\ dropped \subseteq dropped'
  <2>1. S \subseteq Owed /\ Owed' = Owed \ S /\ Settled' = Settled \cup S
    BY <1>1, <1>3
  <2>2. CASE S = {}
    BY <2>1, <2>2 DEF Intents!vars
  <2>3. CASE S # {}
    BY <2>1, <2>3 DEF Intents!Settle, Intents!Next
  <2> QED BY <2>2, <2>3
<1> QED BY <1>2, <1>3, StepKinds

\* The queue never takes an intent twice, loses one or takes one back: its
\* steps are those of ScanIntents, if calls do not overlap and statements do
\* not fail.
THEOREM ImplementsIntents == OneCaller /\ ~Faults => (Spec => Intents!SafeSpec)
<1> SUFFICES ASSUME OneCaller, ~Faults PROVE Spec => Intents!SafeSpec
  OBVIOUS
<1>1. Init => Intents!Init
  BY DEF Init, Intents!Init, Owed, Settled
<1>2. TypeOK /\ KeptInv /\ KeptInv' /\ [Next]_vars => [Intents!Next]_(Intents!vars)
  BY StepImplements
<1>3. Spec => []KeptInv
  BY KeptInOrder
<1> QED BY <1>1, <1>2, <1>3, TypeCorrect, PTL DEF Spec, Intents!SafeSpec

=============================================================================
