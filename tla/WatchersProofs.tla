--------------------------- MODULE WatchersProofs ---------------------------
(***************************************************************************)
(* Proofs about Watchers, for every set of libraries, mounts, providers    *)
(* and timers and every bound.                                             *)
(***************************************************************************)
EXTENDS Watchers, FiniteSetTheorems, TLAPS

-----------------------------------------------------------------------------
(* Counting the callbacks that are still to come *)

\* A request is owed for a row that was written, and watchTimerWG counts the
\* timers that are armed or whose callback runs.
Counted == owed <= switches /\ wg = Cardinality(InUse)

\* Removing timers from those in use, and adding one.
LEMMA Uncount ==
  ASSUME NEW S \in SUBSET InUse
  PROVE  /\ Cardinality(InUse) \in Nat /\ Cardinality(S) \in Nat
         /\ Cardinality(InUse \ S) = Cardinality(InUse) - Cardinality(S)
         /\ \A t \in Timer \ InUse :
              Cardinality((InUse \ S) \cup {t}) = Cardinality(InUse) + 1 - Cardinality(S)
<1>1. IsFiniteSet(InUse) /\ IsFiniteSet(S) /\ IsFiniteSet(InUse \ S)
  BY MountAssumption, FS_Subset DEF InUse
<1>2. Cardinality(InUse) \in Nat /\ Cardinality(S) \in Nat /\ Cardinality(InUse \ S) \in Nat
  BY <1>1, FS_CardinalityType
<1>3. InUse \cap S = S
  OBVIOUS
<1>4. Cardinality(InUse \ S) = Cardinality(InUse) - Cardinality(S)
  BY <1>1, <1>3, FS_Difference
<1>5. ASSUME NEW t \in Timer \ InUse
      PROVE  Cardinality((InUse \ S) \cup {t}) = Cardinality(InUse) + 1 - Cardinality(S)
  <2>1. Cardinality((InUse \ S) \cup {t}) = Cardinality(InUse \ S) + 1
    BY <1>1, FS_AddElement
  <2> QED BY <1>2, <1>4, <2>1
<1> QED BY <1>2, <1>4, <1>5

LEMMA UncountOne ==
  ASSUME NEW t \in InUse
  PROVE  Cardinality(InUse) \in Nat /\ Cardinality(InUse \ {t}) = Cardinality(InUse) - 1
<1>1. {t} \in SUBSET InUse /\ Cardinality({t}) = 1
  BY FS_Singleton
<1> QED BY <1>1, Uncount

\* What becomes of the timers when the loop stops them.
LEMMA StopCounted ==
  ASSUME TypeOK, Counted, StopTimers
  PROVE  wg' = Cardinality(InUse') /\ InUse' \subseteq InUse
         /\ \A t \in InUse' : timers'[t].gen = timers[t].gen
<1> DEFINE armed == {t \in Timer : timers[t].st = "armed"}
<1>1. armed \in SUBSET InUse
  BY DEF InUse
<1>2. /\ InUse' = InUse \ armed
      /\ \A t \in InUse' : timers'[t].gen = timers[t].gen
  BY DEF StopTimers, InUse, NoTimer, TypeOK, TimerType
<1>3. wg' = wg - Cardinality(armed)
  BY DEF StopTimers
<1> QED BY <1>1, <1>2, <1>3, Uncount DEF Counted

\* A timer that is replaced is stopped if it has not fired.
LEMMA RescanCounted ==
  ASSUME TypeOK, Counted, NEW g \in routines, ScheduleRescan(g)
  PROVE  /\ wg' = Cardinality(InUse') /\ timers' \in [Timer -> TimerType]
         /\ \A t \in InUse' : timers'[t].gen = g.gen \/ (t \in InUse /\ timers'[t].gen = timers[t].gen)
<1> DEFINE lib == LibraryOf[g.mount]
           old == {t \in InUse : timers[t].cur /\ timers[t].lib = lib}
           stopped == {t \in old : timers[t].st = "armed"}
<1>1. CASE UNCHANGED <<timers, wg>>
  BY <1>1 DEF Counted, InUse, TypeOK
<1>2. ASSUME NEW new \in Timer \ InUse,
             timers' = [t \in Timer |->
               IF t = new THEN [st |-> "armed", lib |-> lib, gen |-> g.gen, cur |-> TRUE]
               ELSE IF t \in stopped THEN NoTimer
               ELSE IF t \in old THEN [timers[t] EXCEPT !.cur = FALSE]
               ELSE timers[t]],
             wg' = wg + 1 - Cardinality(stopped)
      PROVE  /\ wg' = Cardinality(InUse') /\ timers' \in [Timer -> TimerType]
             /\ \A t \in InUse' :
                  timers'[t].gen = g.gen \/ (t \in InUse /\ timers'[t].gen = timers[t].gen)
  <2>1. stopped \in SUBSET InUse
    OBVIOUS
  <2>2. \A t \in Timer : timers[t] \in TimerType
    BY DEF TypeOK
  <2>3. lib \in Library /\ g.gen \in Nat /\ NoTimer.st = "free" /\ NoTimer \in TimerType
    BY <1>2, MountAssumption DEF TypeOK, RoutineType, NoTimer, TimerType
  <2> HIDE DEF lib
  <2>4. \A t \in Timer : /\ timers'[t] \in TimerType
                         /\ t = new => timers'[t].st = "armed" /\ timers'[t].gen = g.gen
                         /\ t \in stopped => timers'[t].st = "free"
                         /\ t \notin stopped \cup {new} => timers'[t].st = timers[t].st
                                                          /\ timers'[t].gen = timers[t].gen
    <3> SUFFICES ASSUME NEW t \in Timer
                 PROVE  /\ timers'[t] \in TimerType
                        /\ t = new => timers'[t].st = "armed" /\ timers'[t].gen = g.gen
                        /\ t \in stopped => timers'[t].st = "free"
                        /\ t \notin stopped \cup {new} => timers'[t].st = timers[t].st
                                                         /\ timers'[t].gen = timers[t].gen
      OBVIOUS
    <3>1. CASE t = new
      BY <1>2, <2>3, <3>1 DEF TimerType
    <3>2. CASE t \in stopped
      BY <1>2, <2>1, <2>3, <3>2
    <3>3. CASE t \in old \ stopped
      BY <1>2, <2>2, <3>3 DEF TimerType
    <3>4. CASE t \notin old \cup {new}
      BY <1>2, <2>2, <3>4
    <3> QED BY <3>1, <3>2, <3>3, <3>4
  <2>5. InUse' = (InUse \ stopped) \cup {new} /\ InUse' \subseteq Timer
    BY <2>4 DEF InUse
  <2>6. timers' \in [Timer -> TimerType]
    BY <1>2, <2>4
  <2> HIDE DEF stopped
  <2>7. wg' = wg + 1 - Cardinality(stopped) /\ wg = Cardinality(InUse)
    BY <1>2 DEF Counted
  <2>8. Cardinality((InUse \ stopped) \cup {new}) = Cardinality(InUse) + 1 - Cardinality(stopped)
    BY <1>2, <2>1, Uncount
  <2>9. wg' = Cardinality(InUse')
    BY <2>5, <2>7, <2>8
  <2> QED BY <2>4, <2>5, <2>6, <2>9
<1> QED BY <1>1, <1>2 DEF ScheduleRescan

\* A callback is counted until it returns.
LEMMA TimerCounted ==
  ASSUME TypeOK, Counted, NEW t \in Timer, TimerStep(t)
  PROVE  /\ wg' = Cardinality(InUse') /\ timers' \in [Timer -> TimerType]
         /\ \A u \in InUse' : u \in InUse /\ timers'[u].gen = timers[u].gen
<1>1. timers[t] \in TimerType /\ NoTimer \in TimerType /\ NoTimer.st = "free"
  BY MountAssumption DEF TypeOK, NoTimer, TimerType
<1>2. ASSUME NEW r \in TimerType, timers' = [timers EXCEPT ![t] = r], timers[t].st # "free",
             r.gen = timers[t].gen \/ r.st = "free",
             wg' = IF r.st = "free" THEN wg - 1 ELSE wg
      PROVE  /\ wg' = Cardinality(InUse') /\ timers' \in [Timer -> TimerType]
             /\ \A u \in InUse' : u \in InUse /\ timers'[u].gen = timers[u].gen
  <2>1. t \in InUse /\ timers' \in [Timer -> TimerType]
    BY <1>2 DEF InUse, TypeOK
  <2>2. timers'[t] = r /\ \A u \in Timer : u # t => timers'[u] = timers[u]
    BY <1>2 DEF TypeOK
  <2>3. InUse' = IF r.st = "free" THEN InUse \ {t} ELSE InUse
    BY <1>2, <2>2 DEF InUse
  <2>4. wg' = Cardinality(InUse')
    BY <1>2, <2>1, <2>3, UncountOne DEF Counted
  <2>5. \A u \in InUse' : u \in InUse /\ timers'[u].gen = timers[u].gen
    BY <1>2, <2>2, <2>3 DEF InUse
  <2> QED BY <2>1, <2>4, <2>5
<1>3. CASE Fire(t)
  <2> DEFINE r == [timers[t] EXCEPT !.st = "fired"]
  <2>1. r \in TimerType /\ r.st = "fired" /\ r.gen = timers[t].gen
    BY <1>1 DEF TimerType
  <2>2. timers' = [timers EXCEPT ![t] = r] /\ timers[t].st # "free" /\ wg' = wg
    BY <1>3 DEF Fire
  <2> HIDE DEF r
  <2> QED BY <1>2, <2>1, <2>2
<1>4. CASE Callback(t) /\ timers[t].cur
  <2> DEFINE r == [timers[t] EXCEPT !.st = "popped", !.cur = FALSE]
  <2>1. r \in TimerType /\ r.st = "popped" /\ r.gen = timers[t].gen
    BY <1>1 DEF TimerType
  <2>2. timers' = [timers EXCEPT ![t] = r] /\ timers[t].st # "free" /\ wg' = wg
    BY <1>4 DEF Callback
  <2> HIDE DEF r
  <2> QED BY <1>2, <2>1, <2>2
<1>5. CASE Callback(t) /\ ~timers[t].cur
  <2>1. timers' = [timers EXCEPT ![t] = NoTimer] /\ timers[t].st # "free" /\ wg' = wg - 1
    BY <1>5 DEF Callback
  <2> QED BY <1>1, <1>2, <2>1
<1>6. CASE EnqueueLibrary(t)
  <2>1. timers' = [timers EXCEPT ![t] = NoTimer] /\ timers[t].st # "free" /\ wg' = wg - 1
    BY <1>6 DEF EnqueueLibrary
  <2> QED BY <1>1, <1>2, <2>1
<1> QED BY <1>3, <1>4, <1>5, <1>6 DEF TimerStep

-----------------------------------------------------------------------------
(* The invariant *)

Running == loop.pc \in {"listing", "starting", "waiting"}

Watched(m) == \E g \in routines : g.mount = m

\* The loop has yet to come to the mount.
Ahead(m) == m \in loop.mounts \/ LibraryOf[m] \in loop.libs

\* No change of a row is on its way to the loop.
Quiet == owed = 0 /\ reload = 0 /\ ~closing

\* There is one generation, and while the loop starts or serves it, it is not
\* cancelled.
Current ==
  /\ \A g \in routines : g.gen = gen
  /\ \A t \in InUse : timers[t].gen = gen
  /\ Running => ended < gen

\* What is empty where the loop is.
Phased ==
  /\ loop.pc \in {"draining", "listing", "stopped"} => routines = {}
  /\ loop.pc # "starting" => loop.libs = {} /\ loop.mounts = {}
  /\ loop.pc = "listing" => gaps = {}

\* A mount is watched once, or has a gap, or the loop has yet to come to it.
Apart ==
  /\ \A g, h \in routines : g.mount = h.mount => g = h
  /\ \A m \in Mount : Watched(m) => m \notin gaps /\ ~Ahead(m)
  /\ \A m \in Mount : Ahead(m) => m \notin gaps
  /\ \A m \in loop.mounts : LibraryOf[m] \notin loop.libs

\* When no change is on its way, what the loop has read and what it has started
\* is what the rows ask for.
Heeded ==
  Quiet /\ loop.pc \in {"starting", "waiting"} =>
    /\ loop.libs \subseteq on
    /\ \A m \in loop.mounts : {m, LibraryOf[m]} \subseteq on
    /\ \A m \in Mount : Watched(m) => Wanted(m)
    /\ \A m \in Mount : Wanted(m) => Watched(m) \/ m \in gaps \/ Ahead(m)

WatchInv == TypeOK /\ Counted /\ Current /\ Phased /\ Apart /\ Heeded /\ StatusTruth

LEMMA InitHolds == Init => WatchInv
<1> SUFFICES ASSUME Init PROVE WatchInv
  OBVIOUS
<1>1. \A t \in Timer : NoTimer \in TimerType /\ NoTimer.st = "free"
  BY MountAssumption DEF NoTimer, TimerType
<1>2. timers \in [Timer -> TimerType] /\ InUse = {}
  BY <1>1 DEF Init, InUse
<1>3. loop \in LoopType /\ loop.pc = "listing" /\ loop.libs = {} /\ loop.mounts = {}
  BY DEF Init, LoopType
<1>4. on \subseteq Row
  BY MountAssumption DEF Init, Row
<1>5. TypeOK
  <2>1. status \in [Mount -> [active : BOOLEAN, error : BOOLEAN]]
    BY DEF Init
  <2>2. /\ owed = 0 /\ reload = 0 /\ gen = 1 /\ ended = 0 /\ closing = FALSE /\ wg = 0
        /\ routines = {} /\ gaps = {} /\ due = {} /\ switches = 0 /\ changes = 0
    BY DEF Init
  <2>3. 0 \in 0..MaxSwitches /\ 0 \in 0..MaxChanges /\ 0 \in 0..gen
    BY <2>2, MountAssumption
  <2> QED BY <1>2, <1>3, <1>4, <2>1, <2>2, <2>3 DEF TypeOK
<1>6. Counted
  BY <1>2, FS_EmptySet DEF Init, Counted
<1>7. /\ routines = {} /\ gaps = {} /\ ended = 0 /\ gen = 1
      /\ \A m \in Mount : ~status[m].active /\ ~status[m].error
  BY DEF Init
<1>8. Current /\ Phased /\ Apart /\ Heeded
  BY <1>2, <1>3, <1>7 DEF Current, Phased, Apart, Heeded, Watched, Ahead
<1>9. StatusTruth
  BY <1>7 DEF StatusTruth
<1> QED BY <1>5, <1>6, <1>8, <1>9 DEF WatchInv

-----------------------------------------------------------------------------
(* The steps of handlers, timers and the tree *)

\* Steps that leave the watchers and what the loop does alone.
LEMMA AsideKept ==
  ASSUME WatchInv, TypeOK', Counted', UNCHANGED <<loop, gen, ended, routines, gaps, status>>,
         UNCHANGED <<on, owed, reload, closing>> \/ ~Quiet',
         \A t \in InUse' : t \in InUse /\ timers'[t].gen = timers[t].gen
  PROVE  WatchInv'
<1>1. Current'
  BY DEF WatchInv, Current, Running
<1>2. Phased' /\ Apart' /\ StatusTruth'
  BY DEF WatchInv, Phased, Apart, StatusTruth, Watched, Ahead
<1>3. Heeded'
  BY DEF WatchInv, Heeded, Quiet, Watched, Ahead, Wanted
<1> QED BY <1>1, <1>2, <1>3 DEF WatchInv

LEMMA HandlerKept ==
  ASSUME WatchInv, (\E r \in Row : WriteRow(r)) \/ RequestReload \/ Shutdown
  PROVE  WatchInv'
<1> USE DEF WatchInv
<1>1. UNCHANGED <<loop, gen, ended, routines, gaps, status, timers, wg, due, changes>>
  BY DEF WriteRow, RequestReload, Shutdown
<1>2. InUse' = InUse /\ \A t \in InUse : timers'[t].gen = timers[t].gen
  BY <1>1 DEF InUse
<1>3. Cardinality(InUse') = Cardinality(InUse)
  BY <1>2
<1>4. owed \in Nat /\ switches \in Nat /\ MaxSwitches \in Nat
  BY MountAssumption DEF TypeOK
<1>5. ~Quiet'
  BY <1>4 DEF WriteRow, RequestReload, Shutdown, Quiet
<1>6. /\ on' \subseteq Row /\ owed' \in 0..MaxSwitches /\ owed' <= switches'
      /\ reload' \in 0..1 /\ closing' \in BOOLEAN /\ switches' \in 0..MaxSwitches
  <2>1. ASSUME NEW r \in Row, WriteRow(r)
        PROVE  /\ on' \subseteq Row /\ owed' = owed + 1 /\ switches' = switches + 1
               /\ switches < MaxSwitches /\ UNCHANGED <<reload, closing>>
    BY <2>1 DEF WriteRow, TypeOK
  <2>2. RequestReload => owed > 0 /\ owed' = owed - 1 /\ reload' = 1 /\ UNCHANGED <<on, closing, switches>>
    BY DEF RequestReload
  <2>3. Shutdown => closing' = TRUE /\ UNCHANGED <<on, owed, reload, switches>>
    BY DEF Shutdown
  <2>4. on \subseteq Row /\ reload \in 0..1 /\ closing \in BOOLEAN /\ owed <= switches /\ switches <= MaxSwitches
    BY DEF TypeOK, Counted
  <2>5. CASE \E r \in Row : WriteRow(r)
    BY <1>4, <2>1, <2>4, <2>5
  <2>6. CASE RequestReload
    BY <1>4, <2>2, <2>4, <2>6
  <2>7. CASE Shutdown
    BY <1>4, <2>3, <2>4, <2>7
  <2> QED BY <2>5, <2>6, <2>7
<1>7. TypeOK' /\ Counted'
  BY <1>1, <1>3, <1>6 DEF TypeOK, Counted
<1> QED BY <1>1, <1>2, <1>5, <1>7, AsideKept

LEMMA TimerKept ==
  ASSUME WatchInv, NEW t \in Timer, TimerStep(t)
  PROVE  WatchInv'
<1>1. /\ UNCHANGED <<on, owed, reload, loop, gen, ended, closing, routines, gaps, status>>
      /\ UNCHANGED <<switches, changes>> /\ due' \subseteq due
  BY DEF TimerStep, Fire, Callback, EnqueueLibrary
<1>2. /\ wg' = Cardinality(InUse') /\ timers' \in [Timer -> TimerType]
      /\ \A u \in InUse' : u \in InUse /\ timers'[u].gen = timers[u].gen
  BY TimerCounted DEF WatchInv
<1>3. InUse' \in SUBSET InUse
  BY <1>2
<1>4. wg' \in Nat
  <2>1. IsFiniteSet(InUse')
    BY <1>3, MountAssumption, FS_Subset DEF InUse
  <2> QED BY <1>2, <2>1, FS_CardinalityType
<1>5. TypeOK' /\ Counted'
  BY <1>1, <1>2, <1>4 DEF WatchInv, TypeOK, Counted
<1> QED BY <1>1, <1>2, <1>5, AsideKept

\* What a change below a mount does to the watchers: their inboxes grow.
LEMMA ChangeShape ==
  ASSUME TypeOK, NEW m \in Mount, NEW kind \in {"file", "dir"}, Change(m, kind)
  PROVE  \E R \in [routines -> RoutineType] :
           /\ routines' = {R[g] : g \in routines}
           /\ \A g \in routines : R[g].mount = g.mount /\ R[g].gen = g.gen /\ R[g].st = g.st
<1>0. PICK missed \in SUBSET {g \in routines : g.mount = m /\ g.st = "adding"} :
        LET T == {g \in routines : g.mount = m /\ g.st # "starting"} \ missed
        IN  routines' = (routines \ T) \cup {[g EXCEPT !.inbox = @ \cup {kind}] : g \in T}
  BY DEF Change
<1> DEFINE Told == {g \in routines : g.mount = m /\ g.st # "starting"} \ missed
           R == [g \in routines |-> IF g \in Told THEN [g EXCEPT !.inbox = @ \cup {kind}] ELSE g]
<1>1. \A g \in routines : g \in RoutineType
  BY DEF TypeOK
<1>2. ASSUME NEW g \in routines
      PROVE  R[g] \in RoutineType /\ R[g].mount = g.mount /\ R[g].gen = g.gen /\ R[g].st = g.st
  BY <1>1, <1>2 DEF RoutineType
<1>3. routines' = (routines \ Told) \cup {[g EXCEPT !.inbox = @ \cup {kind}] : g \in Told}
  BY <1>0
<1>4. routines' = {R[g] : g \in routines}
  BY <1>3
<1>5. R \in [routines -> RoutineType]
  BY <1>2
<1> HIDE DEF R
<1> QED BY <1>2, <1>4, <1>5

LEMMA ChangeKept ==
  ASSUME WatchInv, NEW m \in Mount, NEW kind \in {"file", "dir"}, Change(m, kind)
  PROVE  WatchInv'
<1> USE DEF WatchInv
<1>1. PICK R \in [routines -> RoutineType] :
        /\ routines' = {R[g] : g \in routines}
        /\ \A g \in routines : R[g].mount = g.mount /\ R[g].gen = g.gen /\ R[g].st = g.st
  BY ChangeShape
<1>2. /\ UNCHANGED <<on, owed, reload, loop, gen, ended, closing, timers, wg, status, gaps>>
      /\ UNCHANGED switches /\ changes' = changes + 1 /\ changes < MaxChanges
      /\ due' \subseteq Library
  BY MountAssumption DEF Change, TypeOK
<1>3. changes' \in 0..MaxChanges
  BY <1>2, MountAssumption DEF TypeOK
<1>4. TypeOK'
  BY <1>1, <1>2, <1>3 DEF TypeOK
<1>5. InUse' = InUse
  BY <1>2 DEF InUse
<1>6. Counted' /\ Current' /\ Phased'
  BY <1>1, <1>2, <1>5 DEF Counted, Current, Phased, Running, InUse
<1>7. \A x \in Mount : Watched(x)' <=> Watched(x)
  BY <1>1 DEF Watched
<1>8. \A x \in Mount : (\E g \in routines' : g.mount = x /\ g.st # "starting")
                       <=> (\E g \in routines : g.mount = x /\ g.st # "starting")
  BY <1>1
<1>9. Apart'
  BY <1>1, <1>2, <1>7 DEF Apart, Ahead, TypeOK, LoopType
<1>10. Heeded'
  BY <1>2, <1>7 DEF Heeded, Quiet, Ahead, Wanted
<1>11. StatusTruth'
  BY <1>2, <1>7, <1>8 DEF StatusTruth, Watched
<1> QED BY <1>4, <1>6, <1>9, <1>10, <1>11

-----------------------------------------------------------------------------
(* The steps of the loop *)

\* Steps that leave the timers alone keep them counted.
LEMMA TimersAside ==
  ASSUME Counted, UNCHANGED <<timers, wg, owed, switches>>
  PROVE  Counted' /\ InUse' = InUse
BY DEF Counted, InUse

LEMMA EndKept ==
  ASSUME WatchInv, TakeReload \/ Leave
  PROVE  WatchInv'
<1> USE DEF WatchInv
<1>1. PICK next \in {"listing", "stopped"} : EndGeneration(next)
  BY DEF TakeReload, Leave
<1>2. /\ loop.pc = "waiting" /\ loop' = [loop EXCEPT !.pc = "stopping", !.then = next]
      /\ ended' = gen /\ UNCHANGED <<on, owed, gen, closing, routines, timers, wg>>
      /\ UNCHANGED <<gaps, due, switches, changes>>
  BY <1>1 DEF EndGeneration
<1>3. UNCHANGED status /\ reload' \in 0..1
  BY DEF TakeReload, Leave, TypeOK
<1>4. /\ loop' \in LoopType /\ loop'.pc = "stopping"
      /\ loop'.libs = loop.libs /\ loop'.mounts = loop.mounts
  BY <1>2 DEF TypeOK, LoopType
<1>5. Counted' /\ InUse' = InUse
  BY <1>2, TimersAside
<1>6. TypeOK'
  BY <1>2, <1>3, <1>4 DEF TypeOK
<1>7. Current' /\ Phased'
  BY <1>2, <1>4, <1>5 DEF Current, Phased, Running, InUse
<1>8. Apart' /\ StatusTruth' /\ Heeded'
  BY <1>2, <1>3, <1>4 DEF Apart, StatusTruth, Heeded, Watched, Ahead
<1> QED BY <1>5, <1>6, <1>7, <1>8

LEMMA DrainKept ==
  ASSUME WatchInv, DrainWatchers
  PROVE  WatchInv'
<1> USE DEF WatchInv
<1>1. /\ loop.pc = "stopping" /\ routines = {} /\ StopTimers
      /\ due' \subseteq due /\ loop' = [loop EXCEPT !.pc = "draining"]
      /\ UNCHANGED <<on, owed, reload, gen, ended, closing, routines, status, gaps>>
      /\ UNCHANGED <<switches, changes>>
  BY DEF DrainWatchers, StopWatchers
<1>2. /\ loop' \in LoopType /\ loop'.pc = "draining"
      /\ loop'.libs = loop.libs /\ loop'.mounts = loop.mounts
  BY <1>1 DEF TypeOK, LoopType
<1>3. /\ wg' = Cardinality(InUse') /\ InUse' \subseteq InUse
      /\ \A t \in InUse' : timers'[t].gen = timers[t].gen
  BY <1>1, StopCounted
<1>4. timers' \in [Timer -> TimerType] /\ wg' \in Nat
  <2>1. \A t \in Timer : NoTimer \in TimerType /\ [timers[t] EXCEPT !.cur = FALSE] \in TimerType
    BY MountAssumption DEF TypeOK, NoTimer, TimerType
  <2>2. timers' \in [Timer -> TimerType]
    BY <1>1, <2>1 DEF StopTimers
  <2>3. IsFiniteSet(InUse')
    BY <1>3, MountAssumption, FS_Subset DEF InUse
  <2> QED BY <1>3, <2>2, <2>3, FS_CardinalityType
<1>5. TypeOK' /\ Counted'
  BY <1>1, <1>2, <1>3, <1>4 DEF TypeOK, Counted
<1>6. Current' /\ Phased'
  BY <1>1, <1>2, <1>3 DEF Current, Phased, Running
<1>7. Apart' /\ StatusTruth' /\ Heeded'
  BY <1>1, <1>2 DEF Apart, StatusTruth, Heeded, Watched, Ahead
<1> QED BY <1>5, <1>6, <1>7

LEMMA NextKept ==
  ASSUME WatchInv, NextGeneration
  PROVE  WatchInv'
<1> USE DEF WatchInv
<1>1. /\ loop.pc = "draining" /\ wg = 0 /\ loop' = [loop EXCEPT !.pc = loop.then]
      /\ UNCHANGED <<on, owed, reload, ended, closing, routines, timers, wg, due>>
      /\ UNCHANGED <<switches, changes>>
  BY DEF NextGeneration
<1>2. /\ loop' \in LoopType /\ loop'.pc \in {"listing", "stopped"} /\ loop'.pc = loop.then
      /\ loop'.libs = {} /\ loop'.mounts = {} /\ routines = {}
  BY <1>1 DEF TypeOK, LoopType, Phased
<1>3. Counted' /\ InUse' = InUse
  BY <1>1, TimersAside
<1>4. InUse = {}
  <2>1. IsFiniteSet(InUse)
    BY MountAssumption, FS_Subset DEF InUse
  <2> QED BY <1>1, <2>1, FS_EmptySet DEF Counted
<1>5. CASE loop.then = "listing"
  <2>1. gen' = gen + 1 /\ status' = ResetStatus /\ gaps' = {}
    BY <1>5 DEF NextGeneration
  <2>2. /\ status' \in [Mount -> [active : BOOLEAN, error : BOOLEAN]]
        /\ \A m \in Mount : ~status'[m].active /\ ~status'[m].error
    BY <2>1 DEF ResetStatus
  <2>3. gen' \in Nat /\ ended' \in 0..gen' /\ ended' < gen'
    BY <1>1, <2>1 DEF TypeOK
  <2>4. TypeOK'
    BY <1>1, <1>2, <2>1, <2>2, <2>3 DEF TypeOK
  <2>5. Current' /\ Phased'
    BY <1>1, <1>2, <1>3, <1>4, <2>1, <2>3 DEF Current, Phased, Running
  <2>6. Apart' /\ StatusTruth' /\ Heeded'
    BY <1>1, <1>2, <1>5, <2>1, <2>2 DEF Apart, StatusTruth, Heeded, Watched, Ahead
  <2> QED BY <1>3, <2>4, <2>5, <2>6
<1>6. CASE loop.then = "stopped"
  <2>1. UNCHANGED <<gen, status, gaps>>
    BY <1>6 DEF NextGeneration
  <2>2. TypeOK'
    BY <1>1, <1>2, <2>1 DEF TypeOK
  <2>3. Current' /\ Phased'
    BY <1>1, <1>2, <1>3, <1>4, <1>6, <2>1 DEF Current, Phased, Running
  <2>4. Apart' /\ StatusTruth' /\ Heeded'
    BY <1>1, <1>2, <1>6, <2>1 DEF Apart, StatusTruth, Heeded, Watched, Ahead
  <2> QED BY <1>3, <2>2, <2>3, <2>4
<1> QED BY <1>2, <1>5, <1>6

\* What the loop does while it lists and starts.
LEMMA StartingAside ==
  ASSUME WatchInv, ListLibraries \/ Started \/ (\E l \in Library : ListMounts(l))
                   \/ (\E m \in Mount : StartMountWatcher(m))
  PROVE  /\ UNCHANGED <<on, owed, reload, gen, ended, closing, timers, wg, due, switches, changes>>
         /\ Counted' /\ InUse' = InUse
<1>1. UNCHANGED <<on, owed, reload, gen, ended, closing, timers, wg, due, switches, changes>>
  BY DEF ListLibraries, Started, ListMounts, StartMountWatcher
<1> QED BY <1>1, TimersAside DEF WatchInv

LEMMA LibrariesKept ==
  ASSUME WatchInv, ListLibraries
  PROVE  WatchInv'
<1> USE DEF WatchInv
<1>1. /\ UNCHANGED <<on, owed, reload, gen, ended, closing, timers, wg, due, switches, changes>>
      /\ Counted' /\ InUse' = InUse
  BY StartingAside
<1>2. loop.pc = "listing" /\ routines = {} /\ loop.libs = {} /\ loop.mounts = {} /\ gaps = {}
      /\ UNCHANGED <<routines, status>>
  BY DEF ListLibraries, Phased
<1>3. /\ loop' \in LoopType /\ loop'.pc = "starting" /\ loop'.mounts = {}
      /\ \/ loop'.libs = Library \cap on /\ gaps' = {}
         \/ loop'.libs = {} /\ gaps' = Mount
  BY <1>2 DEF ListLibraries, TypeOK, LoopType
<1>4. TypeOK'
  BY <1>1, <1>2, <1>3 DEF TypeOK
<1>5. Current' /\ Phased'
  BY <1>1, <1>2, <1>3 DEF Current, Phased, Running
<1>6. Apart' /\ StatusTruth'
  BY <1>2, <1>3 DEF Apart, StatusTruth, Watched, Ahead
<1>7. Heeded'
  BY <1>1, <1>2, <1>3, MountAssumption DEF Heeded, Watched, Ahead, Wanted
<1> QED BY <1>1, <1>4, <1>5, <1>6, <1>7

LEMMA MountsKept ==
  ASSUME WatchInv, NEW l \in Library, ListMounts(l)
  PROVE  WatchInv'
<1> USE DEF WatchInv
<1>1. /\ UNCHANGED <<on, owed, reload, gen, ended, closing, timers, wg, due, switches, changes>>
      /\ Counted' /\ InUse' = InUse
  BY StartingAside
<1>2. /\ loop.pc = "starting" /\ loop.mounts = {} /\ l \in loop.libs
      /\ UNCHANGED <<routines, status>>
  BY DEF ListMounts
<1> DEFINE of == {m \in Mount : LibraryOf[m] = l}
<1>3. /\ loop' \in LoopType /\ loop'.pc = "starting"
      /\ \/ ~closing /\ loop'.libs = loop.libs \ {l} /\ loop'.mounts = of \cap on /\ gaps' = gaps
         \/ loop'.libs = loop.libs \ {l} /\ loop'.mounts = {} /\ gaps' = gaps \cup of
         \/ closing /\ loop'.libs = {} /\ loop'.mounts = {} /\ gaps' = gaps \cup of
  BY <1>2 DEF ListMounts, TypeOK, LoopType
<1>4. \A m \in Mount : Ahead(m)' => Ahead(m) /\ m \notin gaps'
  BY <1>2, <1>3 DEF Ahead, Apart
<1>5. TypeOK'
  BY <1>1, <1>2, <1>3 DEF TypeOK
<1>6. Current' /\ Phased'
  BY <1>1, <1>2, <1>3 DEF Current, Phased, Running
<1>7. \A m \in Mount : Watched(m)' = Watched(m) /\ (Watched(m) => m \notin gaps')
  BY <1>2, <1>3 DEF Watched, Apart, Ahead
<1>8. Apart'
  BY <1>2, <1>3, <1>4, <1>7 DEF Apart
<1>9. StatusTruth'
  BY <1>2, <1>3, <1>7 DEF StatusTruth, Watched
<1>10. Heeded'
  <2> SUFFICES ASSUME Quiet PROVE Heeded'
    BY <1>1 DEF Heeded, Quiet
  <2>1. loop'.libs \subseteq on /\ \A m \in loop'.mounts : {m, LibraryOf[m]} \subseteq on
    BY <1>2, <1>3 DEF Heeded
  <2>2. ASSUME NEW m \in Mount, Wanted(m)
        PROVE  Watched(m) \/ m \in gaps' \/ Ahead(m)'
    <3>1. Watched(m) \/ m \in gaps \/ LibraryOf[m] \in loop.libs
      BY <1>2, <2>2 DEF Heeded, Ahead
    <3> QED BY <1>3, <2>2, <3>1 DEF Ahead, Wanted, Quiet
  <2> QED BY <1>1, <1>2, <1>3, <1>7, <2>1, <2>2 DEF Heeded, Wanted
<1> QED BY <1>1, <1>5, <1>6, <1>8, <1>9, <1>10

LEMMA StartKept ==
  ASSUME WatchInv, NEW m \in Mount, StartMountWatcher(m)
  PROVE  WatchInv'
<1> USE DEF WatchInv
<1>1. /\ UNCHANGED <<on, owed, reload, gen, ended, closing, timers, wg, due, switches, changes>>
      /\ Counted' /\ InUse' = InUse
  BY StartingAside
<1>2. /\ loop.pc = "starting" /\ m \in loop.mounts
      /\ loop' = [loop EXCEPT !.mounts = IF closing THEN {} ELSE @ \ {m}]
  BY DEF StartMountWatcher
<1>3. /\ loop' \in LoopType /\ loop'.pc = "starting" /\ loop'.libs = loop.libs
      /\ loop'.mounts = IF closing THEN {} ELSE loop.mounts \ {m}
  BY <1>2 DEF TypeOK, LoopType
<1>4. Ahead(m) /\ ~Watched(m) /\ m \notin gaps /\ ~Ahead(m)' /\ ~status[m].error
  BY <1>2, <1>3 DEF Apart, Ahead, StatusTruth
<1>5. \A x \in Mount \ {m} : (Ahead(x)' => Ahead(x)) /\ (~closing /\ Ahead(x) => Ahead(x)')
  BY <1>3 DEF Ahead
<1> DEFINE new == [mount |-> m, gen |-> gen, st |-> "starting", inbox |-> {}]
<1>6. \/ /\ ~closing /\ ProviderOf[m] \in on /\ routines' = routines \cup {new}
         /\ UNCHANGED <<status, gaps>>
      \/ /\ ~closing /\ ProviderOf[m] \notin on /\ UNCHANGED <<routines, status, gaps>>
      \/ /\ status' = [status EXCEPT ![m].error = @ \/ ~closing] /\ gaps' = gaps \cup {m}
         /\ UNCHANGED routines
  BY DEF StartMountWatcher
<1>7. new \in RoutineType /\ new.mount = m /\ new.gen = gen /\ new.st = "starting"
  BY DEF RoutineType, TypeOK
<1>8. /\ status' \in [Mount -> [active : BOOLEAN, error : BOOLEAN]]
      /\ \A x \in Mount : status'[x].active = status[x].active
      /\ \A x \in Mount : status'[x].error => status[x].error \/ (x = m /\ m \in gaps' /\ routines' = routines)
  <2>1. CASE UNCHANGED status
    BY <2>1 DEF TypeOK
  <2>2. CASE status' = [status EXCEPT ![m].error = @ \/ ~closing] /\ gaps' = gaps \cup {m}
             /\ UNCHANGED routines
    <3>1. status[m] \in [active : BOOLEAN, error : BOOLEAN] /\ closing \in BOOLEAN
      BY DEF TypeOK
    <3>2. /\ [status[m] EXCEPT !.error = @ \/ ~closing] \in [active : BOOLEAN, error : BOOLEAN]
          /\ [status[m] EXCEPT !.error = @ \/ ~closing].active = status[m].active
      BY <3>1
    <3>3. /\ status'[m] = [status[m] EXCEPT !.error = @ \/ ~closing]
          /\ \A x \in Mount \ {m} : status'[x] = status[x]
          /\ status' \in [Mount -> [active : BOOLEAN, error : BOOLEAN]]
      BY <2>2, <3>2 DEF TypeOK
    <3> QED BY <2>2, <3>2, <3>3
  <2> QED BY <1>6, <2>1, <2>2
<1> HIDE DEF new
<1>9. TypeOK'
  BY <1>1, <1>3, <1>6, <1>7, <1>8 DEF TypeOK
<1>10. Current' /\ Phased'
  BY <1>1, <1>2, <1>3, <1>6, <1>7 DEF Current, Phased, Running
<1>11. /\ \A x \in Mount \ {m} : /\ Watched(x)' = Watched(x)
                                 /\ x \in gaps' <=> x \in gaps
       /\ Watched(m)' => m \notin gaps' /\ ~closing /\ ProviderOf[m] \in on
       /\ ProviderOf[m] \in on => Watched(m)' \/ m \in gaps'
  BY <1>4, <1>6, <1>7 DEF Watched
<1>12. Apart'
  <2>1. \A g, h \in routines' : g.mount = h.mount => g = h
    BY <1>4, <1>6, <1>7 DEF Apart, Watched
  <2>2. \A x \in loop'.mounts : LibraryOf[x] \notin loop'.libs
    BY <1>3 DEF Apart
  <2> QED BY <1>4, <1>5, <1>11, <2>1, <2>2 DEF Apart
<1>13. StatusTruth'
  <2>1. \A x \in Mount : (\E g \in routines' : g.mount = x /\ g.st # "starting")
                         <=> (\E g \in routines : g.mount = x /\ g.st # "starting")
    BY <1>6, <1>7
  <2>2. \A x \in Mount : status[x].error => x # m /\ x \in gaps' /\ ~Watched(x)'
    BY <1>4, <1>11 DEF StatusTruth, Watched
  <2>3. routines' = routines => ~Watched(m)'
    BY <1>4 DEF Watched
  <2> QED BY <1>8, <2>1, <2>2, <2>3 DEF StatusTruth, Watched
<1>14. Heeded'
  <2> SUFFICES ASSUME Quiet PROVE Heeded'
    BY <1>1 DEF Heeded, Quiet
  <2>1. loop.libs \subseteq on /\ \A x \in loop.mounts : {x, LibraryOf[x]} \subseteq on
    BY <1>2 DEF Heeded
  <2>2. \A x \in Mount : Watched(x)' => Wanted(x)
    BY <1>2, <1>11, <2>1 DEF Heeded, Wanted
  <2>3. \A x \in Mount : Wanted(x) => Watched(x)' \/ x \in gaps' \/ Ahead(x)'
    BY <1>2, <1>5, <1>11 DEF Heeded, Wanted, Quiet
  <2> QED BY <1>1, <1>3, <2>1, <2>2, <2>3 DEF Heeded, Wanted
<1> QED BY <1>1, <1>9, <1>10, <1>12, <1>13, <1>14

LEMMA StartedKept ==
  ASSUME WatchInv, Started
  PROVE  WatchInv'
<1> USE DEF WatchInv
<1>1. /\ UNCHANGED <<on, owed, reload, gen, ended, closing, timers, wg, due, switches, changes>>
      /\ Counted' /\ InUse' = InUse
  BY StartingAside
<1>2. /\ loop.pc = "starting" /\ loop.libs = {} /\ loop.mounts = {}
      /\ loop' = [loop EXCEPT !.pc = "waiting"] /\ UNCHANGED <<routines, status, gaps>>
  BY DEF Started
<1>3. /\ loop' \in LoopType /\ loop'.pc = "waiting" /\ loop'.libs = {} /\ loop'.mounts = {}
  BY <1>2 DEF TypeOK, LoopType
<1>4. TypeOK'
  BY <1>1, <1>2, <1>3 DEF TypeOK
<1>5. Current' /\ Phased'
  BY <1>1, <1>2, <1>3 DEF Current, Phased, Running
<1>6. Apart' /\ StatusTruth'
  BY <1>2, <1>3 DEF Apart, StatusTruth, Watched, Ahead
<1>7. Heeded'
  BY <1>1, <1>2, <1>3 DEF Heeded, Watched, Ahead, Wanted, Quiet
<1> QED BY <1>1, <1>4, <1>5, <1>6, <1>7

-----------------------------------------------------------------------------
(* The steps of a watcher *)

\* The watcher goes on, perhaps with more or fewer events in its inbox.
Moves(g) ==
  \E h \in RoutineType :
    /\ h.mount = g.mount /\ h.gen = g.gen /\ h.st # "starting"
    /\ routines' = (routines \ {g}) \cup {h} /\ UNCHANGED gaps
    /\ \/ status' = [status EXCEPT ![g.mount].active = TRUE]
       \/ g.st # "starting" /\ UNCHANGED status

\* It ends; unless it was cancelled that leaves a gap.
Ends(g) ==
  \E e \in BOOLEAN :
    /\ routines' = routines \ {g}
    /\ status' = [status EXCEPT ![g.mount] = [active |-> FALSE, error |-> e]]
    /\ \/ gaps' = gaps \cup {g.mount}
       \/ UNCHANGED gaps /\ Cancelled(g.gen) /\ e = status[g.mount].error

LEMMA EndShape ==
  ASSUME TypeOK, NEW g \in routines, End(g, TRUE) \/ (Cancelled(g.gen) /\ End(g, FALSE))
  PROVE  Ends(g) /\ due' \subseteq due
<1>1. g.mount \in Mount /\ status[g.mount] \in [active : BOOLEAN, error : BOOLEAN]
  BY DEF TypeOK, RoutineType
<1>2. CASE End(g, TRUE)
  <2> DEFINE e == status[g.mount].error \/ ~Cancelled(g.gen)
  <2>1. e \in BOOLEAN
    BY <1>1
  <2>2. /\ routines' = routines \ {g} /\ due' \subseteq due /\ gaps' = gaps \cup {g.mount}
        /\ status' = [status EXCEPT ![g.mount] = [active |-> FALSE, error |-> e]]
    BY <1>2 DEF End
  <2> HIDE DEF e
  <2> QED BY <2>1, <2>2 DEF Ends
<1>3. CASE Cancelled(g.gen) /\ End(g, FALSE)
  <2> DEFINE e == status[g.mount].error
  <2>1. e \in BOOLEAN
    BY <1>1
  <2>2. /\ routines' = routines \ {g} /\ due' \subseteq due /\ UNCHANGED gaps
        /\ status' = [status EXCEPT ![g.mount] = [active |-> FALSE, error |-> e]]
    BY <1>1, <1>3 DEF End
  <2> QED BY <1>3, <2>1, <2>2 DEF Ends
<1> QED BY <1>2, <1>3

LEMMA MoveShape ==
  ASSUME TypeOK, NEW g \in routines, NEW st \in {"adding", "armed", "emitting"},
         NEW inbox \in SUBSET {"file", "dir"}, Becomes(g, st, inbox), UNCHANGED gaps,
         \/ status' = [status EXCEPT ![g.mount].active = TRUE]
         \/ g.st # "starting" /\ UNCHANGED status
  PROVE  Moves(g)
<1> DEFINE h == [g EXCEPT !.st = st, !.inbox = inbox]
<1>1. g \in RoutineType
  BY DEF TypeOK
<1>2. h \in RoutineType /\ h.mount = g.mount /\ h.gen = g.gen /\ h.st # "starting"
  BY <1>1 DEF RoutineType
<1>3. routines' = (routines \ {g}) \cup {h}
  BY DEF Becomes
<1> HIDE DEF h
<1> QED BY <1>2, <1>3 DEF Moves

LEMMA WatcherShape ==
  ASSUME TypeOK, NEW g \in routines, WatcherStep(g)
  PROVE  /\ Moves(g) \/ Ends(g)
         /\ UNCHANGED <<on, owed, reload, loop, gen, ended, closing, switches, changes>>
         /\ due' \subseteq due
         /\ ScheduleRescan(g) \/ UNCHANGED <<timers, wg>>
<1>1. /\ UNCHANGED <<on, owed, reload, loop, gen, ended, closing, switches, changes>>
      /\ ScheduleRescan(g) \/ UNCHANGED <<timers, wg>>
  BY DEF WatcherStep, Begin, Arm, ScheduleRescan, WatchReturns, TakeEvent
<1>2. g.inbox \in SUBSET {"file", "dir"} /\ {} \in SUBSET {"file", "dir"}
  BY DEF TypeOK, RoutineType
<1>3. CASE Arm(g)
  <2>1. CASE Becomes(g, "armed", g.inbox) /\ UNCHANGED <<status, gaps, due>>
    <3>1. g.st # "starting" BY <1>3 DEF Arm
    <3> QED BY <1>1, <1>2, <2>1, <3>1, MoveShape
  <2>2. CASE End(g, TRUE)
    BY <1>1, <2>2, EndShape
  <2> QED BY <1>1, <1>3, <2>1, <2>2 DEF Arm
<1>4. ASSUME NEW kind \in {"file", "dir"}, TakeEvent(g, kind)
      PROVE  (Moves(g) \/ Ends(g)) /\ due' \subseteq due
  <2>1. g.st = "armed" /\ g.inbox \ {kind} \in SUBSET {"file", "dir"}
    BY <1>2, <1>4 DEF TakeEvent
  <2>2. CASE End(g, TRUE)
    BY <1>1, <2>2, EndShape
  <2>3. CASE ~End(g, TRUE)
    BY <1>4, <2>1, <2>3, MoveShape DEF TakeEvent
  <2> QED BY <2>2, <2>3
<1>5. CASE ScheduleRescan(g)
  BY <1>1, <1>2, <1>5, MoveShape DEF ScheduleRescan
<1>6. CASE WatchReturns(g)
  <2>1. CASE End(g, TRUE)
    BY <1>1, <2>1, EndShape
  <2>2. CASE Cancelled(g.gen) /\ End(g, FALSE)
    BY <1>1, <2>2, EndShape
  <2> QED BY <1>1, <1>6, <2>1, <2>2 DEF WatchReturns
<1>7. CASE Begin(g)
  BY <1>1, <1>2, <1>7, MoveShape DEF Begin
<1> QED BY <1>1, <1>3, <1>4, <1>5, <1>6, <1>7 DEF WatcherStep

LEMMA WatcherKept ==
  ASSUME WatchInv, NEW g \in routines, WatcherStep(g)
  PROVE  WatchInv'
<1> USE DEF WatchInv
<1>1. /\ (Moves(g) \/ Ends(g)) /\ due' \subseteq due
      /\ UNCHANGED <<on, owed, reload, loop, gen, ended, closing, switches, changes>>
      /\ ScheduleRescan(g) \/ UNCHANGED <<timers, wg>>
  BY WatcherShape
<1>2. g \in RoutineType /\ g.mount \in Mount /\ g.gen = gen
      /\ status[g.mount] \in [active : BOOLEAN, error : BOOLEAN]
  BY DEF TypeOK, RoutineType, Current
<1>3. /\ wg' = Cardinality(InUse') /\ timers' \in [Timer -> TimerType] /\ wg' \in Nat
      /\ \A t \in InUse' : timers'[t].gen = gen
  <2>1. CASE ScheduleRescan(g)
    <3>1. IsFiniteSet(InUse')
      <4>1. InUse' \subseteq Timer
        BY DEF InUse
      <4> QED BY <4>1, MountAssumption, FS_Subset
    <3> QED BY <1>2, <2>1, <3>1, RescanCounted, FS_CardinalityType DEF Current
  <2>2. CASE UNCHANGED <<timers, wg>>
    BY <2>2 DEF TypeOK, Counted, Current, InUse
  <2> QED BY <1>1, <2>1, <2>2
<1>4. loop.pc \notin {"draining", "listing", "stopped"}
  BY DEF Phased
<1>5. Phased'
  BY <1>1, <1>4 DEF Phased
<1>6. Watched(g.mount) /\ g.mount \notin gaps /\ ~Ahead(g.mount) /\ ~status[g.mount].error
  BY <1>2 DEF Apart, Watched, StatusTruth
<1>7. CASE Moves(g)
  <2>1. PICK h \in RoutineType :
          /\ h.mount = g.mount /\ h.gen = g.gen /\ h.st # "starting"
          /\ routines' = (routines \ {g}) \cup {h} /\ UNCHANGED gaps
          /\ \/ status' = [status EXCEPT ![g.mount].active = TRUE]
             \/ g.st # "starting" /\ UNCHANGED status
    BY <1>7 DEF Moves
  <2>2. /\ status' \in [Mount -> [active : BOOLEAN, error : BOOLEAN]] /\ status'[g.mount].active
        /\ ~status'[g.mount].error /\ \A m \in Mount \ {g.mount} : status'[m] = status[m]
    <3>1. CASE UNCHANGED status /\ g.st # "starting"
      BY <1>2, <1>6, <3>1 DEF TypeOK, StatusTruth
    <3>2. CASE status' = [status EXCEPT ![g.mount].active = TRUE]
      <4>1. /\ [status[g.mount] EXCEPT !.active = TRUE] \in [active : BOOLEAN, error : BOOLEAN]
            /\ [status[g.mount] EXCEPT !.active = TRUE].active
            /\ [status[g.mount] EXCEPT !.active = TRUE].error = status[g.mount].error
        BY <1>2
      <4> QED BY <1>2, <1>6, <3>2, <4>1 DEF TypeOK
    <3> QED BY <2>1, <3>1, <3>2
  <2>3. TypeOK' /\ Counted'
    BY <1>1, <1>3, <2>1, <2>2 DEF TypeOK, Counted
  <2>4. Current'
    BY <1>1, <1>2, <1>3, <2>1 DEF Current, Running
  <2>5. \A m \in Mount : Watched(m)' = Watched(m)
    BY <1>2, <2>1 DEF Watched
  <2>6. \A x, y \in routines' : x.mount = y.mount => x = y
    BY <2>1 DEF Apart
  <2>7. Apart' /\ Heeded'
    BY <1>1, <2>1, <2>5, <2>6 DEF Apart, Heeded, Ahead, Wanted, Quiet
  <2>8. \A m \in Mount \ {g.mount} :
          (\E x \in routines' : x.mount = m /\ x.st # "starting")
          <=> (\E x \in routines : x.mount = m /\ x.st # "starting")
    BY <2>1
  <2>9. StatusTruth'
    BY <2>1, <2>2, <2>5, <2>8 DEF StatusTruth, Watched
  <2> QED BY <1>5, <2>3, <2>4, <2>7, <2>9
<1>8. CASE Ends(g)
  <2>1. PICK e \in BOOLEAN :
          /\ routines' = routines \ {g}
          /\ status' = [status EXCEPT ![g.mount] = [active |-> FALSE, error |-> e]]
          /\ \/ gaps' = gaps \cup {g.mount}
             \/ UNCHANGED gaps /\ Cancelled(g.gen) /\ e = status[g.mount].error
    BY <1>8 DEF Ends
  <2>2. /\ status' \in [Mount -> [active : BOOLEAN, error : BOOLEAN]]
        /\ ~status'[g.mount].active /\ (status'[g.mount].error => g.mount \in gaps')
        /\ \A m \in Mount \ {g.mount} : status'[m] = status[m]
    BY <1>2, <1>6, <2>1 DEF TypeOK
  <2>3. TypeOK' /\ Counted'
    BY <1>1, <1>2, <1>3, <2>1, <2>2 DEF TypeOK, Counted
  <2>4. Current'
    BY <1>1, <1>3, <2>1 DEF Current, Running
  <2>5. /\ ~Watched(g.mount)' /\ \A m \in Mount \ {g.mount} : Watched(m)' = Watched(m)
        /\ \A m \in Mount \ {g.mount} : m \in gaps' <=> m \in gaps
    BY <1>2, <2>1 DEF Watched, Apart
  <2>6. Apart'
    BY <1>1, <1>6, <2>1, <2>5 DEF Apart, Ahead
  <2>7. Heeded'
    <3> SUFFICES ASSUME Quiet, loop.pc \in {"starting", "waiting"} PROVE Heeded'
      BY <1>1 DEF Heeded, Quiet
    <3>1. ~Cancelled(g.gen)
      BY <1>2 DEF Cancelled, Quiet, Current, Running, TypeOK
    <3>2. g.mount \in gaps'
      BY <2>1, <3>1
    <3> QED BY <1>1, <2>5, <3>2 DEF Heeded, Ahead, Wanted
  <2>8. \A m \in Mount \ {g.mount} :
          (\E x \in routines' : x.mount = m /\ x.st # "starting")
          <=> (\E x \in routines : x.mount = m /\ x.st # "starting")
    BY <2>1
  <2>9. StatusTruth'
    BY <2>1, <2>2, <2>5, <2>8 DEF StatusTruth, Watched
  <2> QED BY <1>5, <2>3, <2>4, <2>6, <2>7, <2>9
<1> QED BY <1>1, <1>7, <1>8

-----------------------------------------------------------------------------
(* The theorems *)

LEMMA WatchKept == WatchInv /\ [Next]_vars => WatchInv'
<1> SUFFICES ASSUME WatchInv, [Next]_vars PROVE WatchInv'
  OBVIOUS
<1>1. CASE LoopStep
  BY <1>1, EndKept, DrainKept, NextKept, LibrariesKept, MountsKept, StartKept, StartedKept
  DEF LoopStep
<1>2. CASE \E g \in routines : WatcherStep(g)
  BY <1>2, WatcherKept
<1>3. CASE \E t \in Timer : TimerStep(t)
  BY <1>3, TimerKept
<1>4. CASE (\E r \in Row : WriteRow(r)) \/ RequestReload \/ Shutdown
  BY <1>4, HandlerKept
<1>5. CASE \E m \in Mount, kind \in {"file", "dir"} : Change(m, kind)
  BY <1>5, ChangeKept
<1>6. CASE UNCHANGED vars
  <2>1. /\ UNCHANGED <<loop, gen, ended, routines, gaps, status, on, owed, reload, closing>>
        /\ UNCHANGED <<timers, wg, due, switches, changes>>
    BY <1>6 DEF vars
  <2>2. TypeOK' /\ Counted' /\ InUse' = InUse
    BY <2>1 DEF WatchInv, TypeOK, Counted, InUse
  <2> QED BY <2>1, <2>2, AsideKept
<1> QED BY <1>1, <1>2, <1>3, <1>4, <1>5, <1>6 DEF Next

LEMMA WatchHolds == Spec => []WatchInv
BY InitHolds, WatchKept, PTL DEF Spec

\* The state of the watchers keeps its types, and the channel of reload requests
\* holds one at most (watch.go:265-272).
THEOREM TypeCorrect == Spec => []TypeOK
<1>1. WatchInv => TypeOK
  BY DEF WatchInv
<1> QED BY <1>1, WatchHolds, PTL

\* Nothing of an earlier generation is left when the next one begins: the loop
\* goes on when the watchers have returned and watchTimerWG is down to zero, and
\* that counter counts every timer and callback (watch.go:41-43, :313-323).
THEOREM GenerationsApart == Spec => []OneGeneration
<1>1. WatchInv => OneGeneration
  BY DEF WatchInv, Current, OneGeneration
<1> QED BY <1>1, WatchHolds, PTL

\* A loop that waits, with no request owed or queued, runs the watchers that the
\* rows ask for: a row changed while the loop lists them leaves a request in the
\* channel, so the loop does not come to rest with what it read before
\* (watch.go:61, :267).
THEOREM ChangesHeeded == Spec => []AtRest
<1>1. WatchInv => AtRest
  <2> SUFFICES ASSUME WatchInv, loop.pc = "waiting", Quiet
               PROVE  {g.mount : g \in routines} = {m \in Mount : Wanted(m)} \ gaps
    BY DEF AtRest, Quiet
  <2>1. \A m \in Mount : ~Ahead(m)
    BY DEF WatchInv, Phased, Ahead
  <2>2. \A m \in Mount : Watched(m) <=> Wanted(m) /\ m \notin gaps
    BY <2>1 DEF WatchInv, Heeded, Apart
  <2>3. \A g \in routines : g.mount \in Mount
    BY DEF WatchInv, TypeOK, RoutineType
  <2> QED BY <2>2, <2>3 DEF Watched
<1> QED BY <1>1, WatchHolds, PTL

\* The status page tells the truth, also while generations change: a mount has
\* one goroutine at most, so the one that ends does not clear the status of
\* another (watch.go:46, :352-392).
THEOREM StatusIsTrue == Spec => []StatusTruth
<1>1. WatchInv => StatusTruth
  BY DEF WatchInv
<1> QED BY <1>1, WatchHolds, PTL

=============================================================================
