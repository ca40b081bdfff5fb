---------------------------- MODULE MountsProofs ----------------------------
(***************************************************************************)
(* Proofs about Mounts, for every set of providers, libraries, mounts,     *)
(* targets and requests and every bound.                                   *)
(***************************************************************************)
EXTENDS Mounts, TLAPS

-----------------------------------------------------------------------------
(* Data *)

\* A mount's row is never taken for its absence.
LEMMA NothingIsNoRow == Gone \notin Rows
BY DEF Gone, Rows

\* An output is told by its mount and target.
LEMMA OutputIs ==
  ASSUME NEW o \in [by : Mount, in : Target], NEW row, row.target = o.in
  PROVE  Outputs(o.by, row) = o
BY DEF Outputs

\* A target lies within itself, so a clean-up takes the outputs below it.
LEMMA TargetWithinItself ==
  ASSUME NEW t \in Target
  PROVE  Within(t, t)
<1>1. t \in Seq({t[i] : i \in DOMAIN t})
  BY MountAssumption
<1> DEFINE S == {t[i] : i \in DOMAIN t}
<1>2. t \in Seq(S)
  BY <1>1
<1> HIDE DEF S
<1>3. Len(t) \in Nat
  BY <1>2
<1> QED BY <1>3 DEF Within, IsPrefix

LEMMA OverlapSymmetric ==
  \A t, u : Overlap(t, u) <=> Overlap(u, t)
BY DEF Overlap

-----------------------------------------------------------------------------
(* The inductive invariant *)

\* What holds mountMutationMu.
Locking(r) == request[r].pc \in {"checking", "writing", "deleting", "cleaning"}

RowMaps == UNION {[ms -> Rows] : ms \in SUBSET Mount}
MountRequest == [pc : {"checking", "writing"}, new : BOOLEAN, mount : Mount, row : Rows]
DeleteRequest == [pc : {"deleting", "cleaning"}, what : Mount \cup Library, rows : RowMaps, clean : BOOLEAN]
CountRequest == [pc : {"counted"}, provider : Provider]
RequestType == {Idle} \cup MountRequest \cup DeleteRequest \cup CountRequest

Typed ==
  /\ TypeOK /\ mounts \in [Mount -> Rows \cup {Gone}] /\ scan \in [Mount -> Rows \cup {Gone}]
  /\ request \in [Request -> RequestType]

LockHeld == \A r \in Request : Locking(r) <=> writer = r

\* What a request has checked is still so when it acts on it: the target it
\* writes is isolated, the rows it deletes are those it read, and the trees it
\* cleans up are no mount's.
WritePlanned(r) == request[r].pc = "writing" => Isolated(request[r].mount, request[r].row)

Meant(r, m) == m = request[r].what \/ mounts[m].library = request[r].what

DeletePlanned(r) ==
  request[r].pc = "deleting" =>
    /\ \A m \in Present : Meant(r, m) <=> m \in DOMAIN request[r].rows
    /\ \A m \in Present : Meant(r, m) => request[r].rows[m] = mounts[m]
    /\ request[r].clean => Cleanable(request[r].rows)

CleanPlanned(r) ==
  request[r].pc = "cleaning" =>
    \A m \in DOMAIN request[r].rows, n \in Present :
      ~Overlap(request[r].rows[m].target, mounts[n].target)

Planned == \A r \in Request : WritePlanned(r) /\ DeletePlanned(r) /\ CleanPlanned(r)

\* A scan goes by its mount's row, or the mount has gone and its outputs are
\* excused; its target is isolated.
ScanTrue ==
  \A m \in Scanning :
    /\ IF Has(m) THEN mounts[m] = scan[m] ELSE Outputs(m, scan[m]) \in excused
    /\ Isolated(m, scan[m])

\* Every output is its mount's, about to be cleaned up, or excused.
Claimed(o) == Has(o.by) /\ mounts[o.by].target = o.in

Doomed(o) ==
  \E r \in Request : /\ request[r].pc = "cleaning" /\ o.by \in DOMAIN request[r].rows
                     /\ request[r].rows[o.by].target = o.in

Accounted == \A o \in files \ excused : Claimed(o) \/ Doomed(o)

IInv == Typed /\ LockHeld /\ Planned /\ ScanTrue /\ Accounted

-----------------------------------------------------------------------------
(* Requests *)

LEMMA RowMapIs ==
  ASSUME NEW f \in RowMaps
  PROVE  DOMAIN f \subseteq Mount /\ \A m \in DOMAIN f : f[m] \in Rows
BY DEF RowMaps

LEMMA RowMapMade ==
  ASSUME NEW ms \in SUBSET Mount, NEW f \in [ms -> Rows]
  PROVE  f \in RowMaps
BY DEF RowMaps

\* The state of a request says what it carries.
LEMMA RequestKinds ==
  ASSUME NEW q \in RequestType
  PROVE  /\ q.pc \in {"idle", "checking", "writing", "deleting", "cleaning", "counted"}
         /\ q.pc \in {"checking", "writing"} => q \in MountRequest
         /\ q.pc \in {"deleting", "cleaning"} => q \in DeleteRequest
<1>1. CASE q = Idle
  BY <1>1 DEF Idle
<1>2. CASE q \in MountRequest
  BY <1>2 DEF MountRequest
<1>3. CASE q \in DeleteRequest
  BY <1>3 DEF DeleteRequest
<1>4. CASE q \in CountRequest
  BY <1>4 DEF CountRequest
<1> QED BY <1>1, <1>2, <1>3, <1>4 DEF RequestType

\* The request that holds the lock is the only one, and no scan is under way.
LEMMA Alone ==
  ASSUME TypeOK, LockHeld, NEW r \in Request, Locking(r)
  PROVE  /\ writer = r /\ Scanning = {}
         /\ \A s \in Request \ {r} : ~Locking(s)
BY MountAssumption DEF LockHeld, TypeOK

-----------------------------------------------------------------------------
(* What Typed says of a step *)

\* Rows of mounts that are taken away.
LEMMA Fewer ==
  ASSUME Typed, NEW S \in SUBSET Present,
         mounts' = [m \in Mount |-> IF m \in S THEN Gone ELSE mounts[m]]
  PROVE  /\ mounts' \in [Mount -> Rows \cup {Gone}]
         /\ Present' = Present \ S
         /\ \A m \in Mount : Has(m)' <=> m \in Present \ S
         /\ \A m \in Present \ S : mounts'[m] = mounts[m]
BY DEF Typed, Present, Has

\* A mount's row that is written.
LEMMA OneMore ==
  ASSUME Typed, NEW n \in Mount, NEW row \in Rows, mounts' = [mounts EXCEPT ![n] = row]
  PROVE  /\ mounts' \in [Mount -> Rows \cup {Gone}]
         /\ Present' = Present \cup {n}
         /\ \A m \in Mount : Has(m)' <=> m \in Present \cup {n}
         /\ mounts'[n] = row
         /\ \A m \in Mount \ {n} : mounts'[m] = mounts[m]
BY NothingIsNoRow DEF Typed, Present, Has

\* A request that goes on.
LEMMA GoesOn ==
  ASSUME Typed, NEW r \in Request, NEW q \in RequestType, Goes(r, q)
  PROVE  /\ request' \in [Request -> RequestType] /\ request'[r] = q
         /\ \A s \in Request \ {r} : request'[s] = request[s]
BY DEF Typed, Goes

LEMMA IdleIs == Idle \in RequestType /\ Idle.pc = "idle"
BY DEF RequestType, Idle

-----------------------------------------------------------------------------
(* Steps that change only what a request does *)

\* The lock is taken, kept or given back by the request that moves.
LEMMA LockPasses ==
  ASSUME Typed, LockHeld, NEW r \in Request, NEW q \in RequestType, Goes(r, q),
         \/ Locking(r)' /\ writer \in {NoRequest, r} /\ writer' = r
         \/ ~Locking(r)' /\ writer = r /\ writer' = NoRequest
         \/ ~Locking(r)' /\ ~Locking(r) /\ writer' = writer
  PROVE  LockHeld' /\ writer' \in Request \cup {NoRequest}
<1>1. request'[r] = q /\ \A s \in Request \ {r} : request'[s] = request[s]
  BY GoesOn
<1>2. NoRequest \notin Request /\ writer \in Request \cup {NoRequest}
  BY MountAssumption DEF Typed, TypeOK
<1>3. CASE Locking(r)' /\ writer \in {NoRequest, r} /\ writer' = r
  BY <1>1, <1>2, <1>3 DEF LockHeld, Locking
<1>4. CASE ~Locking(r)' /\ writer = r /\ writer' = NoRequest
  BY <1>1, <1>2, <1>4 DEF LockHeld, Locking
<1>5. CASE ~Locking(r)' /\ ~Locking(r) /\ writer' = writer
  BY <1>1, <1>2, <1>5 DEF LockHeld, Locking
<1> QED BY <1>3, <1>4, <1>5

LEMMA OnlyRequest ==
  ASSUME IInv, NEW r \in Request, NEW q \in RequestType, Goes(r, q),
         UNCHANGED <<providers, libraries, mounts, files, scan, excused>>,
         request[r].pc # "cleaning", q.pc # "cleaning",
         \/ Locking(r)' /\ writer \in {NoRequest, r} /\ writer' = r /\ Scanning = {}
         \/ ~Locking(r)' /\ writer = r /\ writer' = NoRequest
         \/ ~Locking(r)' /\ ~Locking(r) /\ writer' = writer,
         WritePlanned(r)', DeletePlanned(r)'
  PROVE  IInv'
<1>1. /\ request' \in [Request -> RequestType] /\ request'[r] = q
      /\ \A s \in Request \ {r} : request'[s] = request[s]
  BY GoesOn DEF IInv
<1>2. LockHeld' /\ writer' \in Request \cup {NoRequest}
  BY LockPasses DEF IInv
<1>3. Present' = Present /\ Scanning' = Scanning /\ \A m \in Mount : Has(m)' <=> Has(m)
  BY DEF Present, Scanning, Has
<1>4. writer' # NoRequest => Scanning' = {}
  <2>1. CASE Locking(r)' /\ writer \in {NoRequest, r} /\ writer' = r /\ Scanning = {}
    BY <1>3, <2>1
  <2>2. CASE ~Locking(r)' /\ writer = r /\ writer' = NoRequest
    BY <2>2
  <2>3. CASE ~Locking(r)' /\ ~Locking(r) /\ writer' = writer
    BY <1>3, <2>3 DEF IInv, Typed, TypeOK
  <2> QED BY <2>1, <2>2, <2>3
<1>5. Typed'
  BY <1>1, <1>2, <1>3, <1>4 DEF IInv, Typed, TypeOK, Overlap, Within
<1>6. Planned'
  <2>1. WritePlanned(r)' /\ DeletePlanned(r)' /\ CleanPlanned(r)'
    BY <1>1 DEF CleanPlanned
  <2>2. ASSUME NEW s \in Request \ {r}
        PROVE  WritePlanned(s)' /\ DeletePlanned(s)' /\ CleanPlanned(s)'
    <3>1. WritePlanned(s) /\ DeletePlanned(s) /\ CleanPlanned(s) /\ request'[s] = request[s]
      BY <1>1, <2>2 DEF IInv, Planned
    <3>2. WritePlanned(s)'
      BY <1>3, <3>1 DEF WritePlanned, Isolated
    <3>3. DeletePlanned(s)'
      BY <1>3, <3>1 DEF DeletePlanned, Meant, Cleanable
    <3>4. CleanPlanned(s)'
      BY <1>3, <3>1 DEF CleanPlanned
    <3> QED BY <3>2, <3>3, <3>4
  <2> QED BY <2>1, <2>2 DEF Planned
<1>7. ScanTrue'
  BY <1>3 DEF IInv, ScanTrue, Isolated, Has, Scanning
<1>8. Accounted'
  <2>1. \A o \in files : (Claimed(o) => Claimed(o)') /\ (Doomed(o) => Doomed(o)')
    BY <1>1 DEF Claimed, Doomed, Has
  <2> QED BY <2>1 DEF IInv, Accounted
<1> QED BY <1>2, <1>5, <1>6, <1>7, <1>8 DEF IInv

LEMMA MountAskedFor ==
  ASSUME IInv, NEW r \in Request, NEW m \in Mount, NEW row \in Rows,
         AddMount(r, m, row) \/ EditMount(r, m, row)
  PROVE  IInv'
<1>1. PICK new \in BOOLEAN :
        /\ request[r].pc = "idle" /\ Lock(r)
        /\ Goes(r, [pc |-> "checking", new |-> new, mount |-> m, row |-> row])
        /\ UNCHANGED <<providers, libraries, mounts, files, scan, excused>>
  BY DEF AddMount, EditMount
<1> DEFINE q == [pc |-> "checking", new |-> new, mount |-> m, row |-> row]
<1>2. q \in RequestType /\ q.pc = "checking"
  BY DEF RequestType, MountRequest
<1> HIDE DEF q
<1>3. Goes(r, q)
  BY <1>1 DEF q
<1>4. request'[r] = q
  BY <1>2, <1>3, GoesOn DEF IInv
<1>5. Locking(r)' /\ WritePlanned(r)' /\ DeletePlanned(r)'
  BY <1>2, <1>4 DEF Locking, WritePlanned, DeletePlanned
<1>6. writer \in {NoRequest, r} /\ writer' = r /\ Scanning = {}
  BY <1>1 DEF Lock
<1> QED BY <1>1, <1>2, <1>3, <1>5, <1>6, OnlyRequest

LEMMA MountChecked ==
  ASSUME IInv, NEW r \in Request, CheckMount(r)
  PROVE  IInv'
<1> DEFINE q == request[r]
           w == [q EXCEPT !.pc = "writing"]
<1>1. q.pc = "checking" /\ UNCHANGED <<providers, libraries, mounts, files, scan, excused>>
  BY DEF CheckMount
<1>2. q \in MountRequest
  BY <1>1, RequestKinds DEF IInv, Typed
<1>3. writer = r /\ Scanning = {}
  BY <1>1, Alone DEF IInv, Typed, Locking
<1>4. CASE /\ Isolated(q.mount, q.row) /\ Goes(r, w) /\ UNCHANGED writer
  <2>1. w \in RequestType /\ w.pc = "writing" /\ w.mount = q.mount /\ w.row = q.row
    BY <1>2 DEF RequestType, MountRequest
  <2> HIDE DEF w
  <2>2. request'[r] = w
    BY <1>4, <2>1, GoesOn DEF IInv
  <2>3. Locking(r)' /\ WritePlanned(r)' /\ DeletePlanned(r)'
    BY <1>1, <1>4, <2>1, <2>2 DEF Locking, WritePlanned, DeletePlanned, Isolated, Present, Has
  <2> QED BY <1>1, <1>3, <1>4, <2>1, <2>3, OnlyRequest
<1>5. CASE EndsLocked(r)
  <2>1. Goes(r, Idle) /\ writer' = NoRequest
    BY <1>5 DEF EndsLocked, Ends
  <2>2. request'[r] = Idle
    BY <2>1, GoesOn, IdleIs DEF IInv
  <2>3. ~Locking(r)' /\ WritePlanned(r)' /\ DeletePlanned(r)'
    BY <2>2, IdleIs DEF Locking, WritePlanned, DeletePlanned
  <2> QED BY <1>1, <1>3, <2>1, <2>3, IdleIs, OnlyRequest
<1> QED BY <1>4, <1>5 DEF CheckMount

LEMMA DeleteBegun ==
  ASSUME IInv, NEW r \in Request, NEW what \in Mount \cup Library, NEW clean \in BOOLEAN,
         NEW ms \in SUBSET Present, BeginDelete(r, what, ms, clean),
         \A m \in Present : (m = what \/ mounts[m].library = what) <=> m \in ms
  PROVE  IInv'
<1> DEFINE rows == [m \in ms |-> mounts[m]]
           q == [pc |-> "deleting", what |-> what, rows |-> rows, clean |-> clean]
<1>1. /\ request[r].pc = "idle" /\ Lock(r) /\ (clean => Cleanable(rows)) /\ Goes(r, q)
      /\ UNCHANGED <<providers, libraries, mounts, files, scan, excused>>
  BY DEF BeginDelete
<1>2. ms \in SUBSET Mount /\ rows \in [ms -> Rows] /\ DOMAIN rows = ms
  BY DEF IInv, Typed, Present, Has
<1>3. rows \in RowMaps
  BY <1>2, RowMapMade
<1>4. \A m \in ms : rows[m] = mounts[m]
  OBVIOUS
<1> HIDE DEF rows
<1>5. /\ q \in RequestType /\ q.pc = "deleting" /\ q.what = what
      /\ q.rows = rows /\ q.clean = clean
  BY <1>3 DEF RequestType, DeleteRequest
<1> HIDE DEF q
<1>6. request'[r] = q
  BY <1>1, <1>5, GoesOn DEF IInv
<1>7. Present' = Present /\ mounts' = mounts
  BY <1>1 DEF Present, Has
<1>8. DeletePlanned(r)'
  BY <1>1, <1>2, <1>4, <1>5, <1>6, <1>7 DEF DeletePlanned, Meant, Cleanable
<1>9. Locking(r)' /\ WritePlanned(r)'
  BY <1>5, <1>6 DEF Locking, WritePlanned
<1>10. writer \in {NoRequest, r} /\ writer' = r /\ Scanning = {}
  BY <1>1 DEF Lock
<1> QED BY <1>1, <1>5, <1>8, <1>9, <1>10, OnlyRequest

LEMMA DeleteAskedFor ==
  ASSUME IInv, NEW r \in Request, NEW clean \in BOOLEAN,
         \/ \E m \in Mount : DeleteMount(r, m, clean)
         \/ \E l \in Library : DeleteLibrary(r, l, clean)
  PROVE  IInv'
<1>1. \A m \in Present : mounts[m] \in Rows
  BY DEF IInv, Typed, Present, Has
<1>2. Mount \cap Library = {} /\ \A m \in Present : mounts[m].library \in Library
  BY <1>1, MountAssumption DEF Rows
<1>3. ASSUME NEW m \in Mount, DeleteMount(r, m, clean)
      PROVE  IInv'
  <2>1. BeginDelete(r, m, {m}, clean) /\ {m} \in SUBSET Present /\ m \in Mount \cup Library
    BY <1>3 DEF DeleteMount, Present
  <2>2. \A n \in Present : (n = m \/ mounts[n].library = m) <=> n \in {m}
    BY <1>2
  <2> QED BY <2>1, <2>2, DeleteBegun
<1>4. ASSUME NEW l \in Library, DeleteLibrary(r, l, clean)
      PROVE  IInv'
  <2> DEFINE ms == {m \in Present : mounts[m].library = l}
  <2>1. BeginDelete(r, l, ms, clean) /\ ms \in SUBSET Present /\ l \in Mount \cup Library
    BY <1>4 DEF DeleteLibrary
  <2>2. \A n \in Present : (n = l \/ mounts[n].library = l) <=> n \in ms
    BY <1>2 DEF Present
  <2> QED BY <2>1, <2>2, DeleteBegun
<1> QED BY <1>3, <1>4

LEMMA MountsCounted ==
  ASSUME IInv, NEW r \in Request, NEW p \in Provider, CountMounts(r, p)
  PROVE  IInv'
<1> DEFINE q == [pc |-> "counted", provider |-> p]
<1>1. /\ request[r].pc = "idle" /\ Goes(r, q)
      /\ UNCHANGED <<providers, libraries, mounts, files, writer, scan, excused>>
  BY DEF CountMounts
<1>2. q \in RequestType /\ q.pc = "counted"
  BY DEF RequestType, CountRequest
<1> HIDE DEF q
<1>3. request'[r] = q
  BY <1>1, <1>2, GoesOn DEF IInv
<1>4. ~Locking(r) /\ ~Locking(r)' /\ WritePlanned(r)' /\ DeletePlanned(r)'
  BY <1>1, <1>2, <1>3 DEF Locking, WritePlanned, DeletePlanned
<1> QED BY <1>1, <1>2, <1>4, OnlyRequest

-----------------------------------------------------------------------------
(* Steps of the request that holds the lock, after which it ends *)

\* When it ends, no request and no scan is under way that could go by what
\* has changed.
LEMMA LastOne ==
  ASSUME IInv, NEW r \in Request, Locking(r), EndsLocked(r), scan' = scan
  PROVE  /\ LockHeld' /\ Planned' /\ ScanTrue' /\ writer' = NoRequest /\ Scanning' = {}
         /\ request' \in [Request -> RequestType]
<1>1. Goes(r, Idle) /\ writer' = NoRequest
  BY DEF EndsLocked, Ends
<1>2. /\ request' \in [Request -> RequestType] /\ request'[r] = Idle
      /\ \A s \in Request \ {r} : request'[s] = request[s]
  BY <1>1, IdleIs, GoesOn DEF IInv
<1>3. Scanning = {} /\ writer = r /\ \A s \in Request \ {r} : ~Locking(s)
  BY Alone DEF IInv, Typed
<1>4. Scanning' = {}
  BY <1>3 DEF Scanning
<1>5. \A s \in Request : ~Locking(s)'
  BY <1>2, <1>3, IdleIs DEF Locking
<1>6. Planned'
  BY <1>5 DEF Planned, WritePlanned, DeletePlanned, CleanPlanned, Locking
<1>7. LockHeld'
  BY <1>1, <1>5, MountAssumption DEF LockHeld
<1> QED BY <1>1, <1>2, <1>4, <1>6, <1>7 DEF ScanTrue

\* A row is written: it refers to rows that exist and its target is isolated.
LEMMA RowWritten ==
  ASSUME IInv, NEW r \in Request, NEW n \in Mount, NEW row \in Rows, Locking(r), EndsLocked(r),
         request[r].pc # "cleaning", Referenced(row), Isolated(n, row),
         mounts' = [mounts EXCEPT ![n] = row],
         \A m \in Present : m = n => Outputs(n, mounts[n]) \in excused' \cup {Outputs(n, row)},
         excused \subseteq excused' \cup {Outputs(n, row)},
         excused' \subseteq [by : Mount, in : Target],
         UNCHANGED <<providers, libraries, files, scan>>
  PROVE  IInv'
<1>1. /\ LockHeld' /\ Planned' /\ ScanTrue' /\ writer' = NoRequest /\ Scanning' = {}
      /\ request' \in [Request -> RequestType]
  BY LastOne
<1>2. /\ mounts' \in [Mount -> Rows \cup {Gone}]
      /\ Present' = Present \cup {n}
      /\ \A m \in Mount : Has(m)' <=> m \in Present \cup {n}
      /\ mounts'[n] = row
      /\ \A m \in Mount \ {n} : mounts'[m] = mounts[m]
  BY OneMore DEF IInv
<1>3. \A m \in Present' : mounts'[m].library \in libraries' /\ mounts'[m].provider \in providers'
  BY <1>2 DEF IInv, Typed, TypeOK, Present, Referenced
<1>4. \A m, k \in Present' : m # k => ~Overlap(mounts'[m].target, mounts'[k].target)
  BY <1>2, OverlapSymmetric DEF IInv, Typed, TypeOK, Present, Isolated
<1>5. Typed'
  <2>1. (providers \subseteq Provider /\ libraries \subseteq Library)'
    BY DEF IInv, Typed, TypeOK
  <2>2. scan' \in [Mount -> Rows \cup {Gone}] /\ files' \subseteq [by : Mount, in : Target]
    BY DEF IInv, Typed, TypeOK
  <2>3. \A m \in Mount : mounts'[m] \in Rows \cup {Gone} /\ scan'[m] \in Rows \cup {Gone}
    BY <1>2, <2>2
  <2>4. (\A m, k \in Present : m # k => ~Overlap(mounts[m].target, mounts[k].target))'
    BY <1>4 DEF Overlap, Within
  <2> QED BY <1>1, <1>2, <1>3, <2>1, <2>2, <2>3, <2>4 DEF Typed, TypeOK
<1>6. Accounted'
  <2> SUFFICES ASSUME NEW o \in files \ excused'
               PROVE  Claimed(o)'
    BY DEF Accounted
  <2>1. o \in [by : Mount, in : Target]
    BY DEF IInv, Typed, TypeOK
  <2>2. CASE o = Outputs(n, row)
    BY <1>2, <2>2 DEF Outputs, Claimed
  <2>3. CASE o # Outputs(n, row)
    <3>1. ~Doomed(o)
      BY Alone DEF IInv, Typed, Doomed, Locking
    <3>2. Claimed(o)
      BY <2>3, <3>1 DEF IInv, Accounted
    <3>3. o.by # n
      BY <2>1, <2>3, <3>2, OutputIs DEF Claimed, Present
    <3> QED BY <1>2, <2>1, <3>2, <3>3 DEF Claimed, Present
  <2> QED BY <2>2, <2>3
<1> QED BY <1>1, <1>5, <1>6 DEF IInv

\* The request ends with the rows as they are: what it had still to clean up is
\* excused, or there is none.
LEMMA EndsThere ==
  ASSUME IInv, NEW r \in Request, Locking(r), EndsLocked(r),
         UNCHANGED <<providers, libraries, mounts, files, scan>>,
         excused \subseteq excused', excused' \subseteq [by : Mount, in : Target],
         request[r].pc = "cleaning" =>
           \A m \in DOMAIN request[r].rows : Outputs(m, request[r].rows[m]) \in excused'
  PROVE  IInv'
<1>1. /\ LockHeld' /\ Planned' /\ ScanTrue' /\ writer' = NoRequest /\ Scanning' = {}
      /\ request' \in [Request -> RequestType]
  BY LastOne
<1>2. Present' = Present /\ \A m \in Mount : Has(m)' <=> Has(m)
  BY DEF Present, Has
<1>3. Typed'
  BY <1>1, <1>2 DEF IInv, Typed, TypeOK, Overlap, Within
<1>4. Accounted'
  <2> SUFFICES ASSUME NEW o \in files \ excused'
               PROVE  Claimed(o)'
    BY DEF Accounted
  <2>1. o \in [by : Mount, in : Target] /\ o \notin excused
    BY DEF IInv, Typed, TypeOK
  <2>2. ~Doomed(o)
    <3> SUFFICES ASSUME NEW s \in Request, request[s].pc = "cleaning",
                        o.by \in DOMAIN request[s].rows, request[s].rows[o.by].target = o.in
                 PROVE  FALSE
      BY DEF Doomed
    <3>1. s = r
      BY Alone DEF IInv, Typed, Locking
    <3> QED BY <2>1, <3>1, OutputIs
  <2> QED BY <1>2, <2>1, <2>2 DEF IInv, Accounted, Claimed
<1> QED BY <1>1, <1>3, <1>4 DEF IInv

LEMMA MountCreated ==
  ASSUME IInv, NEW r \in Request, CreateMount(r)
  PROVE  IInv'
<1> DEFINE q == request[r]
<1>1. q.pc = "writing" /\ EndsLocked(r) /\ UNCHANGED <<providers, libraries, files, scan>>
  BY DEF CreateMount
<1>2. q \in MountRequest /\ q.mount \in Mount /\ q.row \in Rows
  <2>1. q \in MountRequest
    BY <1>1, RequestKinds DEF IInv, Typed
  <2> QED BY <2>1 DEF MountRequest
<1>3. Locking(r) /\ Isolated(q.mount, q.row)
  BY <1>1 DEF Locking, IInv, Planned, WritePlanned
<1>4. excused \subseteq [by : Mount, in : Target]
  BY DEF IInv, Typed, TypeOK
<1>5. CASE ~Has(q.mount) /\ Referenced(q.row)
  <2>1. /\ mounts' = [mounts EXCEPT ![q.mount] = q.row]
        /\ excused' = excused \ {Outputs(q.mount, q.row)}
    BY <1>5 DEF CreateMount
  <2>2. \A m \in Present : m # q.mount
    BY <1>5 DEF Present
  <2> QED BY <1>1, <1>2, <1>3, <1>4, <1>5, <2>1, <2>2, RowWritten
<1>6. CASE ~(~Has(q.mount) /\ Referenced(q.row))
  <2>1. UNCHANGED <<mounts, excused>>
    BY <1>6 DEF CreateMount
  <2> QED BY <1>1, <1>3, <1>4, <2>1, EndsThere
<1> QED BY <1>5, <1>6

LEMMA MountUpdated ==
  ASSUME IInv, NEW r \in Request, UpdateMount(r)
  PROVE  IInv'
<1> DEFINE q == request[r]
<1>1. q.pc = "writing" /\ EndsLocked(r) /\ UNCHANGED <<providers, libraries, files, scan>>
  BY DEF UpdateMount
<1>2. q \in MountRequest /\ q.mount \in Mount /\ q.row \in Rows
  <2>1. q \in MountRequest
    BY <1>1, RequestKinds DEF IInv, Typed
  <2> QED BY <2>1 DEF MountRequest
<1>3. Locking(r) /\ Isolated(q.mount, q.row)
  BY <1>1 DEF Locking, IInv, Planned, WritePlanned
<1>4. excused \subseteq [by : Mount, in : Target]
  BY DEF IInv, Typed, TypeOK
<1>5. CASE Has(q.mount) /\ mounts[q.mount].library = q.row.library /\ Referenced(q.row)
  <2>1. /\ mounts' = [mounts EXCEPT ![q.mount] = q.row]
        /\ excused' = (excused \cup {Outputs(q.mount, mounts[q.mount])}) \ {Outputs(q.mount, q.row)}
    BY <1>5 DEF UpdateMount
  <2>2. Outputs(q.mount, mounts[q.mount]) \in [by : Mount, in : Target]
    <3>1. mounts[q.mount] \in Rows
      BY <1>2, <1>5 DEF IInv, Typed, Has
    <3> QED BY <1>2, <3>1 DEF Outputs, Rows
  <2>3. excused' \subseteq [by : Mount, in : Target]
    BY <1>4, <2>1, <2>2
  <2> QED BY <1>1, <1>2, <1>3, <1>5, <2>1, <2>3, RowWritten
<1>6. CASE ~(Has(q.mount) /\ mounts[q.mount].library = q.row.library /\ Referenced(q.row))
  <2>1. UNCHANGED <<mounts, excused>>
    BY <1>6 DEF UpdateMount
  <2> QED BY <1>1, <1>3, <1>4, <2>1, EndsThere
<1> QED BY <1>5, <1>6

-----------------------------------------------------------------------------
(* Steps that take mounts away *)

LEMMA FewerTyped ==
  ASSUME Typed, NEW S \in SUBSET Present,
         mounts' = [m \in Mount |-> IF m \in S THEN Gone ELSE mounts[m]],
         providers' \subseteq providers, libraries' \subseteq libraries,
         \A m \in Present \ S : mounts[m].library \in libraries' /\ mounts[m].provider \in providers',
         files' = files, scan' = scan, excused' \subseteq [by : Mount, in : Target],
         request' \in [Request -> RequestType], writer' \in {writer, NoRequest}
  PROVE  Typed'
<1>1. /\ mounts' \in [Mount -> Rows \cup {Gone}]
      /\ Present' = Present \ S
      /\ \A m \in Present \ S : mounts'[m] = mounts[m]
  BY Fewer
<1>2. (providers \subseteq Provider /\ libraries \subseteq Library)'
  BY DEF Typed, TypeOK
<1>3. scan' \in [Mount -> Rows \cup {Gone}] /\ files' \subseteq [by : Mount, in : Target]
  BY DEF Typed, TypeOK
<1>4. \A m \in Mount : mounts'[m] \in Rows \cup {Gone} /\ scan'[m] \in Rows \cup {Gone}
  BY <1>1, <1>3
<1>5. writer' \in Request \cup {NoRequest} /\ (writer' # NoRequest => Scanning' = {})
  BY DEF Typed, TypeOK, Scanning
<1>6. \A m \in Present' : mounts'[m].library \in libraries' /\ mounts'[m].provider \in providers'
  BY <1>1
<1>7. \A m, n \in Present' : m # n => ~Overlap(mounts'[m].target, mounts'[n].target)
  BY <1>1 DEF Typed, TypeOK
<1>8. (\A m, n \in Present : m # n => ~Overlap(mounts[m].target, mounts[n].target))'
  BY <1>7 DEF Overlap, Within
<1> QED BY <1>1, <1>2, <1>3, <1>4, <1>5, <1>6, <1>8 DEF Typed, TypeOK

\* Outputs of mounts that exist are outputs.
LEMMA OutputsTyped ==
  ASSUME Typed, NEW S \in SUBSET Present
  PROVE  {Outputs(m, mounts[m]) : m \in S} \subseteq [by : Mount, in : Target]
<1>1. \A m \in S : m \in Mount /\ mounts[m] \in Rows
  BY DEF Typed, Present, Has
<1> QED BY <1>1 DEF Outputs, Rows

LEMMA RowsDeleted ==
  ASSUME IInv, NEW r \in Request, DeleteRows(r)
  PROVE  IInv'
<1> DEFINE q == request[r]
           gone == {m \in Present : m = q.what \/ mounts[m].library = q.what}
           c == [q EXCEPT !.pc = "cleaning"]
<1>1. /\ q.pc = "deleting" /\ libraries' = libraries \ {q.what}
      /\ mounts' = [m \in Mount |-> IF m \in gone THEN Gone ELSE mounts[m]]
      /\ UNCHANGED <<providers, files, scan>> /\ gone \in SUBSET Present
  BY DEF DeleteRows
<1>2. Locking(r) /\ Scanning = {} /\ writer = r /\ \A s \in Request \ {r} : ~Locking(s)
  <2>1. Locking(r)
    BY <1>1 DEF Locking
  <2> QED BY <2>1, Alone DEF IInv, Typed
<1>3. /\ \A m \in Present : m \in gone <=> m \in DOMAIN q.rows
      /\ \A m \in gone : q.rows[m] = mounts[m]
      /\ q.clean => Cleanable(q.rows)
  BY <1>1 DEF IInv, Planned, DeletePlanned, Meant
<1>4. \A m \in Present \ gone : mounts[m].library \in libraries' /\ mounts[m].provider \in providers'
  BY <1>1 DEF IInv, Typed, TypeOK
<1>5. {Outputs(m, mounts[m]) : m \in gone} \cup excused \subseteq [by : Mount, in : Target]
  BY <1>1, OutputsTyped DEF IInv, Typed, TypeOK
<1> HIDE DEF gone
<1>6. /\ Present' = Present \ gone
      /\ \A m \in Mount : Has(m)' <=> m \in Present \ gone
      /\ \A m \in Present \ gone : mounts'[m] = mounts[m]
  BY <1>1, Fewer DEF IInv
<1>7. \A o \in files \ excused : o.by \in Mount /\ o \in [by : Mount, in : Target] /\ Claimed(o)
  BY <1>1, <1>2 DEF IInv, Accounted, Doomed, Locking, Typed, TypeOK
<1>8. CASE q.clean /\ Goes(r, c) /\ UNCHANGED <<writer, excused>>
  <2>1. q \in DeleteRequest
    BY <1>1, RequestKinds DEF IInv, Typed
  <2>2. c \in RequestType /\ c.pc = "cleaning" /\ c.rows = q.rows
    BY <2>1 DEF RequestType, DeleteRequest
  <2> HIDE DEF c
  <2>3. /\ request' \in [Request -> RequestType] /\ request'[r] = c
        /\ \A s \in Request \ {r} : request'[s] = request[s]
    BY <1>8, <2>2, GoesOn DEF IInv
  <2>4. Typed'
    BY <1>1, <1>4, <1>5, <1>8, <2>3, FewerTyped DEF IInv
  <2>5. LockHeld' /\ ScanTrue'
    BY <1>2, <1>1, <1>8, <2>2, <2>3 DEF IInv, LockHeld, Locking, ScanTrue, Scanning
  <2>6. \A m \in DOMAIN q.rows, n \in Present' : ~Overlap(q.rows[m].target, mounts'[n].target)
    BY <1>3, <1>6, <1>8 DEF Cleanable
  <2>7. CleanPlanned(r)'
    BY <2>2, <2>3, <2>6 DEF CleanPlanned, Overlap, Within
  <2>8. \A s \in Request \ {r} : request'[s].pc \notin {"writing", "deleting", "cleaning"}
    BY <1>2, <2>3 DEF Locking
  <2>9. Planned'
    BY <2>2, <2>3, <2>7, <2>8 DEF Planned, WritePlanned, DeletePlanned, CleanPlanned
  <2>10. Accounted'
    <3> SUFFICES ASSUME NEW o \in files \ excused
                 PROVE  Claimed(o)' \/ Doomed(o)'
      BY <1>1, <1>8 DEF Accounted
    <3>1. CASE o.by \in gone
      BY <1>3, <1>7, <2>2, <2>3, <3>1 DEF Claimed, Doomed, Present
    <3>2. CASE o.by \notin gone
      BY <1>6, <1>7, <3>2 DEF Claimed, Present
    <3> QED BY <3>1, <3>2
  <2> QED BY <2>4, <2>5, <2>9, <2>10 DEF IInv
<1>9. CASE EndsLocked(r) /\ excused' = excused \cup {Outputs(m, mounts[m]) : m \in gone}
  <2>1. /\ LockHeld' /\ Planned' /\ ScanTrue' /\ writer' = NoRequest
        /\ request' \in [Request -> RequestType]
    BY <1>1, <1>2, <1>9, LastOne
  <2>2. Typed'
    BY <1>1, <1>4, <1>5, <1>9, <2>1, FewerTyped DEF IInv
  <2>3. Accounted'
    <3> SUFFICES ASSUME NEW o \in files \ excused'
                 PROVE  Claimed(o)'
      BY <1>1 DEF Accounted
    <3>1. o.by \notin gone
      <4>1. o \in files \ excused
        BY <1>9
      <4>2. o.by \in gone => o = Outputs(o.by, mounts[o.by])
        BY <1>7, <4>1, OutputIs DEF Claimed
      <4> QED BY <1>9, <4>2
    <3> QED BY <1>6, <1>7, <1>9, <3>1 DEF Claimed, Present
  <2> QED BY <2>1, <2>2, <2>3 DEF IInv
<1> QED BY <1>8, <1>9 DEF DeleteRows, gone

\* Outputs are removed by the request that holds the lock, one tree at a time.
LEMMA OutputsCleaned ==
  ASSUME IInv, NEW r \in Request, CleanOutputs(r)
  PROVE  IInv'
<1> DEFINE q == request[r]
<1>1. q.pc = "cleaning" /\ UNCHANGED <<providers, libraries, mounts, scan>>
  BY DEF CleanOutputs
<1>2. Locking(r) /\ Scanning = {} /\ writer = r /\ \A s \in Request \ {r} : ~Locking(s)
  <2>1. Locking(r)
    BY <1>1 DEF Locking
  <2> QED BY <2>1, Alone DEF IInv, Typed
<1>3. q \in DeleteRequest /\ q.rows \in RowMaps
  <2>1. q \in DeleteRequest
    BY <1>1, RequestKinds DEF IInv, Typed
  <2> QED BY <2>1 DEF DeleteRequest
<1>4. DOMAIN q.rows \subseteq Mount /\ \A m \in DOMAIN q.rows : q.rows[m] \in Rows
  BY <1>3, RowMapIs
<1>5. files \cup excused \subseteq [by : Mount, in : Target]
  BY DEF IInv, Typed, TypeOK
<1>6. ASSUME NEW m \in DOMAIN q.rows,
             files' = Sweep(q.rows[m].target, {}),
             excused' = {o \in excused : ~Within(o.in, q.rows[m].target)},
             Goes(r, [q EXCEPT !.rows = [n \in DOMAIN q.rows \ {m} |-> q.rows[n]]]),
             writer' = writer
      PROVE  IInv'
  <2> DEFINE rest == [n \in DOMAIN q.rows \ {m} |-> q.rows[n]]
             c == [q EXCEPT !.rows = rest]
  <2>1. rest \in [DOMAIN q.rows \ {m} -> Rows] /\ DOMAIN rest = DOMAIN q.rows \ {m}
    BY <1>4
  <2>2. rest \in RowMaps
    BY <1>4, <2>1, RowMapMade
  <2>3. \A n \in DOMAIN rest : rest[n] = q.rows[n]
    OBVIOUS
  <2> HIDE DEF rest
  <2>4. c \in RequestType /\ c.pc = "cleaning" /\ c.rows = rest
    BY <1>1, <1>3, <2>2 DEF RequestType, DeleteRequest
  <2>5. Goes(r, c)
    BY <1>6 DEF rest
  <2> HIDE DEF c
  <2>6. /\ request' \in [Request -> RequestType] /\ request'[r] = c
        /\ \A s \in Request \ {r} : request'[s] = request[s]
    BY <2>4, <2>5, GoesOn DEF IInv
  <2>7. Present' = Present /\ Scanning' = {} /\ \A n \in Mount : Has(n)' <=> Has(n)
    BY <1>1, <1>2 DEF Present, Has, Scanning
  <2>8. files' \cup excused' \subseteq [by : Mount, in : Target]
    BY <1>5, <1>6 DEF Sweep
  <2>9. Typed'
    BY <1>1, <1>6, <2>6, <2>7, <2>8 DEF IInv, Typed, TypeOK, Overlap, Within
  <2>10. LockHeld' /\ ScanTrue'
    BY <1>2, <1>6, <2>4, <2>6, <2>7 DEF LockHeld, Locking, ScanTrue
  <2>11. CleanPlanned(r)'
    <3>1. \A n \in DOMAIN rest, k \in Present : ~Overlap(rest[n].target, mounts[k].target)
      BY <1>1, <2>1, <2>3 DEF IInv, Planned, CleanPlanned
    <3> QED BY <1>1, <2>4, <2>6, <2>7, <3>1 DEF CleanPlanned
  <2>12. \A s \in Request \ {r} : request'[s].pc \notin {"writing", "deleting", "cleaning"}
    BY <1>2, <2>6 DEF Locking
  <2>13. Planned'
    BY <2>4, <2>6, <2>11, <2>12 DEF Planned, WritePlanned, DeletePlanned, CleanPlanned
  <2>14. Accounted'
    <3> SUFFICES ASSUME NEW o \in files' \ excused'
                 PROVE  Claimed(o)' \/ Doomed(o)'
      BY DEF Accounted
    <3>1. o \in files /\ ~Within(o.in, q.rows[m].target) /\ o \notin excused
      BY <1>6 DEF Sweep
    <3>2. CASE Claimed(o)
      BY <1>1, <3>2 DEF Claimed, Has
    <3>3. CASE Doomed(o)
      <4>1. o.by \in DOMAIN q.rows /\ q.rows[o.by].target = o.in
        BY <1>2, <3>3 DEF Doomed, Locking
      <4>2. o.by # m
        BY <1>4, <3>1, <4>1, TargetWithinItself DEF Rows
      <4> QED BY <2>1, <2>3, <2>4, <2>6, <4>1, <4>2 DEF Doomed
    <3> QED BY <3>1, <3>2, <3>3 DEF IInv, Accounted
  <2> QED BY <2>9, <2>10, <2>13, <2>14 DEF IInv
<1>7. CASE DOMAIN q.rows = {} /\ EndsLocked(r) /\ UNCHANGED <<files, excused>>
  BY <1>1, <1>2, <1>5, <1>7, EndsThere
<1>8. CASE /\ EndsLocked(r) /\ UNCHANGED files
           /\ excused' = excused \cup {Outputs(m, q.rows[m]) : m \in DOMAIN q.rows}
  <2>1. {Outputs(m, q.rows[m]) : m \in DOMAIN q.rows} \subseteq [by : Mount, in : Target]
    BY <1>4 DEF Outputs, Rows
  <2>2. excused' \subseteq [by : Mount, in : Target] /\ excused \subseteq excused'
    BY <1>5, <1>8, <2>1
  <2> QED BY <1>1, <1>2, <1>8, <2>2, EndsThere
<1> QED BY <1>6, <1>7, <1>8 DEF CleanOutputs

\* Deleting a provider takes no lock: it goes on beside scans, and beside a
\* request that deletes or writes a mount.
LEMMA ProviderDeleted ==
  ASSUME IInv, NEW r \in Request, DeleteProvider(r)
  PROVE  IInv'
<1> DEFINE p == request[r].provider
           gone == {m \in Present : mounts[m].provider = p}
<1>1. /\ request[r].pc = "counted" /\ Goes(r, Idle) /\ providers' = providers \ {p}
      /\ mounts' = [m \in Mount |-> IF m \in gone THEN Gone ELSE mounts[m]]
      /\ excused' = excused \cup {Outputs(m, mounts[m]) : m \in gone}
      /\ UNCHANGED <<libraries, files, writer, scan>> /\ gone \in SUBSET Present
  BY DEF DeleteProvider, Ends
<1>2. \A m \in Present \ gone : mounts[m].library \in libraries' /\ mounts[m].provider \in providers'
  BY <1>1 DEF IInv, Typed, TypeOK
<1> HIDE DEF gone
<1>3. /\ request' \in [Request -> RequestType] /\ request'[r] = Idle
      /\ \A s \in Request \ {r} : request'[s] = request[s]
  BY <1>1, IdleIs, GoesOn DEF IInv
<1>4. /\ Present' = Present \ gone
      /\ \A m \in Mount : Has(m)' <=> m \in Present \ gone
      /\ \A m \in Present \ gone : mounts'[m] = mounts[m]
  BY <1>1, Fewer DEF IInv
<1>5. excused' \subseteq [by : Mount, in : Target]
  BY <1>1, OutputsTyped DEF IInv, Typed, TypeOK
<1>6. Typed'
  BY <1>1, <1>2, <1>3, <1>5, FewerTyped DEF IInv
<1>7. LockHeld'
  BY <1>1, <1>3, IdleIs DEF IInv, LockHeld, Locking
<1>8. Planned'
  <2>1. WritePlanned(r)' /\ DeletePlanned(r)' /\ CleanPlanned(r)'
    BY <1>3, IdleIs DEF WritePlanned, DeletePlanned, CleanPlanned
  <2>2. ASSUME NEW s \in Request \ {r}
        PROVE  WritePlanned(s)' /\ DeletePlanned(s)' /\ CleanPlanned(s)'
    <3>1. WritePlanned(s) /\ DeletePlanned(s) /\ CleanPlanned(s) /\ request'[s] = request[s]
      BY <1>3 DEF IInv, Planned
    <3>2. WritePlanned(s)'
      BY <1>4, <3>1 DEF WritePlanned, Isolated
    <3>3. DeletePlanned(s)'
      BY <1>4, <3>1 DEF DeletePlanned, Meant, Cleanable
    <3>4. CleanPlanned(s)'
      BY <1>4, <3>1 DEF CleanPlanned
    <3> QED BY <3>2, <3>3, <3>4
  <2> QED BY <2>1, <2>2 DEF Planned
<1>9. ScanTrue'
  <2> SUFFICES ASSUME NEW m \in Scanning
               PROVE  /\ IF m \in Present \ gone THEN mounts'[m] = scan[m]
                         ELSE Outputs(m, scan[m]) \in excused'
                      /\ \A n \in Present' \ {m} : ~Overlap(scan[m].target, mounts'[n].target)
    BY <1>1, <1>4 DEF ScanTrue, Scanning, Isolated
  <2>1. /\ IF m \in Present THEN mounts[m] = scan[m] ELSE Outputs(m, scan[m]) \in excused
        /\ \A n \in Present \ {m} : ~Overlap(scan[m].target, mounts[n].target)
    BY DEF IInv, ScanTrue, Isolated, Present, Scanning
  <2> QED BY <1>1, <1>4, <2>1
<1>10. Accounted'
  <2> SUFFICES ASSUME NEW o \in files \ excused'
               PROVE  Claimed(o)' \/ Doomed(o)'
    BY <1>1 DEF Accounted
  <2>1. o \in [by : Mount, in : Target] /\ o \notin excused
    BY <1>1 DEF IInv, Typed, TypeOK
  <2>2. CASE Doomed(o)
    BY <1>1, <1>3, <2>2 DEF Doomed
  <2>3. CASE Claimed(o)
    <3>1. o.by \notin gone
      BY <1>1, <2>1, <2>3, OutputIs DEF Claimed
    <3> QED BY <1>4, <2>1, <2>3, <3>1 DEF Claimed, Present
  <2> QED BY <2>1, <2>2, <2>3 DEF IInv, Accounted
<1> QED BY <1>6, <1>7, <1>8, <1>9, <1>10 DEF IInv

-----------------------------------------------------------------------------
(* Libraries, scans and the process *)

LEMMA LibraryCreated ==
  ASSUME IInv, NEW l \in Library, CreateLibrary(l)
  PROVE  IInv'
<1>1. /\ libraries' = libraries \cup {l}
      /\ UNCHANGED <<providers, mounts, files, writer, request, scan, excused>>
  BY DEF CreateLibrary
<1>2. Present' = Present /\ Scanning' = Scanning /\ \A m \in Mount : Has(m)' <=> Has(m)
  BY <1>1 DEF Present, Scanning, Has
<1>3. Typed'
  BY <1>1, <1>2 DEF IInv, Typed, TypeOK, Overlap, Within
<1>4. LockHeld' /\ Planned'
  BY <1>1, <1>2 DEF IInv, LockHeld, Locking, Planned, WritePlanned, DeletePlanned, CleanPlanned,
                    Meant, Isolated, Cleanable
<1>5. ScanTrue'
  BY <1>1, <1>2 DEF IInv, ScanTrue, Isolated, Has
<1>6. Accounted'
  BY <1>1 DEF IInv, Accounted, Claimed, Doomed, Has
<1> QED BY <1>3, <1>4, <1>5, <1>6 DEF IInv

LEMMA ScanStepped ==
  ASSUME IInv, NEW m \in Mount, BeginScan(m) \/ EndScan(m)
  PROVE  IInv'
<1>1. UNCHANGED <<providers, libraries, mounts, files, writer, request, excused>>
  BY DEF BeginScan, EndScan
<1>2. Present' = Present /\ \A n \in Mount : Has(n)' <=> Has(n)
  BY <1>1 DEF Present, Has
<1>3. /\ scan' \in [Mount -> Rows \cup {Gone}] /\ (writer # NoRequest => Scanning' = {})
      /\ \A n \in Scanning' \ Scanning : n = m /\ Has(m) /\ scan'[m] = mounts[m] /\ Isolated(m, mounts[m])
      /\ \A n \in Scanning' \cap Scanning : scan'[n] = scan[n]
  <2>1. CASE BeginScan(m)
    BY <2>1 DEF BeginScan, IInv, Typed, TypeOK, Scanning
  <2>2. CASE EndScan(m)
    BY <2>2 DEF EndScan, IInv, Typed, TypeOK, Scanning
  <2> QED BY <2>1, <2>2
<1>4. Typed'
  BY <1>1, <1>2, <1>3 DEF IInv, Typed, TypeOK, Overlap, Within
<1>5. LockHeld' /\ Planned'
  BY <1>1, <1>2 DEF IInv, LockHeld, Locking, Planned, WritePlanned, DeletePlanned, CleanPlanned,
                    Meant, Isolated, Cleanable
<1>6. ScanTrue'
  <2> SUFFICES ASSUME NEW n \in Scanning'
               PROVE  /\ IF Has(n) THEN mounts[n] = scan'[n] ELSE Outputs(n, scan'[n]) \in excused
                      /\ Isolated(n, scan'[n])
    BY <1>1, <1>2 DEF ScanTrue, Isolated, Has
  <2>1. CASE n \in Scanning
    BY <1>3, <2>1 DEF IInv, ScanTrue
  <2>2. CASE n \notin Scanning
    BY <1>3, <2>2
  <2> QED BY <2>1, <2>2
<1>7. Accounted'
  BY <1>1 DEF IInv, Accounted, Claimed, Doomed, Has
<1> QED BY <1>4, <1>5, <1>6, <1>7 DEF IInv

LEMMA OutputsScanned ==
  ASSUME IInv, NEW m \in Mount, ScanOutputs(m)
  PROVE  IInv'
<1>1. /\ m \in Scanning /\ files' = Sweep(scan[m].target, {Outputs(m, scan[m])})
      /\ UNCHANGED <<providers, libraries, mounts, writer, request, scan, excused>>
  BY DEF ScanOutputs, Scanning
<1>2. Present' = Present /\ Scanning' = Scanning /\ \A n \in Mount : Has(n)' <=> Has(n)
  BY <1>1 DEF Present, Scanning, Has
<1>3. files' \subseteq [by : Mount, in : Target]
  <2>1. scan[m] \in Rows
    BY <1>1 DEF IInv, Typed, Scanning
  <2>2. Outputs(m, scan[m]) \in [by : Mount, in : Target]
    BY <2>1 DEF Outputs, Rows
  <2> QED BY <1>1, <2>2 DEF Sweep, IInv, Typed, TypeOK
<1>4. Typed'
  BY <1>1, <1>2, <1>3 DEF IInv, Typed, TypeOK, Overlap, Within
<1>5. LockHeld' /\ Planned'
  BY <1>1, <1>2 DEF IInv, LockHeld, Locking, Planned, WritePlanned, DeletePlanned, CleanPlanned,
                    Meant, Isolated, Cleanable
<1>6. ScanTrue'
  BY <1>1, <1>2 DEF IInv, ScanTrue, Isolated, Has
<1>7. Accounted'
  <2> SUFFICES ASSUME NEW o \in files' \ excused
               PROVE  Claimed(o) \/ Doomed(o)
    BY <1>1 DEF Accounted, Claimed, Doomed, Has
  <2>1. CASE o \in files
    BY <2>1 DEF IInv, Accounted
  <2>2. CASE o = Outputs(m, scan[m])
    BY <1>1, <2>2 DEF IInv, ScanTrue, Claimed, Outputs
  <2> QED BY <1>1, <2>1, <2>2 DEF Sweep
<1> QED BY <1>4, <1>5, <1>6, <1>7 DEF IInv

LEMMA Restarted ==
  ASSUME IInv, Restart
  PROVE  IInv'
<1> DEFINE cleaning == {q \in Request : request[q].pc = "cleaning"}
           left(r) == {Outputs(m, request[r].rows[m]) : m \in DOMAIN request[r].rows}
<1>1. /\ excused' = excused \cup UNION {left(r) : r \in cleaning}
      /\ request' = [r \in Request |-> Idle] /\ writer' = NoRequest /\ scan' = [m \in Mount |-> Gone]
      /\ UNCHANGED <<providers, libraries, mounts, files>>
  BY DEF Restart
<1>2. \A r \in cleaning : left(r) \subseteq [by : Mount, in : Target]
  <2> SUFFICES ASSUME NEW r \in cleaning
               PROVE  left(r) \subseteq [by : Mount, in : Target]
    OBVIOUS
  <2>1. request[r] \in DeleteRequest
    BY RequestKinds DEF IInv, Typed
  <2>2. request[r].rows \in RowMaps
    BY <2>1 DEF DeleteRequest
  <2>3. DOMAIN request[r].rows \subseteq Mount /\ \A m \in DOMAIN request[r].rows : request[r].rows[m] \in Rows
    BY <2>2, RowMapIs
  <2> QED BY <2>3 DEF Outputs, Rows
<1>3. Present' = Present /\ Scanning' = {} /\ \A m \in Mount : Has(m)' <=> Has(m)
  BY <1>1 DEF Present, Scanning, Has
<1>4. \A r \in Request : request'[r] = Idle /\ Idle \in RequestType /\ Idle.pc = "idle"
  BY <1>1, IdleIs
<1>5. excused' \subseteq [by : Mount, in : Target]
  BY <1>1, <1>2 DEF IInv, Typed, TypeOK
<1>6. Typed'
  <2>1. request' \in [Request -> RequestType] /\ scan' \in [Mount -> Rows \cup {Gone}]
    BY <1>1, <1>4
  <2> QED BY <1>1, <1>3, <1>5, <2>1 DEF IInv, Typed, TypeOK, Overlap, Within
<1>7. LockHeld' /\ Planned' /\ ScanTrue'
  BY <1>1, <1>3, <1>4, MountAssumption
    DEF LockHeld, Locking, Planned, WritePlanned, DeletePlanned, CleanPlanned, ScanTrue
<1>8. Accounted'
  <2> SUFFICES ASSUME NEW o \in files \ excused'
               PROVE  Claimed(o)
    BY <1>1 DEF Accounted, Claimed, Has
  <2>1. o \in [by : Mount, in : Target] /\ o \notin excused
    BY <1>1 DEF IInv, Typed, TypeOK
  <2>2. ASSUME NEW r \in cleaning, o.by \in DOMAIN request[r].rows, request[r].rows[o.by].target = o.in
        PROVE  FALSE
    <3>1. o = Outputs(o.by, request[r].rows[o.by])
      BY <2>1, <2>2, OutputIs
    <3>2. o \in left(r)
      BY <2>2, <3>1
    <3> QED BY <1>1, <2>2, <3>2
  <2>3. ~Doomed(o)
    BY <2>2 DEF Doomed
  <2> QED BY <2>1, <2>3 DEF IInv, Accounted
<1> QED BY <1>6, <1>7, <1>8 DEF IInv

-----------------------------------------------------------------------------
(* Theorems *)

LEMMA InitInv == Init => IInv
<1> SUFFICES ASSUME Init PROVE IInv
  OBVIOUS
<1>1. Present = {} /\ Scanning = {}
  BY DEF Init, Present, Has, Scanning
<1>2. Typed
  BY <1>1, IdleIs DEF Init, Typed, TypeOK
<1>3. LockHeld /\ Planned /\ ScanTrue /\ Accounted
  BY <1>1, IdleIs, MountAssumption
    DEF Init, LockHeld, Locking, Planned, WritePlanned, DeletePlanned, CleanPlanned, ScanTrue, Accounted
<1> QED BY <1>2, <1>3 DEF IInv

LEMMA RequestStepInv ==
  ASSUME IInv, NEW r \in Request, RequestStep(r)
  PROVE  IInv'
<1>1. ASSUME NEW m \in Mount, NEW row \in Rows, AddMount(r, m, row) \/ EditMount(r, m, row)
      PROVE  IInv'
  BY <1>1, MountAskedFor
<1>2. ASSUME NEW clean \in BOOLEAN,
             (\E m \in Mount : DeleteMount(r, m, clean)) \/ (\E l \in Library : DeleteLibrary(r, l, clean))
      PROVE  IInv'
  BY <1>2, DeleteAskedFor
<1>3. ASSUME NEW p \in Provider, CountMounts(r, p)
      PROVE  IInv'
  BY <1>3, MountsCounted
<1>4. CASE CheckMount(r)
  BY <1>4, MountChecked
<1>5. CASE CreateMount(r)
  BY <1>5, MountCreated
<1>6. CASE UpdateMount(r)
  BY <1>6, MountUpdated
<1>7. CASE DeleteRows(r)
  BY <1>7, RowsDeleted
<1>8. CASE CleanOutputs(r)
  BY <1>8, OutputsCleaned
<1>9. CASE DeleteProvider(r)
  BY <1>9, ProviderDeleted
<1> QED BY <1>1, <1>2, <1>3, <1>4, <1>5, <1>6, <1>7, <1>8, <1>9 DEF RequestStep

LEMMA NextInv == IInv /\ [Next]_vars => IInv'
<1> SUFFICES ASSUME IInv, [Next]_vars PROVE IInv'
  OBVIOUS
<1>1. ASSUME NEW r \in Request, RequestStep(r)
      PROVE  IInv'
  BY <1>1, RequestStepInv
<1>2. ASSUME NEW l \in Library, CreateLibrary(l)
      PROVE  IInv'
  BY <1>2, LibraryCreated
<1>3. ASSUME NEW m \in Mount, BeginScan(m) \/ ScanOutputs(m) \/ EndScan(m)
      PROVE  IInv'
  BY <1>3, ScanStepped, OutputsScanned
<1>4. CASE Restart
  BY <1>4, Restarted
<1>5. CASE UNCHANGED vars
  <2>1. /\ UNCHANGED <<providers, libraries, mounts, files, writer, request, scan, excused>>
        /\ Present' = Present /\ Scanning' = Scanning /\ \A m \in Mount : Has(m)' <=> Has(m)
    BY <1>5 DEF vars, Present, Scanning, Has
  <2>2. Typed'
    BY <2>1 DEF IInv, Typed, TypeOK, Overlap, Within
  <2>3. LockHeld' /\ Planned'
    BY <2>1 DEF IInv, LockHeld, Locking, Planned, WritePlanned, DeletePlanned, CleanPlanned,
                Meant, Isolated, Cleanable
  <2>4. ScanTrue' /\ Accounted'
    BY <2>1 DEF IInv, ScanTrue, Isolated, Accounted, Claimed, Doomed, Has
  <2> QED BY <2>2, <2>3, <2>4 DEF IInv
<1> QED BY <1>1, <1>2, <1>3, <1>4, <1>5 DEF Next

\* The inductive invariant holds in every state of every behaviour.
LEMMA Invariant == Spec => []IInv
BY InitInv, NextInv, PTL DEF Spec

\* Every variable keeps to its type, rows refer to rows that exist, no scan runs
\* beside a change of mounts, and the targets of two mounts never overlap,
\* although each is compared with the others only before it is written
\* (app.go:1325-1349, :4203-4231).
THEOREM TypeCorrect == Spec => []TypeOK
<1>1. IInv => TypeOK
  BY DEF IInv, Typed
<1> QED BY <1>1, Invariant, PTL

\* What a request was asked to clean up is gone when it ends and no scan brings
\* it back: with no request under way, an output that is no mount's is one that
\* a move, a deletion without clean-up, the deletion of its provider or a failed
\* clean-up has left (app.go:1258-1291, :1368-1405).
THEOREM OutputsAccountedFor == Spec => []OutputsOwned
<1>1. IInv => OutputsOwned
  BY DEF IInv, OutputsOwned, Accounted, AtRest, Claimed, Doomed
<1> QED BY <1>1, Invariant, PTL

\* A step that removes outputs leaves those of every mount that exists: a scan's
\* sweep and a clean-up reach only targets that lie apart from theirs
\* (app.go:4161-4201, :4870).
LEMMA RemovesOnlyOwn ==
  ASSUME IInv, [Next]_vars, NEW o \in files \ files', Has(o.by)
  PROVE  mounts[o.by].target # o.in
<1> SUFFICES ASSUME mounts[o.by].target = o.in PROVE FALSE
  OBVIOUS
<1>1. o \in [by : Mount, in : Target] /\ o.by \in Present
  BY DEF IInv, Typed, TypeOK, Present
<1>2. ASSUME NEW r \in Request, CleanOutputs(r)
      PROVE  FALSE
  <2>1. PICK m \in DOMAIN request[r].rows : files' = Sweep(request[r].rows[m].target, {})
    BY <1>2 DEF CleanOutputs
  <2>2. Within(o.in, request[r].rows[m].target)
    BY <2>1 DEF Sweep
  <2>3. ~Overlap(request[r].rows[m].target, mounts[o.by].target)
    BY <1>1, <1>2 DEF CleanOutputs, IInv, Planned, CleanPlanned
  <2> QED BY <2>2, <2>3 DEF Overlap
<1>3. ASSUME NEW m \in Mount, ScanOutputs(m)
      PROVE  FALSE
  <2>1. /\ m \in Scanning /\ Within(o.in, scan[m].target) /\ o # Outputs(m, scan[m])
    BY <1>3 DEF ScanOutputs, Sweep, Scanning
  <2>2. CASE o.by = m
    <3>1. mounts[m] = scan[m]
      BY <2>1, <2>2 DEF IInv, ScanTrue
    <3> QED BY <1>1, <2>1, <2>2, <3>1, OutputIs
  <2>3. CASE o.by # m
    BY <1>1, <2>1, <2>3 DEF IInv, ScanTrue, Isolated, Overlap
  <2> QED BY <2>2, <2>3
<1>4. CASE files' = files
  BY <1>4
<1>5. ASSUME NEW r \in Request, RequestStep(r), ~CleanOutputs(r)
      PROVE  files' = files
  BY <1>5 DEF RequestStep, AddMount, EditMount, CheckMount, CreateMount, UpdateMount, DeleteMount,
              DeleteLibrary, BeginDelete, DeleteRows, CountMounts, DeleteProvider
<1>6. ASSUME \/ \E l \in Library : CreateLibrary(l)
             \/ \E m \in Mount : BeginScan(m) \/ EndScan(m)
             \/ Restart \/ UNCHANGED vars
      PROVE  files' = files
  BY <1>6 DEF CreateLibrary, BeginScan, EndScan, Restart, vars
<1> QED BY <1>2, <1>3, <1>4, <1>5, <1>6 DEF Next

\* Outputs of a mount that exists are never removed by what happens to another:
\* not by its scans, which sweep their whole tree, and not by the clean-up of a
\* deleted mount or library (app.go:4161-4201, :4870).
THEOREM OthersOutputsKept == Spec => LiveOutputsKept
<1>1. IInv /\ [Next]_vars => [\A o \in files \ files' : Has(o.by) => mounts[o.by].target # o.in]_vars
  BY RemovesOnlyOwn
<1> QED BY <1>1, Invariant, PTL DEF Spec, LiveOutputsKept

=============================================================================
