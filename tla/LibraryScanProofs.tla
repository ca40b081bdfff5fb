-------------------------- MODULE LibraryScanProofs --------------------------
(***************************************************************************)
(* Proofs about LibraryScan: what one mount's index and outputs are, and   *)
(* that a scan removes no output of a file that was there all along.       *)
(*                                                                         *)
(* Between the listing of a directory and the removal of stale outputs a   *)
(* file goes through todo, found, the index and plan, while handlers of    *)
(* reports take rows and outputs away.  The invariant follows it through   *)
(* all of them.  The delicate case is a file that is copied only for the   *)
(* sake of a medium: when the row of the medium vanishes between the       *)
(* listing and the loading of the index the scan no longer expects the     *)
(* copy.  So the medium has to be followed along with it, and it is in the *)
(* same directory, wanted as long, and the subject of no report.           *)
(***************************************************************************)
EXTENDS LibraryScan, TLAPS

NoteType ==
  [kind : {"change", "delete", "delete_dir"}, dir : Dirs, file : Files \cup {NoFile}]

NoteFits(n) ==
  n.kind = "delete" => n.file \in Files /\ n.dir = DirOf[n.file]

\* The types, of the reports too.
Typed ==
  /\ TypeOK
  /\ notes \subseteq NoteType /\ hook \in NoteType
  /\ \A n \in notes : NoteFits(n)
  /\ NoteFits(hook)
  /\ IF hookPc = "idle" THEN hook = Idle ELSE hook.kind # "change"
  /\ pc # "write" => writing = NoFile

\* A directory that exists lies in directories that exist.
Connected == \A d \in Dirs : \A e \in Below[d] \cap dirs : d \in dirs

\* An output that shows a file is that file's.
OutputsFit == \A o \in Outs : output[o] \in Files => OutOf[output[o]] = o

\* What a report of a deletion takes away.
Reported(n) ==
  CASE n.kind = "delete" -> {n.file}
    [] n.kind = "delete_dir" -> In(Below[n.dir])
    [] OTHER -> {}

\* The file is taken for its own sake, or for that of a medium.
Reason(f, S) == f \in Media \cup Artwork \/ \E m \in S \cap Media : f \in SidecarsOf[m]

\* A steady file is wanted, for the sake of a steady one, there is a scan, and no
\* report will say it is gone.
SteadyFits ==
  /\ steady \subseteq Wanted
  /\ \A f \in steady : Reason(f, steady)
  /\ pc = "idle" => steady = {}
  /\ \A n \in notes \cup {hook} : Reported(n) \cap steady = {}

\* What the scan is about to find, has found, and has put into the index.
ToList(f) ==
  IF scan.mode = "recursive" THEN \E d \in todo : DirOf[f] \in Below[d] ELSE DirOf[f] \in todo

Indexed(f) == f \in plan /\ entries[f] = "fresh"

\* While the scan walks: a steady file of its scope is still to be listed, or is
\* on its way.
Walking ==
  pc = "walk" => \A f \in steady \cap In(Scope(scan)) :
    ToList(f) \/ f \in found \/ Indexed(f)

\* Before the index is loaded, it holds the file.
Loading ==
  pc = "load" =>
    /\ scan.mode = "recursive"
    /\ \A f \in steady \cap In(Scope(scan)) : entries[f] = "fresh"

\* While outputs are written: its output will be expected.
Writing ==
  pc = "write" => \A f \in steady \cap In(Scope(scan)) :
    f \in plan \/ OutOf[f] \in expected

IInv ==
  Typed /\ Connected /\ OutputsFit /\ SteadyFits /\ Walking /\ Loading /\ Writing
-----------------------------------------------------------------------------
(* The tree *)

\* A directory is below itself, what is below it is a directory, and anything else
\* below it is below one of its children.
LEMMA Subtrees ==
  ASSUME NEW d \in Dirs
  PROVE  /\ d \in Below[d] /\ Below[d] \subseteq Dirs
         /\ \A e \in Below[d] : Below[e] \subseteq Below[d]
         /\ \A e \in Below[d] \ {d} : \E x \in Dirs \ {Root} : Parent[x] = d /\ e \in Below[x]
<1>1. Below[d] \subseteq Dirs BY TreeAssumption
<1>2. Below[d] = {d} \cup UNION {Below[x] : x \in {y \in Dirs \ {Root} : Parent[y] = d}}
  BY TreeAssumption
<1>3. \A e \in Below[d] : Below[e] \subseteq Below[d] BY TreeAssumption
<1> QED BY <1>1, <1>2, <1>3

\* The directories of the directories the tree holds.
LEMMA InFacts ==
  ASSUME NEW D
  PROVE  In(D) \subseteq Files /\ OutsIn(D) \subseteq Outs
         /\ \A f \in Files : f \in In(D) <=> DirOf[f] \in D
BY OutputAssumption DEF In, OutsIn

\* A wanted file is there, no directory above it is skipped, and the reason why it
\* is copied is wanted too and in the same directory.
LEMMA WantedFacts ==
  ASSUME files \subseteq Files, NEW f \in Wanted
  PROVE  /\ f \in files /\ f \in Files
         /\ \A d \in Dirs : DirOf[f] \in Below[d] => ~Skipped(d)
         /\ Reason(f, {m \in Wanted : DirOf[m] = DirOf[f]})
  <1> DEFINE Plain == {g \in files : \A d \in Dirs : DirOf[g] \in Below[d] => ~Skipped(d)}
  <1>1. f \in Plain /\ (f \in Media \cup Artwork \/ \E m \in Plain \cap Media : f \in SidecarsOf[m])
    BY DEF Wanted, Jobs
  <1>2. \A m \in Media : f \in SidecarsOf[m] => DirOf[f] = DirOf[m] /\ m \in Files
    BY OutputAssumption
  <1>3. \A m \in Plain \cap Media : m \in Wanted BY DEF Wanted, Jobs
  <1> HIDE DEF Plain
  <1>4. Reason(f, {m \in Wanted : DirOf[m] = DirOf[f]})
    BY <1>1, <1>2, <1>3 DEF Reason
  <1> QED BY <1>1, <1>4 DEF Plain

-----------------------------------------------------------------------------
(* Types *)

LEMMA EnqueuedTyped ==
  ASSUME pending \subseteq ScanType, NEW s \in ScanType
  PROVE  Enqueued(s) \subseteq ScanType
BY DEF Enqueued

LEMMA ScopeTyped ==
  ASSUME scan \in ScanType
  PROVE  Scope(scan) \subseteq Dirs /\ scan.dir \in Scope(scan) /\ scan.dir \in Dirs
         /\ Scope(scan) \subseteq Below[scan.dir]
  <1>1. scan.dir \in Dirs BY DEF ScanType
  <1> QED BY <1>1, Subtrees DEF Scope

LEMMA WithoutTyped ==
  ASSUME output \in [Outs -> Files \cup {"none", "empty"}], NEW O
  PROVE  /\ Without(O) \in [Outs -> Files \cup {"none", "empty"}]
         /\ \A o \in Outs : Without(O)[o] = IF o \in O THEN "none" ELSE output[o]
BY DEF Without

LEMMA UnlistedTyped ==
  ASSUME entries \in [Files -> {"none", "stale", "fresh"}], NEW S
  PROVE  /\ Unlisted(S) \in [Files -> {"none", "stale", "fresh"}]
         /\ \A f \in Files : Unlisted(S)[f] = IF f \in S THEN "none" ELSE entries[f]
BY DEF Unlisted

LEMMA JobsTyped ==
  ASSUME NEW S PROVE Jobs(S) \subseteq S
BY DEF Jobs

LEMMA IdleTyped == Idle \in NoteType /\ NoteFits(Idle) /\ Idle.kind = "change"
BY TreeAssumption DEF Idle, NoteType, NoteFits

LEMMA InitTyped == Init => Typed
<1> SUFFICES ASSUME Init PROVE Typed OBVIOUS
<1>1. scan \in ScanType /\ scan.dir \in Dirs BY TreeAssumption DEF Init, ScanType
<1>2. files \subseteq In(dirs) BY TreeAssumption DEF Init, In
<1>3. TypeOK
  BY <1>1, <1>2, BoundAssumption, OutputAssumption, Subtrees DEF Init, TypeOK
<1> QED BY <1>3, IdleTyped DEF Init, Typed

\* The changes of the tree.
LEMMA TreeTyped ==
  ASSUME Typed, TreeStep
  PROVE  Typed'
  <1> USE DEF Change, Report, treeVars, storeVars, scanVars, hookVars, histVars
  <1>1. /\ files \subseteq Files /\ dirs \subseteq Dirs
        /\ \A f \in files : DirOf[f] \in dirs
    BY InFacts DEF Typed, TypeOK
  <1>2. steady' \subseteq Files
    BY DEF Typed, TypeOK, TreeStep, Upload, Delete, DeleteDir, MakeDir, Jobs
  <1>3. /\ dirs' \subseteq Dirs /\ files' \subseteq In(dirs)'
        /\ notes' \subseteq NoteType /\ \A n \in notes' : NoteFits(n)
    <2>1. CASE \E f \in Files : Upload(f)
      <3>1. PICK f \in Files : Upload(f) BY <2>1
      <3> DEFINE n == [kind |-> "change", dir |-> DirOf[f], file |-> NoFile]
      <3>2. n \in NoteType /\ NoteFits(n) BY TreeAssumption DEF NoteType, NoteFits
      <3>3. notes' = notes \cup {n} BY <3>1 DEF Upload
      <3> HIDE DEF n
      <3>4. dirs' = dirs /\ files' = files \cup {f} /\ DirOf[f] \in dirs BY <3>1 DEF Upload
      <3>5. notes' \subseteq NoteType /\ \A k \in notes' : NoteFits(k)
        BY <3>2, <3>3 DEF Typed
      <3> QED BY <1>1, <3>4, <3>5 DEF In
    <2>2. CASE \E f \in Files : Delete(f)
      <3>1. PICK f \in Files : Delete(f) BY <2>2
      <3> DEFINE n == [kind |-> "delete", dir |-> DirOf[f], file |-> f]
      <3>2. n \in NoteType /\ NoteFits(n) BY TreeAssumption DEF NoteType, NoteFits
      <3>3. notes' = notes \cup {n} BY <3>1 DEF Delete
      <3> HIDE DEF n
      <3>4. dirs' = dirs /\ files' = files \ {f} BY <3>1 DEF Delete
      <3>5. notes' \subseteq NoteType /\ \A k \in notes' : NoteFits(k)
        BY <3>2, <3>3 DEF Typed
      <3> QED BY <1>1, <3>4, <3>5 DEF In
    <2>3. CASE \E d \in Dirs : DeleteDir(d)
      <3>1. PICK d \in Dirs : DeleteDir(d) BY <2>3
      <3> DEFINE n == [kind |-> "delete_dir", dir |-> d, file |-> NoFile]
      <3>2. n \in NoteType /\ NoteFits(n) BY DEF NoteType, NoteFits
      <3>3. notes' = notes \cup {n} BY <3>1 DEF DeleteDir
      <3> HIDE DEF n
      <3>4. dirs' = dirs \ Below[d] /\ files' = files \ In(Below[d]) BY <3>1 DEF DeleteDir
      <3>5. notes' \subseteq NoteType /\ \A k \in notes' : NoteFits(k)
        BY <3>2, <3>3 DEF Typed
      <3> QED BY <1>1, <3>4, <3>5 DEF In
    <2>4. CASE \E d \in Dirs : MakeDir(d)
      <3>1. PICK d \in Dirs : MakeDir(d) BY <2>4
      <3> DEFINE n == [kind |-> "change", dir |-> d, file |-> NoFile]
      <3>2. n \in NoteType /\ NoteFits(n) BY DEF NoteType, NoteFits
      <3>3. notes' = notes \cup {n} BY <3>1 DEF MakeDir
      <3> HIDE DEF n
      <3>4. dirs' = dirs \cup {d} /\ files' = files BY <3>1 DEF MakeDir
      <3>5. notes' \subseteq NoteType /\ \A k \in notes' : NoteFits(k)
        BY <3>2, <3>3 DEF Typed
      <3> QED BY <1>1, <3>4, <3>5 DEF In
    <2> QED BY <2>1, <2>2, <2>3, <2>4 DEF TreeStep
  <1>4. UNCHANGED <<storeVars, scanVars, hookPc, hook, crashes, broken, flawed, trusted>>
    BY DEF TreeStep, Upload, Delete, DeleteDir, MakeDir
  <1> QED BY <1>2, <1>3, <1>4 DEF Typed, TypeOK, NoteFits

\* The steps of the scan.
LEMMA ScanTyped ==
  ASSUME Typed, ScanStep
  PROVE  Typed'
  <1> USE DEF treeVars, storeVars, scanVars, hookVars, histVars, Reset
  <1> HIDE DEF NoteType
  <1>1. UNCHANGED <<dirs, files, notes, hookPc, hook>>
    BY DEF ScanStep, BeginScan, ListDir, UpsertEntry, SkipExisting, OpenStrm, Download,
           PurgeStale, LoadIndex, TakeListing, Forget, FillStrm, RemoveStale, FinishScan, ScanFails
  <1>2. /\ TypeOK
        /\ \A s \in ScanType : s.dir \in Dirs
        /\ Scope(scan) \subseteq Dirs
    BY ScopeTyped DEF Typed, TypeOK, ScanType
  <1>3. TypeOK'
    <2>1. CASE \E s \in pending : BeginScan(s)
      <3>1. PICK s \in pending : BeginScan(s) BY <2>1
      <3>2. s \in ScanType /\ s.dir \in Below[s.dir] BY <1>2, Subtrees DEF TypeOK
      <3>3. entries' \in [Files -> {"none", "stale", "fresh"}] BY <1>2, <3>1 DEF BeginScan, TypeOK
      <3>4. steady' \subseteq Files BY <1>2, <3>1, InFacts DEF BeginScan, TypeOK, Wanted, Jobs, In
      <3> QED BY <1>1, <1>2, <3>1, <3>2, <3>3, <3>4 DEF BeginScan, AtStep, TypeOK, In
    <2>2. CASE \E d \in Dirs : ListDir(d)
      <3>1. PICK d \in Dirs : ListDir(d) BY <2>2
      <3>2. d \in Below[scan.dir] BY <1>2, <3>1 DEF TypeOK, ListDir
      <3>3. \A x \in Subdirs(d) : x \in Below[d] /\ x \in Dirs
        <4>1. \A x \in Dirs \ {Root} : Parent[x] = d => x \in Below[x] /\ Below[x] \subseteq Below[d]
          BY Subtrees, TreeAssumption
        <4> QED BY <1>2, <4>1 DEF Subdirs, TypeOK
      <3>4. Below[d] \subseteq Below[scan.dir]
        BY <1>2, <3>2, Subtrees DEF TypeOK
      <3>5. todo' \subseteq Below[scan.dir] BY <1>2, <3>1, <3>3, <3>4 DEF ListDir, TypeOK
      <3>6. found' \subseteq Files BY <1>2, <3>1 DEF ListDir, TypeOK, In
      <3>7. output' \in [Outs -> Files \cup {"none", "empty"}]
        BY <1>2, <3>1, WithoutTyped DEF ListDir, TypeOK
      <3>8. pc' \in {"walk", "forget"} /\ UNCHANGED <<scan, plan, writing, expected, flawed, broken,
              entries, trusted, steady, unasked, pending>>
        BY <3>1 DEF ListDir, AtStep
      <3> QED BY <1>1, <1>2, <3>5, <3>6, <3>7, <3>8 DEF TypeOK, In
    <2>3. CASE \E f \in Files : UpsertEntry(f)
      <3>1. PICK f \in Files : UpsertEntry(f) BY <2>3
      <3>2. entries' \in [Files -> {"none", "stale", "fresh"}] BY <1>2, <3>1 DEF UpsertEntry, TypeOK
      <3> QED BY <1>1, <1>2, <3>1, <3>2 DEF UpsertEntry, AtStep, TypeOK, In
    <2>4. CASE \E f \in Files : SkipExisting(f)
      <3>1. PICK f \in Files : SkipExisting(f) BY <2>4
      <3>2. OutOf[f] \in Outs BY OutputAssumption
      <3>3. trusted' \subseteq Outs /\ expected' \subseteq Outs /\ plan' \subseteq Files
        BY <1>2, <3>1, <3>2 DEF SkipExisting, TypeOK
      <3> QED BY <1>1, <1>2, <3>1, <3>3 DEF SkipExisting, Planned, AtStep, TypeOK, In
    <2>5. CASE \E f \in Files : OpenStrm(f)
      <3>1. PICK f \in Files : OpenStrm(f) BY <2>5
      <3>2. output' \in [Outs -> Files \cup {"none", "empty"}] BY <1>2, <3>1 DEF OpenStrm, TypeOK
      <3> QED BY <1>1, <1>2, <3>1, <3>2 DEF OpenStrm, Planned, AtStep, TypeOK, In
    <2>6. CASE \E f \in Files : Download(f)
      <3>1. PICK f \in Files : Download(f) BY <2>6
      <3>2. OutOf[f] \in Outs /\ DirOf[f] \in Dirs BY OutputAssumption, TreeAssumption
      <3>3. output' \in [Outs -> Files \cup {"none", "empty"}] BY <1>2, <3>1 DEF Download, TypeOK
      <3>4. expected' \subseteq Outs /\ plan' \subseteq Files /\ flawed' \subseteq Dirs
        BY <1>2, <3>1, <3>2 DEF Download, TypeOK
      <3> QED BY <1>1, <1>2, <3>1, <3>3, <3>4 DEF Download, Planned, AtStep, TypeOK, In
    <2>7. CASE PurgeStale
      <3>1. entries' \in [Files -> {"none", "stale", "fresh"}]
        BY <1>2, <2>7, UnlistedTyped DEF PurgeStale, TypeOK
      <3> QED BY <1>1, <1>2, <2>7, <3>1 DEF PurgeStale, Walked, AtStep, TypeOK, In
    <2>8. CASE LoadIndex
      <3>1. plan' \subseteq Files BY <2>8 DEF LoadIndex, Jobs, In
      <3>2. writing = NoFile BY <2>8 DEF LoadIndex, AtStep, Typed
      <3> QED BY <1>1, <1>2, <2>8, <3>1, <3>2 DEF LoadIndex, AtStep, TypeOK, In
    <2>9. CASE TakeListing
      <3>1. plan' \subseteq Files BY <1>2, <2>9 DEF TakeListing, TypeOK, Jobs
      <3>2. writing = NoFile BY <2>9 DEF TakeListing, Walked, AtStep, Typed
      <3> QED BY <1>1, <1>2, <2>9, <3>1, <3>2 DEF TakeListing, Walked, AtStep, TypeOK, In
    <2>10. CASE Forget
      <3>1. entries' \in [Files -> {"none", "stale", "fresh"}]
        BY <1>2, <2>10, UnlistedTyped DEF Forget, TypeOK
      <3>2. broken' \subseteq Dirs BY <1>2, <2>10 DEF Forget, TypeOK
      <3> QED BY <1>1, <1>2, <2>10, <3>1, <3>2 DEF Forget, TypeOK, In
    <2>11. CASE FillStrm
      <3>1. writing \in Files /\ OutOf[writing] \in Outs
        BY <1>2, <2>11, OutputAssumption DEF FillStrm, TypeOK
      <3>2. output' \in [Outs -> Files \cup {"none", "empty"}]
        BY <1>2, <2>11, <3>1 DEF FillStrm, TypeOK
      <3>3. expected' \subseteq Outs /\ trusted' \subseteq Outs /\ plan' \subseteq Files
        BY <1>2, <2>11, <3>1 DEF FillStrm, TypeOK
      <3> QED BY <1>1, <1>2, <2>11, <3>2, <3>3 DEF FillStrm, AtStep, TypeOK, In
    <2>12. CASE \E o \in Outs : RemoveStale(o)
      <3>1. PICK o \in Outs : RemoveStale(o) BY <2>12
      <3>2. output' \in [Outs -> Files \cup {"none", "empty"}]
        BY <1>2, <3>1, WithoutTyped DEF RemoveStale, TypeOK
      <3> QED BY <1>1, <1>2, <3>1, <3>2 DEF RemoveStale, TypeOK, In
    <2>13. CASE FinishScan
      BY <1>1, <1>2, <2>13 DEF FinishScan, TypeOK, In
    <2>14. CASE ScanFails
      BY <1>1, <1>2, <2>14 DEF ScanFails, TypeOK, In
    <2> QED
      BY <2>1, <2>2, <2>3, <2>4, <2>5, <2>6, <2>7, <2>8, <2>9, <2>10, <2>11, <2>12, <2>13, <2>14
      DEF ScanStep
  <1>4. (pc # "write" => writing = NoFile)'
    <2>1. CASE pc' = "write" BY <2>1
    <2>2. CASE pc' # "write" /\ pc = "write"
      BY <2>2 DEF ScanStep, BeginScan, ListDir, UpsertEntry, SkipExisting, OpenStrm, Download,
           PurgeStale, LoadIndex, TakeListing, Forget, FillStrm, RemoveStale, FinishScan, ScanFails,
           AtStep, Walked
    <2>3. CASE pc # "write"
      BY <2>3 DEF ScanStep, BeginScan, ListDir, UpsertEntry, SkipExisting, OpenStrm, Download,
           PurgeStale, LoadIndex, TakeListing, Forget, FillStrm, RemoveStale, FinishScan, ScanFails,
           AtStep, Walked, Planned, Typed
    <2> QED BY <2>1, <2>2, <2>3
  <1> QED BY <1>1, <1>3, <1>4 DEF Typed, NoteFits

\* The steps of the handlers, and of those who ask for scans.
LEMMA HookTyped ==
  ASSUME Typed, HookStep
  PROVE  Typed'
  <1> USE DEF treeVars, storeVars, scanVars, hookVars, histVars
  <1>1. UNCHANGED <<dirs, files, pc, scan, todo, found, plan, writing, expected, trusted, steady>>
    BY DEF HookStep, RequestScan, HookChange, HookDelete, HookOutputs, HookEntries, HookEnqueue,
           HookFails
  <1>2. TypeOK /\ hook \in NoteType /\ notes \subseteq NoteType BY DEF Typed
  <1>3. \A n \in NoteType :
          /\ n.dir \in Dirs /\ ReportedDir(n) \in Dirs /\ Below[n.dir] \subseteq Dirs
          /\ \A h \in HookScans :
               /\ [mode |-> h.mode, dir |-> ReportedDir(n), overwrite |-> h.overwrite] \in ScanType
               /\ [mode |-> "current_level", dir |-> ReportedDir(n), overwrite |-> h.overwrite]
                    \in ScanType
    <2> SUFFICES ASSUME NEW n \in NoteType
                 PROVE  /\ n.dir \in Dirs /\ ReportedDir(n) \in Dirs /\ Below[n.dir] \subseteq Dirs
                        /\ \A h \in HookScans :
                          /\ [mode |-> h.mode, dir |-> ReportedDir(n), overwrite |-> h.overwrite]
                                \in ScanType
                          /\ [mode |-> "current_level", dir |-> ReportedDir(n),
                               overwrite |-> h.overwrite] \in ScanType
      OBVIOUS
    <2>1. n.dir \in Dirs BY DEF NoteType
    <2>2. ReportedDir(n) \in Dirs BY <2>1, TreeAssumption DEF ReportedDir
    <2>3. \A h \in HookScans : h.mode \in {"recursive", "current_level"} /\ h.overwrite \in BOOLEAN
      BY BoundAssumption
    <2> QED BY <2>1, <2>2, <2>3, Subtrees DEF ScanType
  <1>4. /\ entries' \in [Files -> {"none", "stale", "fresh"}]
        /\ output' \in [Outs -> Files \cup {"none", "empty"}]
    BY <1>2, WithoutTyped, UnlistedTyped
    DEF TypeOK, HookStep, RequestScan, HookChange, HookDelete, HookOutputs, HookEntries, HookEnqueue,
        HookFails
  <1>5. unasked' \subseteq Manual /\ pending' \subseteq ScanType
    <2>1. CASE \E s \in unasked : RequestScan(s)
      BY <1>2, <2>1, EnqueuedTyped, BoundAssumption DEF RequestScan, TypeOK
    <2>2. CASE \E n \in notes : HookChange(n)
      <3>1. PICK n \in notes : HookChange(n) BY <2>2
      <3> QED BY <1>2, <1>3, <3>1, EnqueuedTyped DEF HookChange, TypeOK
    <2>3. CASE HookEnqueue
      BY <1>2, <1>3, <2>3, EnqueuedTyped DEF HookEnqueue, TypeOK
    <2>4. CASE (\E n \in notes : HookDelete(n)) \/ HookOutputs \/ HookEntries \/ HookFails
      BY <1>2, <2>4 DEF HookDelete, HookOutputs, HookEntries, HookFails, TypeOK
    <2> QED BY <2>1, <2>2, <2>3, <2>4 DEF HookStep
  <1>6. /\ broken' \subseteq Dirs /\ flawed' \subseteq Dirs
        /\ pc = "idle" => flawed' = {}
    <2>1. /\ Below[hook.dir] \subseteq Dirs /\ dirs \subseteq Dirs
          /\ \A n \in notes : Below[n.dir] \subseteq Dirs
      BY <1>2, <1>3 DEF TypeOK
    <2> QED
      BY <1>2, <2>1
      DEF TypeOK, HookStep, RequestScan, HookChange, HookDelete, HookOutputs, HookEntries,
          HookEnqueue, HookFails, Disturbs, GivenUp, AtStep
  <1>7. /\ notes' \subseteq notes /\ hook' \in notes \cup {hook, Idle}
        /\ hookPc' \in {"idle", "outputs", "entries", "enqueue"}
        /\ IF hookPc' = "idle" THEN hook' = Idle ELSE hook'.kind # "change"
    <2>1. CASE \E n \in notes : HookDelete(n)
      BY <2>1 DEF HookDelete
    <2>2. CASE (\E s \in unasked : RequestScan(s)) \/ (\E n \in notes : HookChange(n))
      BY <1>2, <2>2 DEF RequestScan, HookChange, Typed, TypeOK
    <2>3. CASE HookOutputs \/ HookEntries
      BY <2>3 DEF HookOutputs, HookEntries, Typed
    <2>4. CASE HookEnqueue \/ HookFails
      BY <2>4 DEF HookEnqueue, HookFails
    <2> QED BY <2>1, <2>2, <2>3, <2>4 DEF HookStep
  <1>8. TypeOK' BY <1>1, <1>2, <1>4, <1>5, <1>6, <1>7 DEF TypeOK, In
  <1>9. \A n \in notes \cup {hook, Idle} : n \in NoteType /\ NoteFits(n)
    BY IdleTyped DEF Typed
  <1> QED BY <1>1, <1>7, <1>8, <1>9 DEF Typed, NoteFits

LEMMA TypedStep == Typed /\ [Next]_vars => Typed'
<1> SUFFICES ASSUME Typed, [Next]_vars PROVE Typed' OBVIOUS
<1>1. CASE Crash
  <2> USE DEF treeVars, storeVars, scanVars, hookVars, histVars
  <2>1. Scope(scan) \subseteq Dirs /\ Below[hook.dir] \subseteq Dirs
    BY ScopeTyped, Subtrees DEF Typed, TypeOK, NoteType
  <2>2. TypeOK' BY <1>1, <2>1 DEF Crash, Reset, Typed, TypeOK, In
  <2> QED BY <1>1, <2>2, IdleTyped DEF Crash, Reset, Typed, NoteFits
<1>2. CASE UNCHANGED vars
  BY <1>2 DEF vars, treeVars, storeVars, scanVars, hookVars, histVars, Typed, TypeOK, In, NoteFits
<1> QED BY <1>1, <1>2, TreeTyped, ScanTyped, HookTyped DEF Next

-----------------------------------------------------------------------------
(* Directories, outputs and steady files *)

LEMMA ConnectedStep ==
  ASSUME Typed, Connected, [Next]_vars
  PROVE  Connected'
<1> SUFFICES ASSUME NEW d \in Dirs, NEW e \in Below[d], e \in dirs'
             PROVE  d \in dirs'
  BY Subtrees DEF Connected
<1>1. e \in Dirs /\ d \in Below[d] /\ Below[e] \subseteq Below[d] BY Subtrees
<1>2. e \in dirs => d \in dirs BY DEF Connected
<1>3. CASE \E x \in Dirs : DeleteDir(x)
  <2>1. PICK x \in Dirs : DeleteDir(x) BY <1>3
  <2>2. dirs' = dirs \ Below[x] BY <2>1 DEF DeleteDir
  <2>3. d \in Below[x] => e \in Below[x] BY Subtrees
  <2> QED BY <1>2, <2>2, <2>3
<1>4. CASE \E x \in Dirs : MakeDir(x)
  <2>1. PICK x \in Dirs : MakeDir(x) BY <1>4
  <2>2. dirs' = dirs \cup {x} /\ Parent[x] \in dirs BY <2>1 DEF MakeDir
  <2>3. CASE e = x /\ d # x
    <3>1. Parent[x] \in Below[d] BY <2>3, TreeAssumption
    <3> QED BY <2>2, <3>1 DEF Connected
  <2> QED BY <1>2, <2>2, <2>3
<1>5. CASE UNCHANGED dirs BY <1>2, <1>5
<1>6. UNCHANGED dirs \/ (\E x \in Dirs : DeleteDir(x) \/ MakeDir(x))
  <2> USE DEF vars, treeVars, storeVars, scanVars, hookVars, histVars
  <2>1. ScanStep => UNCHANGED dirs
    BY DEF ScanStep, BeginScan, ListDir, UpsertEntry, SkipExisting, OpenStrm, Download,
           PurgeStale, LoadIndex, TakeListing, Forget, FillStrm, RemoveStale, FinishScan, ScanFails
  <2>2. HookStep => UNCHANGED dirs
    BY DEF HookStep, RequestScan, HookChange, HookDelete, HookOutputs, HookEntries, HookEnqueue,
           HookFails
  <2>3. (Crash \/ UNCHANGED vars) => UNCHANGED dirs BY DEF Crash
  <2>4. TreeStep => UNCHANGED dirs \/ (\E x \in Dirs : DeleteDir(x) \/ MakeDir(x))
    BY DEF TreeStep, Upload, Delete
  <2> QED BY <2>1, <2>2, <2>3, <2>4 DEF Next
<1> QED BY <1>3, <1>4, <1>5, <1>6

\* What is written to an output is the file it belongs to.
LEMMA OutputsStep ==
  ASSUME Typed, OutputsFit, [Next]_vars
  PROVE  OutputsFit'
<1> SUFFICES ASSUME NEW o \in Outs, output'[o] \in Files
             PROVE  OutOf[output'[o]] = o
  BY DEF OutputsFit
<1>1. /\ output[o] \in Files => OutOf[output[o]] = o
      /\ output \in [Outs -> Files \cup {"none", "empty"}]
      /\ "none" \notin Files /\ "empty" \notin Files
      /\ \A S : Without(S)[o] \in {"none", output[o]}
  BY OutputAssumption DEF OutputsFit, Typed, TypeOK, Without
<1> USE DEF vars, treeVars, storeVars, scanVars, hookVars, histVars
<1>2. CASE output'[o] = output[o] BY <1>1, <1>2
<1>3. CASE \E f \in Files : OpenStrm(f)
  <2>1. PICK f \in Files : OpenStrm(f) BY <1>3
  <2>2. output' = [output EXCEPT ![OutOf[f]] = "empty"] BY <2>1 DEF OpenStrm
  <2> QED BY <1>1, <2>2
<1>4. CASE \E f \in Files : Download(f)
  <2>1. PICK f \in Files : Download(f) BY <1>4
  <2>2. output' = [output EXCEPT ![OutOf[f]] = f] \/ output' = output BY <2>1 DEF Download
  <2> QED BY <1>1, <2>2
<1>5. CASE FillStrm
  <2>1. output' = [output EXCEPT ![OutOf[writing]] = writing] \/ output' = output
    BY <1>5 DEF FillStrm
  <2> QED BY <1>1, <2>1
<1>6. CASE \E S : output' = Without(S) BY <1>1, <1>6
<1>7. \/ UNCHANGED output \/ FillStrm
      \/ \E f \in Files : OpenStrm(f) \/ Download(f)
      \/ \E S : output' = Without(S)
  <2>1. ScanStep => \/ UNCHANGED output \/ FillStrm
                    \/ \E f \in Files : OpenStrm(f) \/ Download(f)
                    \/ \E S : output' = Without(S)
    BY DEF ScanStep, BeginScan, ListDir, UpsertEntry, SkipExisting,
           PurgeStale, LoadIndex, TakeListing, Forget, RemoveStale, FinishScan, ScanFails
  <2>2. HookStep => UNCHANGED output \/ \E S : output' = Without(S)
    BY DEF HookStep, RequestScan, HookChange, HookDelete, HookOutputs, HookEntries, HookEnqueue,
           HookFails
  <2>3. (Crash \/ UNCHANGED vars) => UNCHANGED output BY DEF Crash
  <2>4. TreeStep => UNCHANGED output
    BY DEF TreeStep, Upload, Delete, DeleteDir, MakeDir, Change
  <2> QED BY <2>1, <2>2, <2>3, <2>4 DEF Next
<1> QED BY <1>2, <1>3, <1>4, <1>5, <1>6, <1>7

\* A new report of a deletion is of files that are not wanted any more, and a scan
\* that begins leaves out what is reported.
LEMMA SteadyStep ==
  ASSUME Typed, Typed', SteadyFits, [Next]_vars
  PROVE  SteadyFits'
<1> USE DEF vars, treeVars, storeVars, scanVars, hookVars, histVars
<1>1. \A n : NoteFits(n) /\ n \in NoteType =>
         (Reported(n) \subseteq Files /\ (n.kind # "change" => Reported(n) \subseteq In(Below[n.dir])))
  <2> SUFFICES ASSUME NEW n \in NoteType, NoteFits(n)
               PROVE  /\ Reported(n) \subseteq Files
                      /\ n.kind # "change" => Reported(n) \subseteq In(Below[n.dir])
    OBVIOUS
  <2>1. n.dir \in Below[n.dir] /\ n.kind \in {"change", "delete", "delete_dir"}
    BY Subtrees DEF NoteType
  <2> QED BY <2>1, InFacts DEF NoteFits, Reported
<1>2. \A n \in NoteType : n.kind = "change" => Reported(n) = {} BY DEF Reported
<1>3. CASE TreeStep
  <2>1. /\ steady' = Jobs(steady \cap Wanted') /\ UNCHANGED <<pc, hook>>
    BY <1>3 DEF TreeStep, Upload, Delete, DeleteDir, MakeDir, Change
  <2>6. /\ steady' \subseteq steady /\ steady' \subseteq Wanted'
        /\ \A f \in steady' : Reason(f, steady')
    BY <2>1 DEF Jobs, Reason
  <2>2. Wanted' \subseteq files' BY DEF Wanted, Jobs
  <2>3. \A n \in notes' \ notes : Reported(n) \cap files' = {}
    <3>1. CASE \E f \in Files : Upload(f)
      BY <3>1 DEF Upload, Report, Reported
    <3>2. CASE \E f \in Files : Delete(f)
      <4>1. PICK f \in Files : Delete(f) BY <3>2
      <4>2. files' = files \ {f}
            /\ notes' = notes \cup {[kind |-> "delete", dir |-> DirOf[f], file |-> f]}
        BY <4>1 DEF Delete, Report
      <4> QED BY <4>2 DEF Reported
    <3>3. CASE \E d \in Dirs : DeleteDir(d)
      <4>1. PICK d \in Dirs : DeleteDir(d) BY <3>3
      <4>2. files' = files \ In(Below[d])
            /\ notes' = notes \cup {[kind |-> "delete_dir", dir |-> d, file |-> NoFile]}
        BY <4>1 DEF DeleteDir, Report
      <4> QED BY <4>2 DEF Reported
    <3>4. CASE \E d \in Dirs : MakeDir(d)
      BY <3>4 DEF MakeDir, Report, Reported
    <3> QED BY <1>3, <3>1, <3>2, <3>3, <3>4 DEF TreeStep
  <2>4. pc' = "idle" => steady' = {} BY <2>1, <2>6 DEF SteadyFits
  <2>5. \A n \in notes' \cup {hook'} : Reported(n) \cap steady' = {}
    BY <2>1, <2>2, <2>3, <2>6 DEF SteadyFits
  <2> QED BY <2>4, <2>5, <2>6 DEF SteadyFits, Reported, In, Reason
<1>4. CASE \E s \in pending : BeginScan(s)
  <2>1. PICK s \in pending : BeginScan(s) BY <1>4
  <2> DEFINE told == {x \in notes \cup {hook} : x.kind # "change"}
  <2>2. /\ steady' = Wanted \ In(UNION {Below[n.dir] : n \in told})
        /\ pc' = "walk" /\ UNCHANGED <<files, dirs, notes, hook>>
    BY <2>1 DEF BeginScan
  <2>3. Wanted' = Wanted
    BY <2>2 DEF Wanted, Jobs, Skipped, In
  <2>4. \A n \in notes \cup {hook} : Reported(n) \cap steady' = {}
    <3> SUFFICES ASSUME NEW n \in notes \cup {hook}, n.kind # "change"
                 PROVE  Reported(n) \cap steady' = {}
      BY <1>2 DEF Typed
    <3>1. Reported(n) \subseteq In(Below[n.dir]) BY <1>1 DEF Typed
    <3>2. Below[n.dir] \subseteq UNION {Below[m.dir] : m \in told} OBVIOUS
    <3>3. In(Below[n.dir]) \subseteq In(UNION {Below[m.dir] : m \in told}) BY <3>2 DEF In
    <3> QED BY <2>2, <3>1, <3>3
  <2>5. steady' \subseteq Wanted' BY <2>2, <2>3
  <2>6. \A f \in steady' : Reason(f, steady')
    <3> SUFFICES ASSUME NEW f \in steady' PROVE Reason(f, steady') OBVIOUS
    <3>1. files \subseteq Files BY DEF Typed, TypeOK, In
    <3>2. f \in Wanted /\ f \in Files /\ Wanted \subseteq files
          /\ Reason(f, {m \in Wanted : DirOf[m] = DirOf[f]})
      BY <2>2, <3>1, WantedFacts DEF Wanted, Jobs
    <3>3. \A m \in Wanted : DirOf[m] = DirOf[f] => m \in steady'
      BY <2>2, <3>1, <3>2 DEF In
    <3> QED BY <3>2, <3>3 DEF Reason
  <2> QED BY <2>2, <2>4, <2>5, <2>6 DEF SteadyFits, Reported, In, Reason
<1>5. CASE steady' = {} /\ notes' \cup {hook'} \subseteq NoteType
  BY <1>5 DEF SteadyFits
<1>6. CASE /\ UNCHANGED <<files, dirs, steady>> /\ notes' \cup {hook'} \subseteq notes \cup {hook, Idle}
           /\ pc' = "idle" => pc = "idle"
  <2>1. Wanted' = Wanted
    BY <1>6 DEF Wanted, Jobs, Skipped, In
  <2>2. Reported(Idle) = {} BY <1>2, IdleTyped
  <2>3. \A n \in notes' \cup {hook'} : Reported(n) \cap steady' = {}
    BY <1>6, <2>2 DEF SteadyFits
  <2> QED BY <1>6, <2>1, <2>3 DEF SteadyFits, Reported, In, Reason
<1>7. (steady' = {} \/ /\ UNCHANGED <<files, dirs, steady>>
                       /\ notes' \cup {hook'} \subseteq notes \cup {hook, Idle}
                       /\ pc' = "idle" => pc = "idle")
      \/ TreeStep \/ \E s \in pending : BeginScan(s)
  <2>1. ScanStep => \/ \E s \in pending : BeginScan(s)
                    \/ steady' = {}
                    \/ /\ UNCHANGED <<files, dirs, steady, notes, hook>>
                       /\ pc' = "idle" => pc = "idle"
    BY DEF ScanStep, ListDir, UpsertEntry, SkipExisting, OpenStrm, Download, FillStrm, AtStep, Walked,
           PurgeStale, LoadIndex, TakeListing, Forget, RemoveStale, FinishScan, ScanFails
  <2>2. HookStep => /\ UNCHANGED <<files, dirs, steady, pc>>
                    /\ notes' \cup {hook'} \subseteq notes \cup {hook, Idle}
    BY DEF HookStep, RequestScan, HookChange, HookDelete, HookOutputs, HookEntries, HookEnqueue,
           HookFails
  <2>3. Crash => steady' = {} BY DEF Crash
  <2>4. UNCHANGED vars => UNCHANGED <<files, dirs, steady, notes, hook, pc>> OBVIOUS
  <2> QED BY <2>1, <2>2, <2>3, <2>4 DEF Next
<1>8. notes' \cup {hook'} \subseteq NoteType BY DEF Typed
<1> QED BY <1>3, <1>4, <1>5, <1>6, <1>7, <1>8

-----------------------------------------------------------------------------
(* Following a steady file through a scan *)

\* Steps that leave the scan and the rows alone.
LEMMA Quiet ==
  ASSUME Walking, Loading, Writing,
         steady' \subseteq steady, UNCHANGED <<scanVars, entries>>
  PROVE  Walking' /\ Loading' /\ Writing'
<1>1. UNCHANGED <<pc, scan, todo, found, plan, writing, expected, entries>> BY DEF scanVars
<1>2. /\ In(Scope(scan))' = In(Scope(scan))
      /\ \A f : ToList(f)' = ToList(f) /\ Indexed(f)' = Indexed(f)
  BY <1>1 DEF In, Scope, ToList, Indexed
<1>3. Walking' BY <1>1, <1>2 DEF Walking
<1>4. Loading' BY <1>1, <1>2 DEF Loading
<1>5. Writing' BY <1>1, <1>2 DEF Writing
<1> QED BY <1>3, <1>4, <1>5

\* Without a scan there is nothing to follow.
LEMMA NoScan ==
  ASSUME pc' = "idle"
  PROVE  (Walking /\ Loading /\ Writing)'
BY DEF Walking, Loading, Writing

\* The listing of a directory finds the steady files in it, and goes on to the
\* directories below it.
LEMMA ListingFinds ==
  ASSUME IInv, NEW d \in Dirs, ListDir(d)
  PROVE  Walking'
<1> USE DEF treeVars, hookVars, histVars
<1> SUFFICES ASSUME pc' = "walk", NEW f \in steady, f \in In(Scope(scan))
             PROVE  (ToList(f) \/ f \in found \/ Indexed(f))'
  BY DEF ListDir, Walking, In, Scope
<1>1. /\ UNCHANGED <<files, dirs, entries, scan, plan, steady>>
      /\ d \in todo \cap dirs /\ pc = "walk"
  BY DEF ListDir, AtStep
<1>2. /\ Typed /\ files \subseteq Files /\ f \in Wanted /\ f \in Files
      /\ DirOf[f] \in Dirs /\ DirOf[f] \in dirs
  <2>1. Typed /\ files \subseteq In(dirs) /\ f \in Wanted
    BY DEF IInv, Typed, TypeOK, SteadyFits
  <2>2. files \subseteq Files /\ \A g \in files : DirOf[g] \in dirs BY <2>1, InFacts
  <2>3. f \in files BY <2>1, <2>2, WantedFacts
  <2> QED BY <2>1, <2>2, <2>3, TreeAssumption
<1>3. /\ f \in files
      /\ \A e \in Dirs : DirOf[f] \in Below[e] => ~Skipped(e)
  BY <1>2, WantedFacts
<1>4. ToList(f) \/ f \in found \/ Indexed(f) BY <1>1 DEF IInv, Walking
<1>5. Indexed(f)' = Indexed(f) BY <1>1 DEF Indexed
<1>6. CASE ~Skipped(d)
  <2>1. /\ found' = found \cup (files \cap In({d}))
        /\ todo' = (todo \ {d}) \cup (IF scan.mode = "recursive" THEN Subdirs(d) ELSE {})
    BY <1>6 DEF ListDir
  <2>2. CASE DirOf[f] = d
    <3>1. f \in found' BY <1>2, <1>3, <2>1, <2>2 DEF In
    <3> QED BY <3>1
  <2>3. CASE DirOf[f] # d /\ ToList(f)
    <3>1. CASE scan.mode = "recursive"
      <4>1. PICK e \in todo : DirOf[f] \in Below[e] BY <2>3, <3>1 DEF ToList
      <4>2. CASE e # d BY <1>1, <2>1, <3>1, <4>1, <4>2 DEF ToList
      <4>3. CASE e = d
        <5>1. PICK x \in Dirs \ {Root} : Parent[x] = d /\ DirOf[f] \in Below[x]
          BY <2>3, <4>1, <4>3, Subtrees
        <5>2. x \in dirs BY <1>2, <5>1 DEF IInv, Connected
        <5>3. x \in todo' BY <2>1, <3>1, <5>1, <5>2 DEF Subdirs
        <5> QED BY <1>1, <3>1, <5>1, <5>3 DEF ToList
      <4> QED BY <4>2, <4>3
    <3>2. CASE scan.mode # "recursive"
      BY <1>1, <2>1, <2>3, <3>2 DEF ToList
    <3> QED BY <3>1, <3>2
  <2>4. CASE ~ToList(f)
    BY <1>4, <1>5, <2>1, <2>4
  <2> QED BY <2>2, <2>3, <2>4
<1>7. CASE Skipped(d)
  <2>1. /\ todo' = todo \ {d} /\ UNCHANGED found
        /\ DirOf[f] \notin Below[d] /\ d \in Below[d]
    BY <1>3, <1>7, Subtrees DEF ListDir
  <2>2. ToList(f) => ToList(f)' BY <1>1, <2>1 DEF ToList
  <2> QED BY <1>4, <1>5, <2>1, <2>2
<1> QED BY <1>6, <1>7

\* A file that has been listed goes into the index.
LEMMA UpsertKeeps ==
  ASSUME IInv, NEW g \in Files, UpsertEntry(g)
  PROVE  Walking'
<1> USE DEF treeVars, hookVars, histVars
<1>1. /\ UNCHANGED <<scan, todo, steady, pc>>
      /\ found' = found \ {g} /\ plan' = plan \cup {g}
      /\ entries' = [entries EXCEPT ![g] = "fresh"] /\ pc = "walk"
  BY DEF UpsertEntry, AtStep
<1>2. entries \in [Files -> {"none", "stale", "fresh"}] BY DEF IInv, Typed, TypeOK
<1>3. \A m \in Files : m \in found \/ Indexed(m) => m \in found' \/ Indexed(m)'
  BY <1>1, <1>2 DEF Indexed
<1>4. \A f : ToList(f)' = ToList(f) BY <1>1 DEF ToList
<1>5. In(Scope(scan))' = In(Scope(scan)) /\ In(Scope(scan)) \subseteq Files
  BY <1>1 DEF In, Scope
<1> QED BY <1>1, <1>3, <1>4, <1>5 DEF IInv, Walking

\* The index that is loaded holds what was found, and a plan made of it holds every
\* steady file, because it holds the medium for whose sake the file is copied.
LEMMA IndexKeeps ==
  ASSUME IInv, PurgeStale \/ LoadIndex \/ TakeListing
  PROVE  Loading' /\ Writing'
<1> USE DEF treeVars, storeVars, hookVars, histVars
<1>1. /\ UNCHANGED <<scan, steady>>
      /\ In(Scope(scan))' = In(Scope(scan)) /\ In(Scope(scan)) \subseteq Files
  BY DEF PurgeStale, LoadIndex, TakeListing, In, Scope
<1>2. \A f \in steady \cap In(Scope(scan)) : Reason(f, steady \cap In(Scope(scan)))
  <2> SUFFICES ASSUME NEW f \in steady, f \in In(Scope(scan))
               PROVE  Reason(f, steady \cap In(Scope(scan)))
    OBVIOUS
  <2>1. Reason(f, steady) BY DEF IInv, SteadyFits
  <2>2. \A m \in Media : f \in SidecarsOf[m] => m \in In(Scope(scan))
    BY OutputAssumption, InFacts
  <2> QED BY <2>1, <2>2 DEF Reason
<1>3. ASSUME NEW S, steady \cap In(Scope(scan)) \subseteq S
      PROVE  steady \cap In(Scope(scan)) \subseteq Jobs(S)
  BY <1>2, <1>3 DEF Jobs, Reason
<1>4. CASE Walked("recursive") \/ Walked("current_level")
  <2>1. \A f \in steady \cap In(Scope(scan)) : Indexed(f)
    BY <1>4 DEF Walked, AtStep, ToList, IInv, Walking
  <2>2. CASE PurgeStale
    <3>1. /\ pc' = "load" /\ scan.mode = "recursive"
          /\ entries' = Unlisted({f \in In(Scope(scan)) : entries[f] # "fresh"})
      BY <2>2 DEF PurgeStale, Walked
    <3>2. \A m \in Files : Indexed(m) => entries'[m] = "fresh"
      BY <3>1 DEF Unlisted, Indexed
    <3>3. Loading' BY <1>1, <2>1, <3>1, <3>2 DEF Loading
    <3> QED BY <3>1, <3>3 DEF Writing
  <2>3. CASE TakeListing
    <3>1. pc' = "write" /\ plan' = Jobs(plan) BY <2>3 DEF TakeListing
    <3>2. steady \cap In(Scope(scan)) \subseteq plan' BY <1>3, <2>1, <3>1 DEF Indexed
    <3>3. Writing' BY <1>1, <3>2 DEF Writing
    <3> QED BY <3>1, <3>3 DEF Loading
  <2>4. ~LoadIndex BY <1>4 DEF LoadIndex, Walked, AtStep
  <2> QED BY <2>2, <2>3, <2>4
<1>5. CASE LoadIndex
  <2>1. /\ pc = "load" /\ pc' = "write"
        /\ plan' = Jobs({f \in In(Scope(scan)) : entries[f] # "none"})
    BY <1>5 DEF LoadIndex, AtStep
  <2>2. steady \cap In(Scope(scan)) \subseteq {f \in In(Scope(scan)) : entries[f] # "none"}
    BY <2>1 DEF IInv, Loading
  <2>3. steady \cap In(Scope(scan)) \subseteq plan' BY <1>3, <2>1, <2>2
  <2>4. Writing' BY <1>1, <2>3 DEF Writing
  <2> QED BY <2>1, <2>4 DEF Loading
<1> QED BY <1>4, <1>5 DEF PurgeStale, TakeListing

\* What leaves the plan is expected.
LEMMA WritingKeeps ==
  ASSUME IInv,
         FillStrm \/ \E g \in Files : SkipExisting(g) \/ OpenStrm(g) \/ Download(g)
  PROVE  Writing' /\ pc = "write" /\ pc' = "write"
<1> USE DEF treeVars, storeVars, hookVars, histVars
<1>1. /\ UNCHANGED <<scan, steady, pc>> /\ pc = "write"
      /\ In(Scope(scan))' = In(Scope(scan))
  BY DEF FillStrm, SkipExisting, OpenStrm, Download, AtStep, Planned, In, Scope
<1>2. \/ UNCHANGED <<plan, expected>>
      \/ \E g : plan' = plan \ {g} /\ expected' = expected \cup {OutOf[g]}
  BY DEF FillStrm, SkipExisting, OpenStrm, Download
<1> QED BY <1>1, <1>2 DEF IInv, Writing

LEMMA BeginFollows ==
  ASSUME IInv, NEW s \in pending, BeginScan(s)
  PROVE  (Walking /\ Loading /\ Writing)'
<1>1. pc' = "walk" /\ todo' = {s.dir} /\ scan' = s
  BY DEF BeginScan
<1>2. s \in ScanType BY DEF IInv, Typed, TypeOK
<1>3. Walking'
  <2>1. ScanType = [mode : {"recursive", "current_level"}, dir : Dirs, overwrite : BOOLEAN]
    BY DEF ScanType
  <2> SUFFICES ASSUME NEW f \in Files, DirOf[f] \in Scope(s) PROVE ToList(f)'
    BY <1>1 DEF Walking, In, Scope
  <2> QED BY <1>1 DEF ToList, Scope
<1> QED BY <1>1, <1>3 DEF Loading, Writing

LEMMA ScanFollows ==
  ASSUME IInv, ScanStep
  PROVE  (Walking /\ Loading /\ Writing)'
<1> USE DEF treeVars, storeVars, scanVars, hookVars, histVars
<1>1. CASE \E s \in pending : BeginScan(s) BY <1>1, BeginFollows
<1>2. CASE Forget \/ FinishScan \/ ScanFails
  BY <1>2, NoScan DEF Forget, FinishScan, ScanFails, Reset
<1>3. CASE \E o \in Outs : RemoveStale(o)
  BY <1>3, Quiet DEF RemoveStale, IInv
<1>4. CASE FillStrm \/ \E g \in Files : SkipExisting(g) \/ OpenStrm(g) \/ Download(g)
  BY <1>4, WritingKeeps DEF Walking, Loading
<1>5. CASE PurgeStale \/ LoadIndex \/ TakeListing
  <2>1. Loading' /\ Writing' BY <1>5, IndexKeeps
  <2>2. pc' # "walk" BY <1>5 DEF PurgeStale, LoadIndex, TakeListing
  <2> QED BY <2>1, <2>2 DEF Walking
<1>6. CASE \E g \in Files : UpsertEntry(g)
  <2>1. PICK g \in Files : UpsertEntry(g) BY <1>6
  <2>2. pc' = "walk" BY <2>1 DEF UpsertEntry, AtStep
  <2> QED BY <2>1, <2>2, UpsertKeeps DEF Loading, Writing
<1>7. CASE \E d \in Dirs : ListDir(d)
  <2>1. PICK d \in Dirs : ListDir(d) BY <1>7
  <2>2. pc' \in {"walk", "forget"} BY <2>1 DEF ListDir, AtStep
  <2>3. Walking' BY <2>1, ListingFinds
  <2> QED BY <2>2, <2>3 DEF Loading, Writing
<1> QED BY <1>1, <1>2, <1>3, <1>4, <1>5, <1>6, <1>7 DEF ScanStep

\* Handlers leave the scan alone, and the rows of steady files too.
LEMMA HookFollows ==
  ASSUME IInv, HookStep
  PROVE  (Walking /\ Loading /\ Writing)'
<1> USE DEF treeVars, storeVars, scanVars, hookVars, histVars
<1>1. CASE HookEntries
  <2>1. /\ UNCHANGED <<scanVars, steady>>
        /\ \/ hook.kind = "delete" /\ entries' = Unlisted({hook.file})
           \/ hook.kind = "delete_dir" /\ entries' = Unlisted(In(Below[hook.dir]))
    BY <1>1 DEF HookEntries
  <2>2. \A m \in Files \ Reported(hook) : entries'[m] = entries[m]
    BY <2>1 DEF Unlisted, Reported
  <2>3. Reported(hook) \cap steady = {} /\ steady \subseteq Files
    BY DEF IInv, SteadyFits, Typed, TypeOK
  <2>4. /\ In(Scope(scan))' = In(Scope(scan))
        /\ \A f : ToList(f)' = ToList(f)
        /\ \A f \in steady : entries'[f] = entries[f] /\ Indexed(f)' = Indexed(f)
    BY <2>1, <2>2, <2>3 DEF In, Scope, ToList, Indexed
  <2> QED BY <2>1, <2>4 DEF IInv, Walking, Loading, Writing
<1>2. CASE ~HookEntries
  <2>1. UNCHANGED <<scanVars, entries, steady>>
    BY <1>2 DEF HookStep, RequestScan, HookChange, HookDelete, HookOutputs, HookEnqueue, HookFails
  <2> QED BY <2>1, Quiet DEF IInv
<1> QED BY <1>1, <1>2

-----------------------------------------------------------------------------
(* The invariant and what it is for *)

LEMMA Initially == Init => IInv
<1> SUFFICES ASSUME Init PROVE IInv OBVIOUS
<1>1. Typed BY InitTyped
<1>2. Connected BY DEF Init, Connected
<1>3. OutputsFit BY OutputAssumption DEF Init, OutputsFit
<1>4. SteadyFits BY DEF Init, SteadyFits
<1> QED BY <1>1, <1>2, <1>3, <1>4 DEF Init, IInv, Walking, Loading, Writing

LEMMA Inductive == IInv /\ [Next]_vars => IInv'
<1> SUFFICES ASSUME IInv, [Next]_vars PROVE IInv' OBVIOUS
<1>1. Typed' BY TypedStep DEF IInv
<1>2. Connected' BY ConnectedStep DEF IInv
<1>3. OutputsFit' BY OutputsStep DEF IInv
<1>4. SteadyFits' BY <1>1, SteadyStep DEF IInv
<1>5. (Walking /\ Loading /\ Writing)'
  <2>1. CASE ScanStep BY <2>1, ScanFollows
  <2>2. CASE HookStep BY <2>2, HookFollows
  <2>3. CASE Crash BY <2>3, NoScan DEF Crash, Reset
  <2>4. CASE TreeStep \/ UNCHANGED vars
    <3>1. steady' \subseteq steady /\ UNCHANGED <<scanVars, entries>>
      BY <2>4 DEF TreeStep, Upload, Delete, DeleteDir, MakeDir, Change, Jobs,
                  vars, storeVars, scanVars, hookVars, histVars
    <3> QED BY <3>1, Quiet DEF IInv
  <2> QED BY <2>1, <2>2, <2>3, <2>4 DEF Next
<1> QED BY <1>1, <1>2, <1>3, <1>4, <1>5 DEF IInv

LEMMA Invariance == Spec => []IInv
  BY Initially, Inductive, PTL DEF Spec

\* The variables of the tree, the store, the scan and the handlers keep their types
\* (src/internal/app/app.go:2560).
THEOREM TypeCorrect == Spec => []TypeOK
<1>1. IInv => TypeOK BY DEF IInv, Typed
<1> QED BY <1>1, Invariance, PTL

\* A step that takes away the output of a steady file is a handler's.
LEMMA LiveKept ==
  ASSUME IInv, [Next]_vars, NEW o \in Outs, output[o] \in steady, output'[o] = "none"
  PROVE  hookPc = "outputs" /\ hookPc' = "entries"
<1> USE DEF treeVars, storeVars, scanVars, hookVars, histVars
<1> DEFINE f == output[o]
<1>1. /\ f \in steady /\ f \in Files /\ OutOf[f] = o /\ "none" \notin Files
      /\ files \subseteq Files /\ steady \subseteq Wanted
      /\ output \in [Outs -> Files \cup {"none", "empty"}]
  BY OutputAssumption, InFacts DEF IInv, Typed, TypeOK, OutputsFit, SteadyFits
<1>2. DirOf[f] \in Dirs /\ \A d \in Dirs : DirOf[f] \in Below[d] => ~Skipped(d)
  BY <1>1, WantedFacts, TreeAssumption
<1>3. \A D : o \in OutsIn(D) => DirOf[f] \in D
  <2> SUFFICES ASSUME NEW D, NEW g \in In(D), OutOf[g] = o PROVE DirOf[f] \in D
    BY DEF OutsIn
  <2>1. g \in Files /\ DirOf[g] \in D BY InFacts
  <2> QED BY <1>1, <2>1, OutputAssumption
<1> HIDE DEF f
<1>4. output'[o] # output[o] BY <1>1 DEF f
<1>5. \A O : output' = Without(O) => o \in O
  BY <1>4 DEF Without
<1>6. ~\E d \in Dirs : ListDir(d)
  <2> SUFFICES ASSUME NEW d \in Dirs, ListDir(d) PROVE FALSE OBVIOUS
  <2>1. Skipped(d) /\ output' = Without(OutsIn(Below[d])) BY <1>4 DEF ListDir
  <2> QED BY <1>2, <1>3, <1>5, <2>1
<1>7. ~\E x \in Outs : RemoveStale(x)
  <2> SUFFICES ASSUME NEW x \in Outs, RemoveStale(x) PROVE FALSE OBVIOUS
  <2>1. /\ pc = "write" /\ plan = {} /\ x \in OutsIn(Scope(scan)) \ expected
        /\ output' = Without({x})
    BY DEF RemoveStale, AtStep, StaleOuts
  <2>2. x = o BY <1>5, <2>1
  <2>3. f \in In(Scope(scan)) BY <1>1, <1>3, <2>1, <2>2, InFacts
  <2>4. f \in plan \/ OutOf[f] \in expected
    BY <1>1, <2>1, <2>3 DEF IInv, Writing
  <2> QED BY <1>1, <2>1, <2>2, <2>4
<1>8. ~\E g \in Files : OpenStrm(g) \/ Download(g)
  <2> SUFFICES ASSUME NEW g \in Files, OpenStrm(g) \/ Download(g) PROVE FALSE OBVIOUS
  <2>1. \/ output' = [output EXCEPT ![OutOf[g]] = "empty"]
        \/ output' = [output EXCEPT ![OutOf[g]] = g]
        \/ output' = output
    BY DEF OpenStrm, Download
  <2> QED BY <1>1, <1>4, <2>1
<1>9. ~FillStrm
  <2> SUFFICES ASSUME FillStrm PROVE FALSE OBVIOUS
  <2>1. writing \in Files BY DEF FillStrm, IInv, Typed, TypeOK
  <2>2. output' = [output EXCEPT ![OutOf[writing]] = writing] \/ output' = output
    BY DEF FillStrm
  <2> QED BY <1>1, <1>4, <2>1, <2>2
<1>10. HookOutputs
  <2>1. ~ScanStep
    BY <1>4, <1>6, <1>7, <1>8, <1>9
    DEF ScanStep, BeginScan, UpsertEntry, SkipExisting, PurgeStale, LoadIndex, TakeListing, Forget,
        FinishScan, ScanFails
  <2>2. ~TreeStep /\ ~Crash /\ ~UNCHANGED vars
    BY <1>4 DEF TreeStep, Upload, Delete, DeleteDir, MakeDir, Change, Crash, vars
  <2> QED
    BY <1>4, <2>1, <2>2
    DEF Next, HookStep, RequestScan, HookChange, HookDelete, HookEntries, HookEnqueue, HookFails
<1> QED BY <1>10 DEF HookOutputs

\* Neither the walk nor the removal of stale outputs takes the output of a file that
\* was there all along (src/internal/app/app.go:4870): only a report of a deletion does.
THEOREM ScansKeepLive == Spec => KeepsLive
<1>1. IInv /\ [Next]_vars
        => [\A o \in Outs : output[o] \in steady /\ output'[o] = "none"
                            => hookPc = "outputs" /\ hookPc' = "entries"]_vars
  BY LiveKept
<1> QED BY <1>1, Invariance, PTL DEF Spec, KeepsLive

-----------------------------------------------------------------------------
(* What outputs and index are at rest.                                     *)
(*                                                                         *)
(* A directory is unsettled while a report or a queued scan of it is on    *)
(* its way.  A settled one that no scan is at is as Mirror and             *)
(* IndexComplete want it, or broken; and one that the running scan is at   *)
(* is as far as the scan has come, or flawed.                              *)

\* No .ignore lies above another directory.  A scan of one directory asks nothing
\* above or below it for a .ignore, so without this the outputs need not be right.
LeafIgnores == \A f \in IgnoreFiles : Below[DirOf[f]] = {DirOf[f]}

\* A report that will be followed by a scan, or the removal, of the directory.
Concerns(n, d) ==
  IF n.kind = "delete_dir" THEN d \in Below[n.dir] ELSE d = n.dir

Handled(d) ==
  hookPc # "idle" /\ Concerns(hook, d) /\ (hook.kind = "delete" \/ hookPc = "outputs")

Queued(d) == \E p \in pending : d \in Scope(p)

Unsettled(d) == (\E n \in notes : Concerns(n, d)) \/ Handled(d) \/ Queued(d)

Scanned(d) == pc # "idle" /\ d \in Scope(scan)

\* What a scan finds in a directory.
Listable(d) == {f \in files : DirOf[f] = d /\ ~Skipped(d)}

\* The output shows what is wanted, or was trusted to.
Honest(f) == output[OutOf[f]] \in {"none"} \cup Wanted \/ OutOf[f] \in trusted

Right(d) ==
  \A f \in In({d}) :
    /\ f \in Wanted => output[OutOf[f]] # "none" /\ entries[f] # "none"
    /\ Honest(f)

DirToList(d) ==
  IF scan.mode = "recursive" THEN \E e \in todo : d \in Below[e] ELSE d \in todo

\* The walk has nothing but what is there, and all of it once it has been here.
Listed(d) ==
  /\ \A f \in In({d}) : f \in found \/ f \in plan \/ entries[f] = "fresh" => f \in Listable(d)
  /\ DirToList(d) \/ \A f \in Listable(d) : f \in found \/ Indexed(f)

Loaded(d) == \A f \in In({d}) : entries[f] # "none" <=> f \in Listable(d)

Written(d) ==
  \A f \in In({d}) :
    /\ f \in plan => f \in Wanted
    /\ f \in Wanted => /\ entries[f] # "none"
                       /\ f \in plan \/ (OutOf[f] \in expected /\ output[OutOf[f]] # "none")
    /\ f = writing => output[OutOf[f]] = "empty"
    /\ OutOf[f] \in expected
         => Honest(f) \/ (writing # NoFile /\ OutOf[writing] = OutOf[f])

Forgotten(d) == Skipped(d) /\ \A f \in In({d}) : output[OutOf[f]] = "none"

Progress(d) ==
  /\ pc = "walk" => Listed(d)
  /\ pc = "load" => Loaded(d)
  /\ pc = "write" => Written(d)
  /\ pc = "forget" => Forgotten(d)

Fine(d) ==
  \/ Unsettled(d)
  \/ Scanned(d) /\ (d \in flawed \/ Progress(d))
  \/ ~Scanned(d) /\ (d \in broken \/ Right(d))

\* A scan keeps to its scope.
InScope ==
  /\ pc # "idle" => todo \subseteq Scope(scan) /\ found \cup plan \subseteq In(Scope(scan))
  /\ pc # "write" => expected = {}
  /\ pc = "load" => scan.mode = "recursive"
  /\ pc = "forget" => scan.mode = "current_level" /\ Below[scan.dir] = {scan.dir}

Reconciled == \A d \in Dirs : Fine(d)

FInv == IInv /\ InScope /\ Reconciled

-----------------------------------------------------------------------------
(* What a directory depends on *)

\* Skipped, Listable and Wanted, of any set of files there may be.
SkippedIn(F, d) == F \cap In({d}) \cap IgnoreFiles # {}

ListableIn(F, d) == {f \in F : DirOf[f] = d /\ ~SkippedIn(F, d)}

WantedIn(F) == Jobs({f \in F : \A d \in Dirs : DirOf[f] \in Below[d] => ~SkippedIn(F, d)})

\* What is wanted of a directory is decided by what is in it.
LEMMA WantedLocally ==
  ASSUME LeafIgnores, NEW F, F \subseteq Files, NEW d \in Dirs, NEW f, DirOf[f] = d
  PROVE  f \in WantedIn(F) <=> f \in Jobs(ListableIn(F, d))
<1> DEFINE plain == {g \in F : \A e \in Dirs : DirOf[g] \in Below[e] => ~SkippedIn(F, e)}
<1>1. \A g \in F : DirOf[g] = d => (g \in plain <=> g \in ListableIn(F, d))
  <2> SUFFICES ASSUME NEW g \in F, DirOf[g] = d
               PROVE  g \in plain <=> g \in ListableIn(F, d)
    OBVIOUS
  <2>1. g \in plain => ~SkippedIn(F, d) BY Subtrees
  <2>2. ASSUME ~SkippedIn(F, d), NEW e \in Dirs, d \in Below[e], SkippedIn(F, e) PROVE FALSE
    <3>1. PICK i \in F \cap In({e}) \cap IgnoreFiles : TRUE BY <2>2 DEF SkippedIn
    <3>2. Below[e] = {e} BY <3>1 DEF LeafIgnores, In
    <3> QED BY <2>2, <3>2
  <2> QED BY <2>1, <2>2 DEF ListableIn
<1>2. plain \subseteq F /\ ListableIn(F, d) \subseteq F BY DEF ListableIn
<1>3. \A m \in Media : f \in SidecarsOf[m] => DirOf[m] = d BY OutputAssumption
<1>4. WantedIn(F) = Jobs(plain) BY DEF WantedIn
<1> HIDE DEF plain
<1> QED BY <1>1, <1>2, <1>3, <1>4 DEF Jobs

LEMMA AsIn ==
  /\ Wanted = WantedIn(files) /\ Wanted' = WantedIn(files')
  /\ \A d : /\ Skipped(d) = SkippedIn(files, d) /\ Skipped(d)' = SkippedIn(files', d)
            /\ Listable(d) = ListableIn(files, d) /\ Listable(d)' = ListableIn(files', d)
BY DEF Wanted, WantedIn, Skipped, SkippedIn, Listable, ListableIn, Jobs, In

LEMMA WantedHere ==
  ASSUME LeafIgnores, files \subseteq Files, NEW d \in Dirs, NEW f \in In({d})
  PROVE  /\ f \in Wanted <=> f \in Jobs(Listable(d))
         /\ f \in Wanted => f \in Listable(d)
  <1>1. DirOf[f] = d BY DEF In
  <1> QED BY <1>1, AsIn, WantedLocally, JobsTyped

LEMMA LocalKept ==
  ASSUME LeafIgnores, files \subseteq Files, files' \subseteq Files, NEW d \in Dirs,
         files' \cap In({d}) = files \cap In({d})
  PROVE  /\ Skipped(d)' = Skipped(d) /\ Listable(d)' = Listable(d)
         /\ \A f \in In({d}) : f \in Wanted' <=> f \in Wanted
<1>1. SkippedIn(files', d) = SkippedIn(files, d) BY DEF SkippedIn
<1>2. ListableIn(files', d) = ListableIn(files, d) BY <1>1 DEF ListableIn, In
<1>3. \A f \in In({d}) : DirOf[f] = d BY DEF In
<1>4. \A f \in In({d}) : f \in WantedIn(files') <=> f \in WantedIn(files)
  BY <1>2, <1>3, WantedLocally
<1> QED BY <1>1, <1>2, <1>4, AsIn

\* Files of different directories have different outputs.
LEMMA OutsApart ==
  ASSUME NEW D, NEW f \in Files, DirOf[f] \notin D
  PROVE  OutOf[f] \notin OutsIn(D)
BY OutputAssumption DEF OutsIn, In

\* What is honest about an output is decided by the output and its directory.
LEMMA HonestKept ==
  ASSUME LeafIgnores, Typed, OutputsFit, files' \subseteq Files, NEW d \in Dirs, NEW f \in In({d}),
         files' \cap In({d}) = files \cap In({d}),
         output'[OutOf[f]] = output[OutOf[f]],
         OutOf[f] \in trusted => OutOf[f] \in trusted',
         Honest(f)
  PROVE  Honest(f)'
<1>1. files \subseteq Files /\ output \in [Outs -> Files \cup {"none", "empty"}]
  BY InFacts DEF Typed, TypeOK
<1>2. CASE output[OutOf[f]] \in Wanted
  <2> DEFINE g == output[OutOf[f]]
  <2>1. g \in Files BY <1>1, <1>2, WantedFacts
  <2>2. OutOf[g] = OutOf[f] /\ f \in Files /\ OutOf[f] \in Outs
    BY <2>1, OutputAssumption DEF OutputsFit, In
  <2>3. DirOf[g] = DirOf[f] BY <2>1, <2>2, OutputAssumption
  <2>4. g \in In({d}) BY <2>1, <2>3 DEF In
  <2> HIDE DEF g
  <2>5. g \in Wanted => g \in Wanted' BY <1>1, <2>4, LocalKept
  <2> QED BY <1>2, <2>5 DEF Honest, g
<1>3. CASE output[OutOf[f]] = "none" \/ OutOf[f] \in trusted BY <1>3 DEF Honest
<1> QED BY <1>2, <1>3 DEF Honest

LEMMA RightKept ==
  ASSUME LeafIgnores, Typed, OutputsFit, files' \subseteq Files, NEW d \in Dirs,
         files' \cap In({d}) = files \cap In({d}),
         \A f \in In({d}) : /\ output'[OutOf[f]] = output[OutOf[f]]
                            /\ entries[f] # "none" => entries'[f] # "none"
                            /\ OutOf[f] \in trusted => OutOf[f] \in trusted',
         Right(d)
  PROVE  Right(d)'
<1>1. files \subseteq Files BY InFacts DEF Typed, TypeOK
<1>2. \A f \in In({d}) : f \in Wanted' <=> f \in Wanted BY <1>1, LocalKept
<1>3. \A f \in In({d}) : Honest(f)' BY HonestKept DEF Right
<1>4. In({d})' = In({d}) BY DEF In
<1> QED BY <1>2, <1>3, <1>4 DEF Right

\* Steps that leave the scan, and what is of the directory, alone.
LEMMA ProgressKept ==
  ASSUME LeafIgnores, Typed, OutputsFit, files' \subseteq Files, NEW d \in Dirs,
         UNCHANGED <<scanVars, trusted>>,
         files' \cap In({d}) = files \cap In({d}),
         \A f \in In({d}) : output'[OutOf[f]] = output[OutOf[f]] /\ entries'[f] = entries[f],
         Progress(d)
  PROVE  Progress(d)'
<1> USE DEF scanVars
<1>1. files \subseteq Files BY InFacts DEF Typed, TypeOK
<1>2. /\ Skipped(d)' = Skipped(d) /\ Listable(d)' = Listable(d)
      /\ \A f \in In({d}) : f \in Wanted' <=> f \in Wanted
      /\ Listable(d) \subseteq In({d})
  BY <1>1, LocalKept DEF Listable, In
<1>3. \A f \in In({d}) : Honest(f) => Honest(f)' BY HonestKept
<1>4. In({d})' = In({d}) /\ DirToList(d)' = DirToList(d) BY DEF In, DirToList
<1>5. pc = "walk" => Listed(d)' BY <1>2, <1>4 DEF Progress, Listed, Indexed
<1>6. pc = "load" => Loaded(d)' BY <1>2, <1>4 DEF Progress, Loaded
<1>7. pc = "write" => Written(d)'
  <2> SUFFICES ASSUME pc = "write", NEW f \in In({d})
               PROVE  (/\ f \in plan => f \in Wanted
                       /\ f \in Wanted => /\ entries[f] # "none"
                                          /\ f \in plan \/ (OutOf[f] \in expected /\ output[OutOf[f]] # "none")
                       /\ f = writing => output[OutOf[f]] = "empty"
                       /\ OutOf[f] \in expected
                            => Honest(f) \/ (writing # NoFile /\ OutOf[writing] = OutOf[f]))'
    BY <1>4 DEF Written
  <2>1. /\ f \in plan => f \in Wanted
        /\ f \in Wanted => /\ entries[f] # "none"
                           /\ f \in plan \/ (OutOf[f] \in expected /\ output[OutOf[f]] # "none")
        /\ f = writing => output[OutOf[f]] = "empty"
        /\ OutOf[f] \in expected
             => Honest(f) \/ (writing # NoFile /\ OutOf[writing] = OutOf[f])
    BY DEF Progress, Written
  <2> QED BY <1>2, <1>3, <2>1
<1>8. pc = "forget" => Forgotten(d)' BY <1>2, <1>4 DEF Progress, Forgotten
<1> QED BY <1>5, <1>6, <1>7, <1>8 DEF Progress

-----------------------------------------------------------------------------
(* Changes of the tree, and handlers *)

\* A report that comes in, or a request, leaves what is queued covered.
LEMMA EnqueuedCovers ==
  ASSUME pending \subseteq ScanType, NEW s \in ScanType, NEW d \in Dirs,
         Queued(d) \/ d \in Scope(s)
  PROVE  \E q \in Enqueued(s) : d \in Scope(q)
<1>1. \A p \in ScanType : p.dir \in Dirs /\ p.mode \in {"recursive", "current_level"}
  BY DEF ScanType
<1>2. ASSUME NEW p \in ScanType, NEW q \in ScanType, Covers(p, q), d \in Scope(q)
      PROVE  d \in Scope(p)
  <2>1. q.dir \in Below[p.dir] /\ p.mode = "recursive" BY <1>2 DEF Covers
  <2>2. Below[q.dir] \subseteq Below[p.dir] /\ q.dir \in Below[q.dir] BY <1>1, <2>1, Subtrees
  <2> QED BY <1>2, <2>1, <2>2 DEF Scope
<1>3. ASSUME NEW p \in ScanType, SameKey(p, s), d \in Scope(p)
      PROVE  d \in Scope(s)
  BY <1>3 DEF SameKey, Scope
<1>4. CASE Enqueued(s) = pending
  <2>1. CASE Queued(d) BY <1>4, <2>1 DEF Queued
  <2>2. CASE d \in Scope(s) /\ \E p \in pending : Covers(p, s)
    BY <1>2, <1>4, <2>2
  <2>3. CASE d \in Scope(s) /\ ~\E p \in pending : Covers(p, s)
    <3>1. s \in Enqueued(s) BY <2>3 DEF Enqueued
    <3> QED BY <2>3, <3>1
  <2> QED BY <2>1, <2>2, <2>3
<1>5. CASE Enqueued(s) = {p \in pending : ~SameKey(p, s) /\ ~Covers(s, p)} \cup {s}
  <2>1. CASE d \in Scope(s) BY <1>5, <2>1
  <2>2. CASE d \notin Scope(s)
    <3>1. PICK p \in pending : d \in Scope(p) BY <2>2 DEF Queued
    <3>2. ~SameKey(p, s) /\ ~Covers(s, p) BY <1>2, <1>3, <2>2, <3>1
    <3> QED BY <1>5, <3>1, <3>2
  <2> QED BY <2>1, <2>2
<1> QED BY <1>4, <1>5 DEF Enqueued

\* Steps that leave the scan, and what is of the directory, alone.
LEMMA Calm ==
  ASSUME LeafIgnores, FInv, files' \subseteq Files, NEW d \in Dirs,
         UNCHANGED <<scanVars, trusted>>,
         files' \cap In({d}) = files \cap In({d}),
         \A f \in In({d}) : output'[OutOf[f]] = output[OutOf[f]] /\ entries'[f] = entries[f],
         Unsettled(d) => Unsettled(d)',
         d \in broken => d \in broken',
         d \in flawed => d \in flawed'
  PROVE  Fine(d)'
<1>1. Scanned(d)' = Scanned(d) BY DEF Scanned, Scope, scanVars
<1>2. Typed /\ OutputsFit /\ Fine(d) BY DEF FInv, IInv, Reconciled
<1>3. Progress(d) => Progress(d)' BY <1>2, ProgressKept
<1>4. Right(d) => Right(d)' BY <1>2, RightKept
<1> QED BY <1>1, <1>2, <1>3, <1>4 DEF Fine

LEMMA TreeFine ==
  ASSUME LeafIgnores, FInv, Typed', TreeStep, NEW d \in Dirs
  PROVE  Fine(d)'
<1> USE DEF Change, Report, treeVars, storeVars, hookVars, histVars
<1>1. /\ UNCHANGED <<scanVars, trusted, broken, flawed, output, entries, pending, hookPc, hook>>
      /\ notes \subseteq notes'
  BY DEF TreeStep, Upload, Delete, DeleteDir, MakeDir
<1>2. /\ files' \subseteq Files /\ files \subseteq Files
      /\ \A f \in files : DirOf[f] \in dirs
  BY InFacts DEF FInv, IInv, Typed, TypeOK
<1>3. \A n \in notes' : Concerns(n, d) => Unsettled(d)'
  BY DEF Unsettled, Concerns
<1>4. Unsettled(d) => Unsettled(d)'
  <2>1. \A n \in notes : Concerns(n, d) => Unsettled(d)' BY <1>1, <1>3
  <2>2. Handled(d) => Handled(d)' BY <1>1 DEF Handled, Concerns
  <2>3. Queued(d) => Queued(d)' BY <1>1 DEF Queued, Scope
  <2> QED BY <2>1, <2>2, <2>3 DEF Unsettled
<1>5. files' \cap In({d}) = files \cap In({d}) \/ Unsettled(d)'
  <2>1. CASE \E f \in Files : Upload(f) \/ Delete(f)
    <3>1. PICK f \in Files : Upload(f) \/ Delete(f) BY <2>1
    <3>2. \/ [kind |-> "change", dir |-> DirOf[f], file |-> NoFile] \in notes'
          \/ [kind |-> "delete", dir |-> DirOf[f], file |-> f] \in notes'
      BY <3>1 DEF Upload, Delete
    <3>3. DirOf[f] = d => Unsettled(d)' BY <1>3, <3>2 DEF Concerns
    <3>4. files' = files \cup {f} \/ files' = files \ {f} BY <3>1 DEF Upload, Delete
    <3> QED BY <3>3, <3>4 DEF In
  <2>2. CASE \E x \in Dirs : DeleteDir(x)
    <3>1. PICK x \in Dirs : DeleteDir(x) BY <2>2
    <3>2. [kind |-> "delete_dir", dir |-> x, file |-> NoFile] \in notes' BY <3>1 DEF DeleteDir
    <3>3. d \in Below[x] => Unsettled(d)' BY <1>3, <3>2 DEF Concerns
    <3>4. files' = files \ In(Below[x]) BY <3>1 DEF DeleteDir
    <3> QED BY <3>3, <3>4 DEF In
  <2>3. CASE \E x \in Dirs : MakeDir(x) BY <2>3 DEF MakeDir
  <2> QED BY <2>1, <2>2, <2>3 DEF TreeStep
<1>6. CASE Unsettled(d)' BY <1>6 DEF Fine
<1>7. CASE files' \cap In({d}) = files \cap In({d})
  BY <1>1, <1>2, <1>4, <1>7, Calm
<1> QED BY <1>5, <1>6, <1>7

\* The companions of a file are in its directory.
LEMMA NamedHere ==
  ASSUME NEW f \in Files
  PROVE  Named(f) \subseteq OutsIn({DirOf[f]})
  <1>1. f \in In({DirOf[f]}) BY DEF In
  <1>2. \A s \in Files : DirOf[s] = DirOf[f] => s \in In({DirOf[f]}) BY DEF In
  <1>3. f \in Media => CompanionsOf[f] \subseteq SidecarsOf[f] /\ SidecarsOf[f] \subseteq Files
    BY OutputAssumption
  <1>4. f \in Media => \A s \in SidecarsOf[f] : DirOf[s] = DirOf[f]
    BY OutputAssumption
  <1> QED BY <1>1, <1>2, <1>3, <1>4 DEF Named, OutsIn

\* Outputs and rows of a reported directory that does not exist are of no use, and
\* the report says of one that does, and of the scan that is there, that it is broken.
LEMMA RemovalFine ==
  ASSUME LeafIgnores, FInv, Typed', NEW d \in Dirs, hook.kind = "delete_dir", d \in Below[hook.dir],
         HookOutputs \/ HookEntries
  PROVE  Fine(d)'
<1> USE DEF treeVars, storeVars, scanVars, hookVars, histVars
<1>1. /\ UNCHANGED <<scanVars, files, dirs, trusted, pending, notes, hook>>
      /\ Disturbs(Below[hook.dir])
      /\ HookOutputs => output' = Without(OutsIn(Below[hook.dir])) /\ UNCHANGED entries
      /\ HookEntries => UNCHANGED output
  BY DEF HookOutputs, HookEntries
<1>2. Scanned(d)' = Scanned(d) BY <1>1 DEF Scanned, Scope
<1>3. CASE Scanned(d)
  <2>1. d \in flawed' BY <1>1, <1>3 DEF Disturbs, Scanned, AtStep
  <2> QED BY <1>2, <1>3, <2>1 DEF Fine
<1>4. CASE ~Scanned(d) /\ d \in dirs
  <2>1. d \in broken' BY <1>1, <1>4 DEF Disturbs
  <2> QED BY <1>2, <1>4, <2>1 DEF Fine
<1>5. CASE ~Scanned(d) /\ d \notin dirs
  <2>1. files \subseteq Files /\ \A f \in files : DirOf[f] \in dirs
    BY InFacts DEF FInv, IInv, Typed, TypeOK
  <2>2. \A f \in In({d}) : f \notin Wanted'
    <3>1. Wanted' = Wanted BY <1>1, AsIn
    <3> QED BY <1>5, <2>1, <3>1, WantedFacts DEF In
  <2>3. CASE HookOutputs
    <3>1. \A f \in In({d}) : OutOf[f] \in OutsIn(Below[hook.dir]) /\ OutOf[f] \in Outs
      BY OutputAssumption DEF OutsIn, In
    <3>2. \A f \in In({d}) : output'[OutOf[f]] = "none" BY <1>1, <2>3, <3>1 DEF Without
    <3>3. Right(d)' BY <2>2, <3>2 DEF Right, Honest, In
    <3> QED BY <1>2, <1>5, <3>3 DEF Fine
  <2>4. CASE HookEntries
    <3>1. hookPc = "entries" /\ hook.kind # "delete" BY <2>4 DEF HookEntries
    <3>2. CASE Unsettled(d)
      <4>1. ~Handled(d) BY <3>1 DEF Handled
      <4>2. Unsettled(d)' BY <1>1, <3>2, <4>1 DEF Unsettled, Queued, Scope, Concerns
      <4> QED BY <4>2 DEF Fine
    <3>3. CASE d \in broken
      <4>1. d \in broken' BY <1>1, <3>3 DEF Disturbs
      <4> QED BY <1>2, <1>5, <4>1 DEF Fine
    <3>4. CASE Right(d)
      <4>1. Wanted' = Wanted BY <1>1, AsIn
      <4>2. \A f \in In({d}) : Honest(f)' BY <1>1, <2>4, <3>4, <4>1 DEF Right, Honest
      <4>3. Right(d)' BY <2>2, <4>2 DEF Right, In
      <4> QED BY <1>2, <1>5, <4>3 DEF Fine
    <3> QED BY <1>5, <3>2, <3>3, <3>4 DEF Fine, FInv, Reconciled
  <2> QED BY <2>3, <2>4
<1> QED BY <1>3, <1>4, <1>5

\* A directory that is not below another one keeps its outputs and rows when those
\* below the other are removed.
LEMMA Elsewhere ==
  ASSUME Typed, NEW d \in Dirs, NEW D, d \notin D
  PROVE  \A f \in In({d}) : /\ Without(OutsIn(D))[OutOf[f]] = output[OutOf[f]]
                            /\ Unlisted(In(D))[f] = entries[f]
<1> SUFFICES ASSUME NEW f \in In({d})
             PROVE  /\ Without(OutsIn(D))[OutOf[f]] = output[OutOf[f]]
                    /\ Unlisted(In(D))[f] = entries[f]
  OBVIOUS
<1>1. f \in Files /\ DirOf[f] = d /\ OutOf[f] \in Outs /\ f \notin In(D)
  BY OutputAssumption DEF In
<1>2. OutOf[f] \notin OutsIn(D) BY <1>1, OutsApart
<1> QED BY <1>1, <1>2 DEF Without, Unlisted

LEMMA HookFine ==
  ASSUME LeafIgnores, FInv, Typed', HookStep, NEW d \in Dirs
  PROVE  Fine(d)'
<1> USE DEF treeVars, storeVars, hookVars, histVars
<1>1. UNCHANGED <<scanVars, trusted, files, dirs>>
  BY DEF HookStep, RequestScan, HookChange, HookDelete, HookOutputs, HookEntries, HookEnqueue,
         HookFails
<1>2. /\ Typed /\ pending \subseteq ScanType /\ files \subseteq Files /\ files' \subseteq Files
      /\ hook \in NoteType /\ NoteFits(hook) /\ notes \subseteq NoteType
      /\ hookPc # "idle" => hook.kind # "change"
  BY <1>1, InFacts DEF FInv, IInv, Typed, TypeOK
<1>3. hook.dir \in Dirs /\ hook.dir \in Below[hook.dir] BY <1>2, Subtrees DEF NoteType
<1>4. ASSUME NEW s \in ScanType, pending' = Enqueued(s), Queued(d) \/ d \in Scope(s)
      PROVE  Unsettled(d)'
  <2>1. \E q \in Enqueued(s) : d \in Scope(q) BY <1>2, <1>4, EnqueuedCovers
  <2> QED BY <1>4, <2>1 DEF Unsettled, Queued, Scope
<1>5. ASSUME UNCHANGED <<output, entries>>, d \in broken => d \in broken', d \in flawed => d \in flawed',
             Unsettled(d) => Unsettled(d)'
      PROVE  Fine(d)'
  BY <1>1, <1>2, <1>5, Calm
<1>6. \A n : Concerns(n, d)' = Concerns(n, d) BY DEF Concerns
<1>13. ASSUME NEW n \in NoteType, GivenUp(n), UNCHANGED <<output, entries>>,
              d \notin Below[n.dir] => (Unsettled(d) => Unsettled(d)')
       PROVE  Fine(d)'
  <2>1. CASE d \in Below[n.dir]
    <3>1. Scanned(d)' = Scanned(d) /\ (Scanned(d) => ~AtStep("idle"))
      BY <1>1 DEF Scanned, Scope, scanVars, AtStep
    <3> QED BY <1>13, <2>1, <3>1 DEF Fine, GivenUp
  <2>2. CASE d \notin Below[n.dir]
    <3>1. (d \in broken => d \in broken') /\ (d \in flawed => d \in flawed')
      BY <1>13 DEF GivenUp
    <3> QED BY <1>5, <1>13, <2>2, <3>1
  <2> QED BY <2>1, <2>2
<1>7. CASE \E s \in unasked : RequestScan(s)
  <2>1. PICK s \in unasked : RequestScan(s) BY <1>7
  <2>2. s \in ScanType BY <1>2, BoundAssumption DEF Typed, TypeOK
  <2>3. UNCHANGED <<output, entries, broken, flawed, notes, hookPc, hook>> /\ pending' = Enqueued(s)
    BY <2>1 DEF RequestScan
  <2>4. Unsettled(d) => Unsettled(d)'
    <3>1. CASE Queued(d) BY <1>4, <2>2, <2>3, <3>1
    <3>2. CASE ~Queued(d) BY <2>3, <3>2 DEF Unsettled, Handled, Concerns
    <3> QED BY <3>1, <3>2
  <2> QED BY <1>5, <2>3, <2>4
<1>8. CASE \E n \in notes : HookChange(n)
  <2>1. PICK n \in notes : HookChange(n) BY <1>8
  <2>9. CASE GivenUp(n) /\ UNCHANGED pending
    <3>1. /\ n \in NoteType /\ n.kind = "change" /\ notes' = notes \ {n}
          /\ UNCHANGED <<output, entries, hookPc, hook>>
      BY <1>2, <2>1 DEF HookChange
    <3>2. n.dir \in Below[n.dir] BY <3>1, Subtrees DEF NoteType
    <3>3. d \notin Below[n.dir] => (Unsettled(d) => Unsettled(d)')
      BY <2>9, <3>1, <3>2 DEF Unsettled, Handled, Concerns, Queued, Scope
    <3> QED BY <1>13, <2>9, <3>1, <3>3
  <2> SUFFICES ASSUME ~(GivenUp(n) /\ UNCHANGED pending) PROVE Fine(d)'
    BY <2>9
  <2>2. PICK h \in HookScans :
          pending' = Enqueued([mode |-> h.mode, dir |-> ReportedDir(n), overwrite |-> h.overwrite])
    BY <2>1 DEF HookChange
  <2> DEFINE s == [mode |-> h.mode, dir |-> ReportedDir(n), overwrite |-> h.overwrite]
  <2>3. /\ n \in NoteType /\ n.kind = "change" /\ notes' = notes \ {n}
        /\ UNCHANGED <<output, entries, broken, flawed, hookPc, hook>>
    BY <1>2, <2>1 DEF HookChange
  <2>4. n.dir \in Dirs /\ h.mode \in {"recursive", "current_level"} /\ h.overwrite \in BOOLEAN
    BY <2>3, BoundAssumption DEF NoteType
  <2>5. ReportedDir(n) = n.dir BY <2>3 DEF ReportedDir
  <2>6. s \in ScanType /\ n.dir \in Scope(s)
    BY <2>4, <2>5, Subtrees DEF ScanType, Scope
  <2>7. pending' = Enqueued(s) BY <2>2
  <2> HIDE DEF s
  <2>8. Unsettled(d) => Unsettled(d)'
    <3>1. CASE Queued(d) BY <1>4, <2>6, <2>7, <3>1
    <3>2. CASE Concerns(n, d)
      <4>1. d \in Scope(s) BY <2>3, <2>6, <3>2 DEF Concerns
      <4> QED BY <1>4, <2>6, <2>7, <4>1
    <3>3. CASE ~Queued(d) /\ ~Concerns(n, d) BY <1>6, <2>3, <3>3 DEF Unsettled, Handled
    <3> QED BY <3>1, <3>2, <3>3
  <2> QED BY <1>5, <2>3, <2>8
<1>9. CASE \E n \in notes : HookDelete(n)
  <2>1. PICK n \in notes : HookDelete(n) BY <1>9
  <2>2. /\ hookPc = "idle" /\ n \in NoteType /\ n.kind # "change"
        /\ notes' = notes \ {n} /\ hook' = n /\ hookPc' = "outputs"
        /\ UNCHANGED <<output, entries, broken, flawed, pending>>
    BY <1>2, <2>1 DEF HookDelete
  <2>3. Unsettled(d) => Unsettled(d)'
    <3>1. CASE Queued(d) BY <2>2, <3>1 DEF Unsettled, Queued, Scope
    <3>2. CASE Concerns(n, d) BY <1>6, <2>2, <3>2 DEF Unsettled, Handled, Concerns
    <3>3. CASE ~Queued(d) /\ ~Concerns(n, d) BY <1>6, <2>2, <3>3 DEF Unsettled, Handled
    <3> QED BY <3>1, <3>2, <3>3
  <2> QED BY <1>5, <2>2, <2>3
<1>10. CASE HookOutputs \/ HookEntries
  <2>1. /\ UNCHANGED <<notes, hook, pending>> /\ hookPc # "idle" /\ hookPc' # "idle"
        /\ hook.kind = "delete" \/ hook.kind = "delete_dir"
    BY <1>10 DEF HookOutputs, HookEntries
  <2>2. CASE hook.kind = "delete" /\ d = hook.dir
    BY <2>1, <2>2 DEF Fine, Unsettled, Handled, Concerns
  <2>3. CASE hook.kind = "delete_dir" /\ d \in Below[hook.dir]
    BY <1>10, <2>3, RemovalFine
  <2>4. CASE hook.kind = "delete" /\ d # hook.dir
    <3>1. hook.file \in Files /\ hook.dir = DirOf[hook.file] BY <1>2, <2>4 DEF NoteFits
    <3>2. Named(hook.file) \subseteq OutsIn({hook.dir}) BY <3>1, NamedHere
    <3>3. hook.file \in In({hook.dir}) BY <3>1 DEF In
    <3>4. \A f \in In({d}) : OutOf[f] \notin Named(hook.file) /\ OutOf[f] \in Outs /\ f # hook.file
      BY <2>4, <3>1, <3>2, OutsApart, OutputAssumption DEF In
    <3>5. /\ UNCHANGED <<broken, flawed>>
          /\ \/ output' = Without(Named(hook.file)) /\ UNCHANGED entries
             \/ entries' = Unlisted({hook.file}) /\ UNCHANGED output
      BY <1>10, <2>4 DEF HookOutputs, HookEntries
    <3>6. \A f \in In({d}) : output'[OutOf[f]] = output[OutOf[f]] /\ entries'[f] = entries[f]
      BY <3>4, <3>5 DEF Without, Unlisted, In
    <3>7. Unsettled(d) => Unsettled(d)'
      <4>1. ~Handled(d) BY <2>4 DEF Handled, Concerns
      <4> QED BY <1>6, <2>1, <4>1 DEF Unsettled, Queued, Scope
    <3> QED BY <1>1, <1>2, <3>5, <3>6, <3>7, Calm
  <2>5. CASE hook.kind = "delete_dir" /\ d \notin Below[hook.dir]
    <3>1. /\ Disturbs(Below[hook.dir])
          /\ \/ output' = Without(OutsIn(Below[hook.dir])) /\ UNCHANGED entries
             \/ entries' = Unlisted(In(Below[hook.dir])) /\ UNCHANGED output
      BY <1>10, <2>5 DEF HookOutputs, HookEntries
    <3>2. \A f \in In({d}) : output'[OutOf[f]] = output[OutOf[f]] /\ entries'[f] = entries[f]
      BY <1>2, <2>5, <3>1, Elsewhere
    <3>3. Unsettled(d) => Unsettled(d)'
      <4>1. ~Handled(d) BY <2>5 DEF Handled, Concerns
      <4> QED BY <1>6, <2>1, <4>1 DEF Unsettled, Queued, Scope
    <3>4. (d \in broken => d \in broken') /\ (d \in flawed => d \in flawed')
      BY <3>1 DEF Disturbs
    <3> QED BY <1>1, <1>2, <3>2, <3>3, <3>4, Calm
  <2> QED BY <2>1, <2>2, <2>3, <2>4, <2>5
<1>11. CASE HookEnqueue
  <2>1. /\ UNCHANGED <<output, entries, broken, flawed, notes>> /\ hookPc = "enqueue"
    BY <1>11 DEF HookEnqueue
  <2>2. PICK h \in HookScans :
          pending' = Enqueued([mode |-> "current_level", dir |-> ReportedDir(hook),
                               overwrite |-> h.overwrite])
    BY <1>11 DEF HookEnqueue
  <2> DEFINE s == [mode |-> "current_level", dir |-> ReportedDir(hook), overwrite |-> h.overwrite]
  <2>3. ReportedDir(hook) \in Dirs BY <1>3, TreeAssumption DEF ReportedDir
  <2>4. h.overwrite \in BOOLEAN BY BoundAssumption
  <2>5. s \in ScanType /\ Scope(s) = {ReportedDir(hook)} BY <2>3, <2>4 DEF ScanType, Scope
  <2>6. pending' = Enqueued(s) BY <2>2
  <2> HIDE DEF s
  <2>7. Unsettled(d) => Unsettled(d)'
    <3>1. CASE Queued(d) BY <1>4, <2>5, <2>6, <3>1
    <3>2. CASE Handled(d)
      <4>1. hook.kind = "delete" /\ d = hook.dir BY <2>1, <3>2 DEF Handled, Concerns
      <4>2. d \in Scope(s) BY <2>5, <4>1 DEF ReportedDir
      <4> QED BY <1>4, <2>5, <2>6, <4>2
    <3>3. CASE ~Queued(d) /\ ~Handled(d) BY <1>6, <2>1, <3>3 DEF Unsettled
    <3> QED BY <3>1, <3>2, <3>3
  <2> QED BY <1>5, <2>1, <2>7
<1>12. CASE HookFails
  <2>1. UNCHANGED <<output, entries, notes, pending>> /\ GivenUp(hook)
    BY <1>12 DEF HookFails
  <2>2. d \notin Below[hook.dir] => (Unsettled(d) => Unsettled(d)')
    <3> SUFFICES ASSUME d \notin Below[hook.dir] PROVE Unsettled(d) => Unsettled(d)'
      OBVIOUS
    <3>1. ~Handled(d) BY <1>3 DEF Handled, Concerns
    <3> QED BY <1>6, <2>1, <3>1 DEF Unsettled, Queued, Scope
  <2> QED BY <1>2, <1>13, <2>1, <2>2
<1> QED BY <1>7, <1>8, <1>9, <1>10, <1>11, <1>12 DEF HookStep

LEMMA CrashFine ==
  ASSUME LeafIgnores, FInv, Crash, NEW d \in Dirs
  PROVE  Fine(d)'
<1> USE DEF treeVars, storeVars, hookVars, histVars
<1>1. /\ pc' = "idle" /\ UNCHANGED <<files, dirs, output, entries, pending, notes, trusted>>
      /\ hookPc' = "idle"
      /\ broken' = broken \cup (IF AtStep("idle") THEN {} ELSE Scope(scan))
                          \cup (IF hookPc = "idle" THEN {} ELSE Below[hook.dir])
  BY DEF Crash, Reset
<1>2. ~Scanned(d)' BY <1>1 DEF Scanned
<1>3. CASE Scanned(d)
  <2>1. d \in broken' BY <1>1, <1>3 DEF Scanned, AtStep
  <2> QED BY <1>2, <2>1 DEF Fine
<1>4. CASE Handled(d)
  <2>1. d \in Below[hook.dir]
    BY <1>4, Subtrees DEF Handled, Concerns
  <2>2. d \in broken' BY <1>1, <1>4, <2>1 DEF Handled
  <2> QED BY <1>2, <2>2 DEF Fine
<1>5. CASE Unsettled(d) /\ ~Handled(d)
  <2>1. Unsettled(d)' BY <1>1, <1>5 DEF Unsettled, Queued, Scope, Concerns
  <2> QED BY <2>1 DEF Fine
<1>6. CASE ~Scanned(d) /\ ~Unsettled(d)
  <2>1. d \in broken \/ Right(d) BY <1>6 DEF FInv, Reconciled, Fine
  <2>2. Wanted' = Wanted BY <1>1, AsIn
  <2>3. Right(d) => Right(d)' BY <1>1, <2>2 DEF Right, Honest, In
  <2> QED BY <1>1, <1>2, <2>1, <2>3 DEF Fine
<1> QED BY <1>3, <1>4, <1>5, <1>6

-----------------------------------------------------------------------------
(* The steps of the scan *)

LEMMA InScopeStep ==
  ASSUME LeafIgnores, FInv, [Next]_vars
  PROVE  InScope'
<1> USE DEF vars, treeVars, storeVars, scanVars, hookVars, histVars
<1>1. InScope /\ TypeOK BY DEF FInv, IInv, Typed
<1>2. CASE UNCHANGED scanVars
  BY <1>1, <1>2 DEF InScope, Scope, In
<1>3. CASE pc' = "idle" /\ expected' = {} BY <1>3 DEF InScope
<1>4. CASE \E s \in pending : BeginScan(s)
  <2>1. PICK s \in pending : BeginScan(s) BY <1>4
  <2>2. s \in ScanType /\ s.dir \in Dirs BY <1>1 DEF TypeOK, ScanType
  <2>3. s.dir \in Scope(s) BY <2>2, Subtrees DEF Scope
  <2>4. pc = "idle" /\ pc' = "walk" /\ todo' = {s.dir} /\ scan' = s
        /\ UNCHANGED <<found, plan, expected>>
    BY <2>1 DEF BeginScan, AtStep
  <2> QED BY <1>1, <2>3, <2>4 DEF InScope, TypeOK, Scope
<1>5. CASE \E d \in Dirs : ListDir(d)
  <2>1. PICK d \in Dirs : ListDir(d) BY <1>5
  <2>2. /\ pc = "walk" /\ d \in todo /\ UNCHANGED <<scan, plan, expected>>
        /\ d \in Scope(scan) /\ expected = {} /\ scan \in ScanType
        /\ found \cup plan \subseteq In(Scope(scan)) /\ todo \subseteq Scope(scan)
    BY <1>1, <2>1 DEF ListDir, AtStep, InScope, TypeOK
  <2>3. scan.dir \in Dirs /\ scan.mode \in {"recursive", "current_level"}
    BY <2>2 DEF ScanType
  <2>4. Scope(scan)' = Scope(scan) BY <2>2 DEF Scope
  <2>5. CASE ~Skipped(d)
    <3>1. /\ pc' = pc /\ found' = found \cup (files \cap In({d}))
          /\ todo' = (todo \ {d}) \cup (IF scan.mode = "recursive" THEN Subdirs(d) ELSE {})
      BY <2>1, <2>5 DEF ListDir
    <3>2. files \cap In({d}) \subseteq In(Scope(scan)) BY <2>2 DEF In
    <3>3. scan.mode = "recursive" => Subdirs(d) \subseteq Scope(scan)
      <4>1. \A x \in Dirs \ {Root} : Parent[x] = d => x \in Below[x] /\ Below[x] \subseteq Below[d]
        BY Subtrees, TreeAssumption
      <4>2. Subdirs(d) \subseteq Below[d] BY <1>1, <4>1 DEF Subdirs, TypeOK
      <4>3. scan.mode = "recursive" => Below[d] \subseteq Scope(scan)
        BY <2>2, <2>3, Subtrees DEF Scope
      <4> QED BY <4>2, <4>3
    <3> QED BY <2>2, <2>4, <3>1, <3>2, <3>3 DEF InScope, In
  <2>6. CASE Skipped(d)
    <3>1. /\ pc' = (IF scan.mode = "recursive" THEN pc ELSE "forget")
          /\ todo' = todo \ {d} /\ UNCHANGED found
      BY <2>1, <2>6 DEF ListDir
    <3>2. Below[d] = {d} BY <2>6 DEF Skipped, In, LeafIgnores
    <3>3. scan.mode # "recursive" => d = scan.dir BY <2>2 DEF Scope
    <3> QED BY <2>2, <2>3, <2>4, <3>1, <3>2, <3>3 DEF InScope, In
  <2> QED BY <2>5, <2>6
<1>6. CASE \E f \in Files : UpsertEntry(f)
  <2>1. PICK f \in Files : UpsertEntry(f) BY <1>6
  <2>2. f \in found /\ found' = found \ {f} /\ plan' = plan \cup {f}
        /\ UNCHANGED <<pc, scan, todo, expected>>
    BY <2>1 DEF UpsertEntry
  <2> QED BY <1>1, <2>2 DEF InScope, Scope, In
<1>7. CASE PurgeStale
  BY <1>1, <1>7 DEF PurgeStale, Walked, AtStep, InScope, Scope, In
<1>8. CASE LoadIndex
  <2>1. plan' \subseteq In(Scope(scan)) BY <1>8, JobsTyped DEF LoadIndex
  <2> QED BY <1>1, <1>8, <2>1 DEF LoadIndex, AtStep, InScope, Scope, In
<1>9. CASE TakeListing
  <2>1. plan' \subseteq plan BY <1>9, JobsTyped DEF TakeListing
  <2> QED BY <1>1, <1>9, <2>1 DEF TakeListing, Walked, AtStep, InScope, Scope, In
<1>10. CASE FillStrm \/ \E f \in Files : SkipExisting(f) \/ OpenStrm(f) \/ Download(f)
  <2>1. /\ pc = "write" /\ UNCHANGED <<pc, scan, todo, found>> /\ plan' \subseteq plan
    BY <1>10 DEF FillStrm, SkipExisting, OpenStrm, Download, AtStep, Planned
  <2> QED BY <1>1, <2>1 DEF InScope, Scope, In
<1>11. \/ UNCHANGED scanVars \/ (pc' = "idle" /\ expected' = {})
       \/ \E s \in pending : BeginScan(s)
       \/ \E d \in Dirs : ListDir(d)
       \/ \E f \in Files : UpsertEntry(f) \/ SkipExisting(f) \/ OpenStrm(f) \/ Download(f)
       \/ PurgeStale \/ LoadIndex \/ TakeListing \/ FillStrm
  <2>1. TreeStep => UNCHANGED scanVars BY DEF TreeStep, Upload, Delete, DeleteDir, MakeDir, Change
  <2>2. HookStep => UNCHANGED scanVars
    BY DEF HookStep, RequestScan, HookChange, HookDelete, HookOutputs, HookEntries, HookEnqueue,
         HookFails
  <2>3. Crash => pc' = "idle" /\ expected' = {} BY DEF Crash, Reset
  <2>4. Forget \/ FinishScan \/ ScanFails => pc' = "idle" /\ expected' = {}
    BY DEF Forget, FinishScan, ScanFails, Reset
  <2>5. (\E o \in Outs : RemoveStale(o)) => UNCHANGED scanVars BY DEF RemoveStale
  <2> QED BY <2>1, <2>2, <2>3, <2>4, <2>5 DEF Next, ScanStep
<1> QED BY <1>2, <1>3, <1>4, <1>5, <1>6, <1>7, <1>8, <1>9, <1>10, <1>11

\* What the steps of a scan leave alone, but for its first.
LEMMA ScanFrame ==
  ASSUME FInv, ScanStep, ~\E s \in pending : BeginScan(s), NEW d \in Dirs
  PROVE  /\ UNCHANGED <<files, dirs, notes, hookPc, hook, pending, scan>>
         /\ Unsettled(d)' = Unsettled(d) /\ Wanted' = Wanted
         /\ Skipped(d)' = Skipped(d) /\ Listable(d)' = Listable(d)
         /\ pc # "idle"
         /\ pc' # "idle" => Scanned(d)' = Scanned(d) /\ broken' = broken
         /\ Typed /\ OutputsFit /\ InScope /\ Fine(d) /\ files \subseteq Files
<1> USE DEF treeVars, storeVars, scanVars, hookVars, histVars
<1>1. UNCHANGED <<files, dirs, notes, hookPc, hook, pending, scan>> /\ pc # "idle"
  BY DEF ScanStep, ListDir, UpsertEntry, SkipExisting, OpenStrm, Download, Walked, Planned, AtStep,
         PurgeStale, LoadIndex, TakeListing, Forget, FillStrm, RemoveStale, FinishScan, ScanFails
<1>2. pc' # "idle" => broken' = broken
  BY DEF ScanStep, ListDir, UpsertEntry, SkipExisting, OpenStrm, Download, Reset,
         PurgeStale, LoadIndex, TakeListing, Forget, FillStrm, RemoveStale, FinishScan, ScanFails
<1>3. Typed /\ OutputsFit /\ InScope /\ Fine(d) /\ files \subseteq Files
  BY InFacts DEF FInv, IInv, Reconciled, Typed, TypeOK
<1>4. Unsettled(d)' = Unsettled(d)
  BY <1>1 DEF Unsettled, Handled, Queued, Concerns, Scope
<1>5. Wanted' = Wanted /\ Skipped(d)' = Skipped(d) /\ Listable(d)' = Listable(d)
  BY <1>1, AsIn
<1>6. pc' # "idle" => Scanned(d)' = Scanned(d) BY <1>1 DEF Scanned, Scope
<1> QED BY <1>1, <1>2, <1>3, <1>4, <1>5, <1>6

\* A scan that begins has its whole scope to list.
LEMMA BeginFine ==
  ASSUME LeafIgnores, FInv, Typed', NEW s \in pending, BeginScan(s), NEW d \in Dirs
  PROVE  Fine(d)'
<1> USE DEF treeVars, storeVars, hookVars, histVars
<1>1. /\ UNCHANGED <<files, dirs, notes, hookPc, hook, output, trusted, broken, found, plan>>
      /\ pc = "idle" /\ pc' = "walk" /\ todo' = {s.dir} /\ scan' = s /\ pending' = pending \ {s}
      /\ entries' = [f \in Files |-> IF entries[f] = "none" THEN "none" ELSE "stale"]
  BY DEF BeginScan, AtStep
<1>2. /\ Typed /\ OutputsFit /\ Fine(d) /\ files' \subseteq Files /\ s \in ScanType
      /\ found = {} /\ plan = {}
      /\ entries \in [Files -> {"none", "stale", "fresh"}]
  BY <1>1, InFacts DEF FInv, IInv, Reconciled, Typed, TypeOK
<1>3. \A f \in In({d}) : f \in Files BY DEF In
<1>4. CASE d \in Scope(s)
  <2>1. Scanned(d)' BY <1>1, <1>4 DEF Scanned, Scope
  <2>2. DirToList(d)' BY <1>1, <1>4 DEF DirToList, Scope
  <2>3. \A f \in In({d}) : f \notin found' /\ f \notin plan' /\ entries'[f] # "fresh"
    BY <1>1, <1>2, <1>3
  <2>4. Listed(d)' BY <2>2, <2>3 DEF Listed, In
  <2>5. Progress(d)' BY <1>1, <2>4 DEF Progress
  <2> QED BY <2>1, <2>5 DEF Fine
<1>5. CASE d \notin Scope(s)
  <2>1. ~Scanned(d) /\ ~Scanned(d)' BY <1>1, <1>5 DEF Scanned, Scope
  <2>2. Unsettled(d) => Unsettled(d)'
    BY <1>1, <1>5 DEF Unsettled, Queued, Handled, Concerns, Scope
  <2>3. \A f \in In({d}) : entries[f] # "none" => entries'[f] # "none" BY <1>1, <1>3
  <2>4. Right(d) => Right(d)' BY <1>1, <1>2, <2>3, RightKept
  <2> QED BY <1>1, <1>2, <2>1, <2>2, <2>4 DEF Fine
<1> QED BY <1>4, <1>5

\* A scan that comes to nothing leaves its scope broken.
LEMMA FailFine ==
  ASSUME LeafIgnores, FInv, ScanFails, NEW d \in Dirs
  PROVE  Fine(d)'
<1> USE DEF treeVars, storeVars, hookVars, histVars
<1>1. ~\E s \in pending : BeginScan(s) BY DEF ScanFails, BeginScan, AtStep
<1>2. /\ Unsettled(d)' = Unsettled(d) /\ Wanted' = Wanted /\ Fine(d) /\ pc # "idle"
  BY <1>1, ScanFrame DEF ScanStep
<1>3. /\ pc' = "idle" /\ broken' = broken \cup Scope(scan) /\ UNCHANGED <<output, entries, trusted>>
  BY DEF ScanFails, Reset
<1>4. ~Scanned(d)' BY <1>3 DEF Scanned
<1>5. Right(d) => Right(d)' BY <1>2, <1>3 DEF Right, Honest, In
<1> QED BY <1>2, <1>3, <1>4, <1>5 DEF Fine, Scanned

LEMMA ListFine ==
  ASSUME LeafIgnores, FInv, NEW e \in Dirs, ListDir(e), NEW d \in Dirs
  PROVE  Fine(d)'
<1> USE DEF treeVars, hookVars, histVars
<1>1. /\ pc = "walk" /\ e \in todo \cap dirs /\ pc' # "idle"
      /\ UNCHANGED <<files, dirs, entries, scan, plan, trusted, flawed, broken>>
  BY DEF ListDir, AtStep
<1>2. ~\E s \in pending : BeginScan(s) BY <1>1 DEF BeginScan, AtStep
<1>3. /\ Unsettled(d)' = Unsettled(d) /\ Wanted' = Wanted
      /\ Skipped(d)' = Skipped(d) /\ Listable(d)' = Listable(d)
      /\ Scanned(d)' = Scanned(d)
      /\ Typed /\ OutputsFit /\ InScope /\ Fine(d) /\ files \subseteq Files
  BY <1>1, <1>2, ScanFrame DEF ScanStep
<1>4. e \in Scope(scan) BY <1>1, <1>3 DEF InScope
<1>5. /\ Listable(d) \subseteq In({d}) /\ In({d})' = In({d})
      /\ \A f \in In({d}) : f \in Files /\ DirOf[f] = d
  BY <1>3 DEF Listable, In
<1>6. Skipped(e) => Below[e] = {e} BY DEF Skipped, In, LeafIgnores
<1>7. CASE ~Scanned(d)
  <2>1. d # e BY <1>1, <1>4, <1>7 DEF Scanned
  <2>2. \A f \in In({d}) : output'[OutOf[f]] = output[OutOf[f]]
    <3>1. CASE ~Skipped(e) BY <3>1 DEF ListDir
    <3>2. CASE Skipped(e)
      <4>1. output' = Without(OutsIn({e})) BY <1>6, <3>2 DEF ListDir
      <4> QED BY <1>3, <2>1, <4>1, Elsewhere
    <3> QED BY <3>1, <3>2
  <2>3. Right(d) => Right(d)' BY <1>1, <1>3, <2>2, RightKept
  <2> QED BY <1>1, <1>3, <1>7, <2>3 DEF Fine
<1>8. CASE Scanned(d)
  <2> SUFFICES ASSUME Listed(d) PROVE Progress(d)'
    BY <1>1, <1>3, <1>8 DEF Fine, Progress
  <2>1. CASE ~Skipped(e)
    <3>1. /\ found' = found \cup (files \cap In({e})) /\ pc' = "walk"
          /\ todo' = (todo \ {e}) \cup (IF scan.mode = "recursive" THEN Subdirs(e) ELSE {})
      BY <1>1, <2>1 DEF ListDir
    <3>2. \A f \in In({d}) : f \in found' \/ f \in plan' \/ entries'[f] = "fresh" => f \in Listable(d)
      BY <1>1, <1>5, <2>1, <3>1 DEF Listed, Listable, In
    <3>3. DirToList(d)' \/ \A f \in Listable(d) : f \in found' \/ Indexed(f)'
      <4>1. CASE d = e BY <1>3, <3>1, <4>1 DEF Listable, In
      <4>2. CASE ~DirToList(d) BY <1>1, <3>1, <4>2 DEF Listed, Indexed
      <4>3. CASE d # e /\ DirToList(d) /\ scan.mode # "recursive"
        BY <1>1, <3>1, <4>3 DEF DirToList
      <4>4. CASE d # e /\ DirToList(d) /\ scan.mode = "recursive" /\ Listable(d) # {}
        <5>1. PICK x \in todo : d \in Below[x] BY <4>4 DEF DirToList
        <5>2. CASE x # e BY <1>1, <3>1, <4>4, <5>1, <5>2 DEF DirToList
        <5>3. CASE x = e
          <6>1. PICK y \in Dirs \ {Root} : Parent[y] = e /\ d \in Below[y]
            BY <4>4, <5>1, <5>3, Subtrees
          <6>2. d \in dirs BY <1>3, <4>4 DEF Listable, Typed, TypeOK, In
          <6>3. y \in dirs BY <6>1, <6>2 DEF FInv, IInv, Connected
          <6>4. y \in todo' BY <3>1, <4>4, <6>1, <6>3 DEF Subdirs
          <6> QED BY <1>1, <4>4, <6>1, <6>4 DEF DirToList
        <5> QED BY <5>2, <5>3
      <4> QED BY <4>1, <4>2, <4>3, <4>4
    <3> QED BY <1>3, <1>5, <3>1, <3>2, <3>3 DEF Progress, Listed
  <2>2. CASE Skipped(e) /\ scan.mode = "recursive"
    <3>1. found' = found /\ pc' = "walk" /\ todo' = todo \ {e}
      BY <1>1, <2>2 DEF ListDir
    <3>2. DirToList(d)' \/ \A f \in Listable(d) : f \in found' \/ Indexed(f)'
      <4>1. CASE d = e BY <2>2, <4>1 DEF Listable
      <4>2. CASE ~DirToList(d) BY <1>1, <3>1, <4>2 DEF Listed, Indexed
      <4>3. CASE d # e /\ DirToList(d)
        <5>1. PICK x \in todo : d \in Below[x] BY <2>2, <4>3 DEF DirToList
        <5>2. x # e BY <1>6, <2>2, <4>3, <5>1
        <5> QED BY <1>1, <2>2, <3>1, <5>1, <5>2 DEF DirToList
      <4> QED BY <4>1, <4>2, <4>3
    <3> QED BY <1>1, <1>3, <1>5, <3>1, <3>2 DEF Progress, Listed
  <2>3. CASE Skipped(e) /\ scan.mode # "recursive"
    <3>1. pc' = "forget" /\ output' = Without(OutsIn({e}))
      BY <1>6, <2>3 DEF ListDir
    <3>2. d = e BY <1>4, <1>8, <2>3 DEF Scope, Scanned
    <3>3. \A f \in In({d}) : OutOf[f] \in OutsIn({e}) /\ OutOf[f] \in Outs
      BY <1>5, <3>2, OutputAssumption DEF OutsIn
    <3>4. \A f \in In({d}) : output'[OutOf[f]] = "none" BY <3>1, <3>3 DEF Without
    <3> QED BY <1>3, <1>5, <2>3, <3>1, <3>2, <3>4 DEF Progress, Forgotten
  <2> QED BY <2>1, <2>2, <2>3
<1> QED BY <1>7, <1>8

LEMMA UpsertFine ==
  ASSUME LeafIgnores, FInv, NEW g \in Files, UpsertEntry(g), NEW d \in Dirs
  PROVE  Fine(d)'
<1> USE DEF treeVars, hookVars, histVars
<1>1. /\ pc = "walk" /\ pc' = "walk" /\ g \in found /\ found' = found \ {g} /\ plan' = plan \cup {g}
      /\ entries' = [entries EXCEPT ![g] = "fresh"]
      /\ UNCHANGED <<files, dirs, output, scan, todo, trusted, flawed, broken>>
  BY DEF UpsertEntry, AtStep
<1>2. ~\E s \in pending : BeginScan(s) BY <1>1 DEF BeginScan, AtStep
<1>3. /\ Unsettled(d)' = Unsettled(d) /\ Wanted' = Wanted
      /\ Skipped(d)' = Skipped(d) /\ Listable(d)' = Listable(d)
      /\ Scanned(d)' = Scanned(d)
      /\ Typed /\ OutputsFit /\ InScope /\ Fine(d) /\ files \subseteq Files
  BY <1>1, <1>2, ScanFrame DEF ScanStep
<1>4. /\ Listable(d) \subseteq In({d}) /\ In({d})' = In({d}) /\ In({d}) \subseteq Files
      /\ entries \in [Files -> {"none", "stale", "fresh"}]
  BY <1>3 DEF Listable, In, Typed, TypeOK
<1>5. \A f \in Files : entries'[f] = IF f = g THEN "fresh" ELSE entries[f]
  BY <1>1, <1>4
<1>6. CASE ~Scanned(d)
  <2>1. Right(d) => Right(d)' BY <1>1, <1>3, <1>4, <1>5, RightKept
  <2> QED BY <1>1, <1>3, <1>6, <2>1 DEF Fine
<1>7. CASE Scanned(d)
  <2> SUFFICES ASSUME Listed(d) PROVE Listed(d)'
    BY <1>1, <1>3, <1>7 DEF Fine, Progress
  <2>1. \A f \in In({d}) : f \in found' \/ f \in plan' \/ entries'[f] = "fresh" => f \in Listable(d)
    BY <1>1, <1>4, <1>5 DEF Listed
  <2>2. \A f \in Listable(d) : f \in found \/ Indexed(f) => f \in found' \/ Indexed(f)'
    BY <1>1, <1>4, <1>5 DEF Indexed
  <2>3. DirToList(d)' = DirToList(d) BY <1>1 DEF DirToList
  <2> QED BY <1>3, <1>4, <2>1, <2>2, <2>3 DEF Listed
<1> QED BY <1>6, <1>7

\* The index that is loaded, and the plan made of it, are what the directory wants.
LEMMA IndexFine ==
  ASSUME LeafIgnores, FInv, PurgeStale \/ LoadIndex \/ TakeListing, NEW d \in Dirs
  PROVE  Fine(d)'
<1> USE DEF treeVars, storeVars, hookVars, histVars
<1>1. /\ pc # "idle" /\ pc' # "idle"
      /\ UNCHANGED <<files, dirs, output, scan, trusted, flawed, broken, writing, expected>>
  BY DEF PurgeStale, LoadIndex, TakeListing, Walked, AtStep
<1>2. ~\E s \in pending : BeginScan(s) BY <1>1 DEF BeginScan, AtStep
<1>3. /\ Unsettled(d)' = Unsettled(d) /\ Wanted' = Wanted
      /\ Skipped(d)' = Skipped(d) /\ Listable(d)' = Listable(d)
      /\ Scanned(d)' = Scanned(d)
      /\ Typed /\ OutputsFit /\ InScope /\ Fine(d) /\ files \subseteq Files
  BY <1>1, <1>2, ScanFrame DEF ScanStep
<1>4. /\ Listable(d) \subseteq In({d}) /\ In({d})' = In({d}) /\ In({d}) \subseteq Files
      /\ \A f \in In({d}) : DirOf[f] = d
      /\ entries \in [Files -> {"none", "stale", "fresh"}]
  BY <1>3 DEF Listable, In, Typed, TypeOK
<1>5. CASE ~Scanned(d)
  <2>1. \A f \in In({d}) : entries'[f] = entries[f]
    <3>1. \A f \in In({d}) : f \notin In(Scope(scan)) BY <1>1, <1>4, <1>5 DEF Scanned, In
    <3> QED BY <1>4, <3>1 DEF PurgeStale, LoadIndex, TakeListing, Unlisted
  <2>2. Right(d) => Right(d)' BY <1>1, <1>3, <2>1, RightKept
  <2> QED BY <1>1, <1>3, <1>5, <2>2 DEF Fine
<1>6. CASE Scanned(d)
  <2> SUFFICES ASSUME Progress(d) PROVE Progress(d)'
    BY <1>1, <1>3, <1>6 DEF Fine
  <2>1. \A f \in In({d}) : f \in In(Scope(scan)) BY <1>4, <1>6 DEF Scanned, In
  <2>2. expected = {} /\ writing = NoFile
    BY <1>3 DEF InScope, Typed, PurgeStale, LoadIndex, TakeListing, Walked, AtStep
  <2>3. \A f \in In({d}) : f # NoFile
    <3>1. NoFile \notin Files BY OutputAssumption
    <3>2. In({d}) \subseteq Files BY DEF In
    <3> QED BY <3>1, <3>2
  <2>4. \A f \in In({d}) : f \in Wanted <=> f \in Jobs(Listable(d)) BY <1>3, WantedHere
  <2>5. CASE PurgeStale \/ TakeListing
    <3>1. /\ \A f \in In({d}) : f \in plan \/ entries[f] = "fresh" => f \in Listable(d)
          /\ \A f \in Listable(d) : Indexed(f)
      BY <2>5 DEF Progress, PurgeStale, TakeListing, Walked, AtStep, Listed, DirToList
    <3>2. CASE PurgeStale
      <4>1. /\ pc' = "load"
            /\ entries' = Unlisted({f \in In(Scope(scan)) : entries[f] # "fresh"})
        BY <3>2 DEF PurgeStale
      <4>2. \A f \in In({d}) : entries'[f] # "none" <=> entries[f] = "fresh"
        BY <1>4, <2>1, <4>1 DEF Unlisted
      <4> QED BY <1>3, <1>4, <3>1, <4>1, <4>2 DEF Progress, Loaded, Indexed
    <3>3. CASE TakeListing
      <4>1. pc' = "write" /\ plan' = Jobs(plan) /\ UNCHANGED entries BY <3>3 DEF TakeListing
      <4>2. \A f \in In({d}) : f \in Jobs(plan) <=> f \in Jobs(Listable(d))
        <5>1. \A f \in In({d}) : f \in plan <=> f \in Listable(d) BY <3>1 DEF Indexed
        <5>2. \A m \in Media : \A f \in SidecarsOf[m] : DirOf[m] = DirOf[f] /\ m \in Files
          BY OutputAssumption
        <5>3. \A m \in Files : DirOf[m] = d => m \in In({d}) BY DEF In
        <5> QED BY <1>4, <5>1, <5>2, <5>3 DEF Jobs
      <4>3. \A f \in In({d}) : f \in Wanted => f \in Listable(d) BY <1>3, WantedHere
      <4>4. \A f \in In({d}) : f \in Wanted => entries[f] # "none"
        BY <3>1, <4>3 DEF Indexed
      <4> QED BY <1>1, <1>3, <1>4, <2>2, <2>3, <2>4, <4>1, <4>2, <4>4 DEF Progress, Written
    <3> QED BY <2>5, <3>2, <3>3
  <2>6. CASE LoadIndex
    <3>1. /\ Loaded(d) /\ pc' = "write" /\ UNCHANGED entries
          /\ plan' = Jobs({f \in In(Scope(scan)) : entries[f] # "none"})
      BY <2>6 DEF Progress, LoadIndex, AtStep
    <3>2. \A f \in In({d}) : f \in plan' <=> f \in Jobs(Listable(d))
      <4> DEFINE held == {f \in In(Scope(scan)) : entries[f] # "none"}
      <4>1. \A f \in In({d}) : f \in held <=> f \in Listable(d) BY <2>1, <3>1 DEF Loaded
      <4>2. \A m \in Media : \A f \in SidecarsOf[m] : DirOf[m] = DirOf[f] /\ m \in Files
        BY OutputAssumption
      <4>3. \A m \in Files : DirOf[m] = d => m \in In({d}) BY DEF In
      <4>4. plan' = Jobs(held) BY <3>1
      <4> HIDE DEF held
      <4> QED BY <1>4, <4>1, <4>2, <4>3, <4>4 DEF Jobs
    <3>3. \A f \in In({d}) : f \in Wanted => entries[f] # "none"
      BY <1>3, <3>1, WantedHere DEF Loaded
    <3> QED BY <1>1, <1>3, <1>4, <2>2, <2>3, <2>4, <3>1, <3>2, <3>3 DEF Progress, Written
  <2> QED BY <2>5, <2>6
<1> QED BY <1>5, <1>6

\* What leaves the plan is expected, and shows what is wanted or was trusted.
LEMMA WriteFine ==
  ASSUME LeafIgnores, FInv, NEW d \in Dirs,
         FillStrm \/ \E g \in Files : SkipExisting(g) \/ OpenStrm(g) \/ Download(g)
  PROVE  Fine(d)'
<1> USE DEF treeVars, storeVars, hookVars, histVars
<1>1. /\ pc = "write" /\ pc' = "write"
      /\ UNCHANGED <<files, dirs, entries, scan, broken>>
      /\ d \in flawed => d \in flawed'
  BY DEF FillStrm, SkipExisting, OpenStrm, Download, Planned, AtStep
<1>2. ~\E s \in pending : BeginScan(s) BY <1>1 DEF BeginScan, AtStep
<1>3. /\ Unsettled(d)' = Unsettled(d) /\ Wanted' = Wanted
      /\ Scanned(d)' = Scanned(d)
      /\ Typed /\ OutputsFit /\ InScope /\ Fine(d) /\ files \subseteq Files
  BY <1>1, <1>2, ScanFrame DEF ScanStep
<1>4. /\ In({d})' = In({d})
      /\ \A f \in In({d}) : f \in Files /\ DirOf[f] = d /\ OutOf[f] \in Outs /\ f # NoFile /\ f # "none"
      /\ output \in [Outs -> Files \cup {"none", "empty"}]
      /\ plan \subseteq In(Scope(scan)) /\ "none" \notin Files
  BY <1>1, <1>3, OutputAssumption DEF In, Typed, TypeOK, InScope
\* The one file the step is about, and what it makes of its output.
<1>5. PICK g \in plan :
        LET o == OutOf[g]
        IN  /\ \A x \in Outs : x # o => output'[x] = output[x]
            /\ \A x \in trusted : x # o => x \in trusted'
            /\ \/ SkipExisting(g) \/ OpenStrm(g) \/ Download(g)
               \/ FillStrm /\ g = writing
  <2>1. CASE FillStrm
    <3>1. writing \in plan BY <1>3, <2>1 DEF FillStrm, Typed, TypeOK
    <3>2. /\ output' = [output EXCEPT ![OutOf[writing]] = writing] \/ output' = output
          /\ trusted' = trusted \ {OutOf[writing]}
      BY <2>1 DEF FillStrm
    <3> QED BY <1>4, <2>1, <3>1, <3>2
  <2>2. CASE \E g \in Files : SkipExisting(g) \/ OpenStrm(g) \/ Download(g)
    <3>1. PICK g \in Files : SkipExisting(g) \/ OpenStrm(g) \/ Download(g) BY <2>2
    <3>2. g \in plan BY <3>1 DEF SkipExisting, OpenStrm, Download, Planned
    <3>3. \A x \in Outs : x # OutOf[g] => output'[x] = output[x]
      BY <1>4, <3>1 DEF SkipExisting, OpenStrm, Download
    <3>4. trusted \subseteq trusted' BY <3>1 DEF SkipExisting, OpenStrm, Download
    <3> QED BY <3>1, <3>2, <3>3, <3>4
  <2> QED BY <2>1, <2>2
<1>6. g \in Files /\ DirOf[g] \in Scope(scan) /\ OutOf[g] \in Outs
  BY <1>4, <1>5, OutputAssumption DEF In
<1>7. \A f \in In({d}) : OutOf[f] = OutOf[g] => DirOf[g] = d
  BY <1>4, <1>6, OutputAssumption
<1>8. CASE ~Scanned(d)
  <2>1. \A f \in In({d}) : OutOf[f] # OutOf[g] BY <1>1, <1>6, <1>7, <1>8 DEF Scanned
  <2>2. \A f \in In({d}) : /\ output'[OutOf[f]] = output[OutOf[f]]
                           /\ OutOf[f] \in trusted => OutOf[f] \in trusted'
    BY <1>4, <1>5, <2>1
  <2>3. Right(d) => Right(d)' BY <1>1, <1>3, <2>2, RightKept
  <2> QED BY <1>1, <1>3, <1>8, <2>3 DEF Fine
<1>9. CASE Scanned(d)
  <2> SUFFICES ASSUME Written(d), d \notin flawed' PROVE Written(d)'
    BY <1>1, <1>3, <1>9 DEF Fine, Progress
  <2> SUFFICES ASSUME NEW f \in In({d})
               PROVE  (/\ f \in plan => f \in Wanted
                       /\ f \in Wanted => /\ entries[f] # "none"
                                          /\ f \in plan \/ (OutOf[f] \in expected /\ output[OutOf[f]] # "none")
                       /\ f = writing => output[OutOf[f]] = "empty"
                       /\ OutOf[f] \in expected
                            => Honest(f) \/ (writing # NoFile /\ OutOf[writing] = OutOf[f]))'
    BY <1>4 DEF Written
  <2>1. /\ f \in plan => f \in Wanted
        /\ f \in Wanted => /\ entries[f] # "none"
                           /\ f \in plan \/ (OutOf[f] \in expected /\ output[OutOf[f]] # "none")
        /\ f = writing => output[OutOf[f]] = "empty"
        /\ OutOf[f] \in expected
             => Honest(f) \/ (writing # NoFile /\ OutOf[writing] = OutOf[f])
    BY DEF Written
  <2>2. f \in Files /\ OutOf[f] \in Outs /\ f # NoFile /\ f # "none" BY <1>4
  <2>3. DirOf[g] = d => g \in Wanted BY <1>5, <1>6 DEF Written, In
  <2>4. CASE SkipExisting(g)
    <3>1. /\ plan' = plan \ {g} /\ expected' = expected \cup {OutOf[g]}
          /\ output[OutOf[g]] # "none" /\ UNCHANGED <<output, writing>> /\ writing = NoFile
          /\ trusted' = IF output[OutOf[g]] = g THEN trusted ELSE trusted \cup {OutOf[g]}
      BY <2>4 DEF SkipExisting, Planned
    <3>2. OutOf[f] \in expected' => Honest(f)'
      BY <1>3, <1>7, <2>1, <2>3, <3>1 DEF Honest
    <3> QED BY <1>1, <1>3, <2>1, <2>2, <3>1, <3>2
  <2>5. CASE OpenStrm(g)
    <3>1. /\ UNCHANGED <<plan, expected, trusted>> /\ writing = NoFile /\ writing' = g
          /\ output' = [output EXCEPT ![OutOf[g]] = "empty"]
      BY <2>5 DEF OpenStrm, Planned, histVars
    <3>2. output'[OutOf[f]] = IF OutOf[f] = OutOf[g] THEN "empty" ELSE output[OutOf[f]]
      BY <1>4, <2>2, <3>1
    <3>3. g # NoFile BY <1>6, OutputAssumption
    <3>4. OutOf[f] # OutOf[g] => (Honest(f) => Honest(f)')
      BY <1>3, <3>1, <3>2 DEF Honest
    <3> QED BY <1>1, <1>3, <2>1, <2>2, <3>1, <3>2, <3>3, <3>4
  <2>6. CASE Download(g)
    <3>1. /\ plan' = plan \ {g} /\ expected' = expected \cup {OutOf[g]}
          /\ UNCHANGED <<writing, trusted>> /\ writing = NoFile
      BY <2>6 DEF Download, Planned
    <3>2. CASE DirOf[g] = d
      <4>1. output' = [output EXCEPT ![OutOf[g]] = g] BY <2>6, <3>2 DEF Download
      <4>2. output'[OutOf[f]] = IF OutOf[f] = OutOf[g] THEN g ELSE output[OutOf[f]]
        BY <1>4, <2>2, <4>1
      <4>3. OutOf[f] \in expected' => Honest(f)'
        BY <1>3, <2>1, <2>3, <3>1, <3>2, <4>2 DEF Honest
      <4>4. g # "none" BY <1>4, <1>6
      <4> QED BY <1>1, <1>3, <2>1, <2>2, <3>1, <4>2, <4>3, <4>4
    <3>3. CASE DirOf[g] # d
      <4>1. output'[OutOf[f]] = output[OutOf[f]] /\ OutOf[f] # OutOf[g] /\ f # g
        BY <1>5, <1>7, <2>2, <3>3
      <4>2. Honest(f)' = Honest(f) BY <1>3, <3>1, <4>1 DEF Honest
      <4> QED BY <1>1, <1>3, <2>1, <2>2, <3>1, <4>1, <4>2
    <3> QED BY <3>2, <3>3
  <2>7. CASE FillStrm /\ g = writing
    <3>1. /\ plan' = plan \ {g} /\ expected' = expected \cup {OutOf[g]}
          /\ writing' = NoFile /\ trusted' = trusted \ {OutOf[g]}
          /\ output' = IF output[OutOf[g]] = "empty" THEN [output EXCEPT ![OutOf[g]] = g] ELSE output
      BY <2>7 DEF FillStrm
    <3>2. CASE DirOf[g] = d
      <4>1. output[OutOf[g]] = "empty" BY <1>6, <2>7, <3>2 DEF Written, In
      <4>2. output'[OutOf[f]] = IF OutOf[f] = OutOf[g] THEN g ELSE output[OutOf[f]]
        BY <1>4, <2>2, <3>1, <4>1
      <4>3. OutOf[f] \in expected' => Honest(f)'
        BY <1>3, <2>1, <2>3, <2>7, <3>1, <3>2, <4>2 DEF Honest
      <4>4. g # "none" BY <1>4, <1>6
      <4> QED BY <1>1, <1>3, <2>1, <2>2, <3>1, <4>2, <4>3, <4>4
    <3>3. CASE DirOf[g] # d
      <4>1. output'[OutOf[f]] = output[OutOf[f]] /\ OutOf[f] # OutOf[g] /\ f # g
        BY <1>5, <1>7, <2>2, <3>3
      <4>2. Honest(f)' = Honest(f) BY <1>3, <3>1, <4>1 DEF Honest
      <4> QED BY <1>1, <1>3, <2>1, <2>2, <2>7, <3>1, <4>1, <4>2
    <3> QED BY <3>2, <3>3
  <2> QED BY <1>5, <2>4, <2>5, <2>6, <2>7
<1> QED BY <1>8, <1>9

LEMMA RemoveFine ==
  ASSUME LeafIgnores, FInv, NEW o \in Outs, RemoveStale(o), NEW d \in Dirs
  PROVE  Fine(d)'
<1> USE DEF treeVars, hookVars, histVars, scanVars
<1>1. /\ pc = "write" /\ pc' = "write" /\ plan = {}
      /\ UNCHANGED <<files, dirs, entries, scan, plan, writing, expected, broken, flawed, trusted>>
      /\ o \in OutsIn(Scope(scan)) \ expected /\ output' = Without({o})
  BY DEF RemoveStale, AtStep, StaleOuts
<1>2. ~\E s \in pending : BeginScan(s) BY <1>1 DEF BeginScan, AtStep
<1>3. /\ Unsettled(d)' = Unsettled(d) /\ Wanted' = Wanted
      /\ Scanned(d)' = Scanned(d)
      /\ Typed /\ OutputsFit /\ Fine(d) /\ files \subseteq Files
  BY <1>1, <1>2, ScanFrame DEF ScanStep
<1>4. /\ In({d})' = In({d})
      /\ \A f \in In({d}) : f \in Files /\ DirOf[f] = d /\ OutOf[f] \in Outs /\ f # NoFile
      /\ writing = NoFile
  BY <1>1, <1>3, OutputAssumption DEF In, Typed, TypeOK
<1>5. \A f \in In({d}) : output'[OutOf[f]] = IF OutOf[f] = o THEN "none" ELSE output[OutOf[f]]
  BY <1>1, <1>4 DEF Without
<1>6. CASE ~Scanned(d)
  <2>1. \A f \in In({d}) : OutOf[f] # o BY <1>1, <1>4, <1>6, OutsApart DEF Scanned
  <2>2. Right(d) => Right(d)' BY <1>1, <1>3, <1>5, <2>1, RightKept
  <2> QED BY <1>1, <1>3, <1>6, <2>2 DEF Fine
<1>7. CASE Scanned(d)
  <2> SUFFICES ASSUME Written(d) PROVE Written(d)'
    BY <1>1, <1>3, <1>7 DEF Fine, Progress
  <2>1. \A f \in In({d}) : OutOf[f] \in expected => output'[OutOf[f]] = output[OutOf[f]] /\ Honest(f)
    BY <1>1, <1>4, <1>5 DEF Written
  <2>2. \A f \in In({d}) : OutOf[f] \in expected => Honest(f)'
    BY <1>1, <1>3, <2>1 DEF Honest
  <2> QED BY <1>1, <1>3, <1>4, <2>1, <2>2 DEF Written
<1> QED BY <1>6, <1>7

\* A scan that is over leaves the directories of its scope right, and no rows of a
\* directory that has a .ignore.
LEMMA EndFine ==
  ASSUME LeafIgnores, FInv, FinishScan \/ Forget, NEW d \in Dirs
  PROVE  Fine(d)'
<1> USE DEF treeVars, storeVars, hookVars, histVars
<1>1. /\ pc # "idle" /\ pc' = "idle" /\ broken' = (broken \ Scope(scan)) \cup flawed
      /\ UNCHANGED <<files, dirs, output, scan, trusted>>
  BY DEF FinishScan, Forget, Reset, AtStep
<1>2. ~\E s \in pending : BeginScan(s) BY <1>1 DEF BeginScan, AtStep
<1>3. /\ Unsettled(d)' = Unsettled(d) /\ Wanted' = Wanted
      /\ Typed /\ OutputsFit /\ InScope /\ Fine(d) /\ files \subseteq Files
  BY <1>1, <1>2, ScanFrame DEF ScanStep
<1>4. /\ In({d})' = In({d})
      /\ \A f \in In({d}) : f \in Files /\ DirOf[f] = d /\ OutOf[f] \in Outs /\ f # NoFile
      /\ entries \in [Files -> {"none", "stale", "fresh"}]
  BY <1>3, OutputAssumption DEF In, Typed, TypeOK
<1>5. ~Scanned(d)' BY <1>1 DEF Scanned
<1>6. CASE ~Scanned(d)
  <2>1. d \in broken => d \in broken' BY <1>1, <1>6 DEF Scanned
  <2>2. \A f \in In({d}) : entries'[f] = entries[f]
    <3>1. CASE FinishScan BY <3>1 DEF FinishScan
    <3>2. CASE Forget
      <4>1. entries' = Unlisted(In({scan.dir})) /\ d # scan.dir
        BY <1>1, <1>3, <1>6, <3>2 DEF Forget, AtStep, InScope, Scope, Scanned
      <4> QED BY <1>3, <4>1, Elsewhere
    <3> QED BY <3>1, <3>2
  <2>3. Right(d) => Right(d)' BY <1>1, <1>3, <2>2, RightKept
  <2> QED BY <1>3, <1>5, <1>6, <2>1, <2>3 DEF Fine
<1>7. CASE Scanned(d)
  <2>1. d \in flawed => d \in broken' BY <1>1
  <2> SUFFICES ASSUME Progress(d) PROVE Right(d)'
    BY <1>3, <1>5, <1>7, <2>1 DEF Fine
  <2>2. CASE FinishScan
    <3>1. /\ Written(d) /\ plan = {} /\ StaleOuts = {} /\ UNCHANGED entries
      BY <2>2 DEF FinishScan, AtStep, Progress
    <3>2. writing = NoFile BY <1>3, <3>1 DEF Typed, TypeOK
    <3>3. \A f \in In({d}) : f \in Wanted => output[OutOf[f]] # "none" /\ entries[f] # "none"
      BY <3>1 DEF Written
    <3>4. \A f \in In({d}) : Honest(f)
      <4> SUFFICES ASSUME NEW f \in In({d}) PROVE Honest(f) OBVIOUS
      <4>1. CASE OutOf[f] \in expected BY <3>1, <3>2, <4>1 DEF Written
      <4>2. CASE OutOf[f] \notin expected
        <5>1. OutOf[f] \in OutsIn(Scope(scan)) BY <1>4, <1>7 DEF OutsIn, In, Scanned
        <5>2. output[OutOf[f]] = "none" BY <3>1, <4>2, <5>1 DEF StaleOuts
        <5> QED BY <5>2 DEF Honest
      <4> QED BY <4>1, <4>2
    <3>5. \A f : Honest(f)' = Honest(f) BY <1>1, <1>3 DEF Honest
    <3> QED BY <1>1, <1>3, <1>4, <3>1, <3>3, <3>4, <3>5 DEF Right
  <2>3. CASE Forget
    <3>1. Forgotten(d) BY <2>3 DEF Forget, AtStep, Progress
    <3>2. \A f \in In({d}) : f \notin Wanted
      BY <1>3, <3>1, WantedHere DEF Forgotten, Listable
    <3>3. \A f \in In({d}) : Honest(f)' BY <1>1, <3>1 DEF Forgotten, Honest
    <3> QED BY <1>3, <1>4, <3>2, <3>3 DEF Right
  <2> QED BY <2>2, <2>3
<1> QED BY <1>6, <1>7

-----------------------------------------------------------------------------
(* At rest *)

LEMMA FInductive == LeafIgnores /\ FInv /\ [Next]_vars => FInv'
<1> SUFFICES ASSUME LeafIgnores, FInv, [Next]_vars PROVE FInv' OBVIOUS
<1>1. IInv' BY Inductive DEF FInv
<1>2. InScope' BY InScopeStep
<1>3. Typed' BY <1>1 DEF IInv
<1>4. ASSUME NEW d \in Dirs PROVE Fine(d)'
  <2>1. CASE TreeStep BY <1>3, <2>1, TreeFine
  <2>2. CASE HookStep BY <1>3, <2>2, HookFine
  <2>3. CASE Crash BY <2>3, CrashFine
  <2>4. CASE ScanStep
    BY <1>3, <2>4, BeginFine, FailFine, ListFine, UpsertFine, IndexFine, WriteFine, RemoveFine, EndFine
    DEF ScanStep
  <2>5. CASE UNCHANGED vars
    <3>1. UNCHANGED <<scanVars, trusted, files, output, entries, broken, flawed, notes, hookPc, hook,
                      pending>>
      BY <2>5 DEF vars, treeVars, storeVars, hookVars, histVars
    <3>2. Unsettled(d)' = Unsettled(d)
      BY <3>1 DEF Unsettled, Handled, Queued, Concerns, Scope
    <3>3. files' \subseteq Files BY <1>3, InFacts DEF Typed, TypeOK
    <3> QED BY <3>1, <3>2, <3>3, Calm
  <2> QED BY <2>1, <2>2, <2>3, <2>4, <2>5 DEF Next
<1> QED BY <1>1, <1>2, <1>4 DEF FInv, Reconciled

LEMMA FInitially == Init => FInv
<1> SUFFICES ASSUME Init PROVE FInv OBVIOUS
<1>1. InScope BY DEF Init, InScope
<1>2. \A d \in Dirs : Fine(d) BY DEF Init, Fine, Scanned
<1> QED BY <1>1, <1>2, Initially DEF FInv, Reconciled

LEMMA FInvariance == LeafIgnores => (Spec => []FInv)
<1> SUFFICES ASSUME LeafIgnores PROVE Spec => []FInv OBVIOUS
<1>1. Init => FInv BY FInitially
<1>2. FInv /\ [Next]_vars => FInv' BY FInductive
<1> QED BY <1>1, <1>2, PTL DEF Spec

LEMMA RightAtRest ==
  ASSUME FInv, AtRest, NEW d \in Dirs
  PROVE  d \in broken \/ Right(d)
BY DEF FInv, Reconciled, Fine, AtRest, Unsettled, Handled, Queued, Scanned

\* When every report is handled and every scan has run, the outputs show what the tree
\* holds wherever the last scan was a success (src/internal/app/app.go:2450), in a mount
\* in which no .ignore lies above another directory.
THEOREM OutputsMirrorTree == LeafIgnores => (Spec => []Mirror)
<1> SUFFICES ASSUME LeafIgnores PROVE Spec => []Mirror OBVIOUS
<1>1. FInv => Mirror
  <2> SUFFICES ASSUME FInv, AtRest, NEW f \in Files, DirOf[f] \notin broken
               PROVE  /\ f \in Wanted => output[OutOf[f]] # "none"
                      /\ output[OutOf[f]] \notin {"none"} \cup Wanted => OutOf[f] \in trusted
    BY DEF Mirror
  <2>1. DirOf[f] \in Dirs /\ f \in In({DirOf[f]}) BY TreeAssumption DEF In
  <2>2. Right(DirOf[f]) BY <2>1, RightAtRest
  <2> QED BY <2>1, <2>2 DEF Right, Honest
<1> QED BY <1>1, FInvariance, PTL

\* At rest, the player finds every wanted file in the index, in the same mounts
\* (src/internal/storage/entry_repository.go:114).
THEOREM WantedIndexed == LeafIgnores => (Spec => []IndexComplete)
<1> SUFFICES ASSUME LeafIgnores PROVE Spec => []IndexComplete OBVIOUS
<1>1. FInv => IndexComplete
  <2> SUFFICES ASSUME FInv, AtRest, NEW f \in Wanted
               PROVE  DirOf[f] \in broken \/ entries[f] # "none"
    BY DEF IndexComplete
  <2>1. f \in Files BY InFacts, WantedFacts DEF FInv, IInv, Typed, TypeOK
  <2>2. DirOf[f] \in Dirs /\ f \in In({DirOf[f]}) BY <2>1, TreeAssumption DEF In
  <2>3. DirOf[f] \in broken \/ Right(DirOf[f]) BY <2>2, RightAtRest
  <2> QED BY <2>2, <2>3 DEF Right
<1> QED BY <1>1, FInvariance, PTL

=============================================================================
