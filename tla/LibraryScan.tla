----------------------------- MODULE LibraryScan -----------------------------
(***************************************************************************)
(* The scans of one mount and what they maintain: the index of the         *)
(* provider's files (table entries) and the output tree, which has a .strm *)
(* for each media file and a copy of each sidecar file.                    *)
(*                                                                         *)
(* Scans of one provider run one after the other.  Meanwhile the tree they *)
(* walk changes, and each change is reported by a webhook, some time       *)
(* later: a report of a deletion removes outputs and index rows at once,   *)
(* from a goroutine of its own, and every report queues a scan.  Enqueuing *)
(* is one step here; the module ScanQueue has what lies between.           *)
(*                                                                         *)
(* Stale rows are told from fresh ones by comparing last_seen_at with the  *)
(* second the running scan began.  Only this comparison matters, so a row  *)
(* is "fresh" when its last_seen_at is that second; no two scans begin in  *)
(* the same one.                                                           *)
(***************************************************************************)
EXTENDS Integers, FiniteSets

CONSTANTS
  Dirs, Root,       \* directories of the mount, and its source path
  Below,            \* Below[d]: d and every directory under it
  Parent,           \* the directory a directory is in
  Files, DirOf,     \* files that may exist, and the directory each is in
  Media,            \* the media files
  Artwork,          \* files copied for their directory's sake
  SidecarsOf,       \* files copied for the sake of a media file
  CompanionsOf,     \* those of them that are named after it
  IgnoreFiles,      \* files named .ignore
  Outs, OutOf,      \* output files, and the one a file is written to
  NoFile,           \* no file: no output is being written
  Manual,           \* scans requested by hand, each once at any time
  HookScans,        \* modes and overwrite options webhooks ask for
  Volatile,         \* directories that may be removed
  Faults,           \* whether calls and statements may fail
  MaxChanges,       \* bound on the changes of the tree
  MaxCrashes        \* bound on crashes

ScanType == [mode : {"recursive", "current_level"}, dir : Dirs, overwrite : BOOLEAN]

ASSUME TreeAssumption ==
  /\ Root \in Dirs /\ Below \in [Dirs -> SUBSET Dirs]
  /\ Below[Root] = Dirs
  /\ Parent \in [Dirs -> Dirs] /\ DirOf \in [Files -> Dirs]
  /\ \A d \in Dirs :
       /\ Below[d] = {d} \cup UNION {Below[x] : x \in {y \in Dirs \ {Root} : Parent[y] = d}}
       /\ \A e \in Below[d] : Below[e] \subseteq Below[d]
       /\ \A e \in Below[d] \ {d} : Parent[e] \in Below[d]

ASSUME OutputAssumption ==
  /\ Media \subseteq Files /\ Artwork \subseteq Files /\ IgnoreFiles \subseteq Files
  /\ SidecarsOf \in [Media -> SUBSET Files]
  /\ CompanionsOf \in [Media -> SUBSET Files]
  /\ \A m \in Media : CompanionsOf[m] \subseteq SidecarsOf[m]
  /\ OutOf \in [Files -> Outs]
  /\ \A f, g \in Files : OutOf[f] = OutOf[g] => DirOf[f] = DirOf[g]
  /\ \A m \in Media : \A s \in SidecarsOf[m] : DirOf[s] = DirOf[m]
  /\ {"none", "empty"} \cap Files = {} /\ NoFile \notin Files

ASSUME BoundAssumption ==
  /\ Manual \subseteq {s \in ScanType : s.mode = "recursive"}
  /\ HookScans \subseteq [mode : {"recursive", "current_level"}, overwrite : BOOLEAN]
  /\ Volatile \subseteq Dirs \ {Root}
  /\ Faults \in BOOLEAN
  /\ MaxChanges \in Nat /\ MaxCrashes \in Nat

VARIABLES
  \* the provider
  dirs, files,
  \* the storage
  entries,      \* the row of each file: "none", "stale" or "fresh"
  output,       \* what each output holds: a file's data, "empty" or "none"
  unasked,      \* requests by hand still to come
  pending,      \* queued scans
  \* the running scan
  pc, scan, todo, found, plan, writing, expected,
  \* the webhooks
  notes, hookPc, hook,
  \* the environment
  changes, crashes,
  \* history, read by no action
  broken,       \* directories the last scan or report of which came to nothing
  flawed,       \* directories the running scan will leave so
  trusted,      \* outputs a scan found and left as they were
  steady        \* files wanted, for the same reason, since the running scan began

treeVars == <<dirs, files, changes>>
storeVars == <<entries, output, unasked, pending>>
scanVars == <<pc, scan, todo, found, plan, writing, expected>>
hookVars == <<notes, hookPc, hook>>
histVars == <<broken, flawed, trusted, steady>>
vars == <<treeVars, storeVars, scanVars, hookVars, crashes, histVars>>

-----------------------------------------------------------------------------
(* Files, outputs and scopes *)

In(D) == {f \in Files : DirOf[f] \in D}

OutsIn(D) == {OutOf[f] : f \in In(D)}

\* EvaluateDirectory
Skipped(d) == files \cap In({d}) \cap IgnoreFiles # {}

\* classifyOutputSyncJob, classifyDirectoryOutputSyncJob: of the files S, the
\* media and what is copied along with them.
Jobs(S) ==
  {f \in S : \/ f \in Media \cup Artwork
             \/ \E m \in S \cap Media : f \in SidecarsOf[m]}

\* What the outputs should show of the tree as it is.
Wanted == Jobs({f \in files : \A d \in Dirs : DirOf[f] \in Below[d] => ~Skipped(d)})

Scope(s) == IF s.mode = "recursive" THEN Below[s.dir] ELSE {s.dir}

\* Output trees and index rows as a removal leaves them.
Without(O) == [o \in Outs |-> IF o \in O THEN "none" ELSE output[o]]

Unlisted(S) == [f \in Files |-> IF f \in S THEN "none" ELSE entries[f]]

\* enqueueScan: a request below a queued recursive scan is absorbed, its overwrite
\* option with it; a row with the same key takes the new options; and a recursive
\* request replaces the rows below it.
SameKey(p, s) == p.mode = s.mode /\ p.dir = s.dir

Covers(p, s) == p.mode = "recursive" /\ s.dir \in Below[p.dir]

Enqueued(s) ==
  IF /\ \E p \in pending : Covers(p, s)
     /\ ~\E p \in pending : Covers(p, s) /\ SameKey(p, s)
  THEN pending
  ELSE {p \in pending : ~SameKey(p, s) /\ ~Covers(s, p)} \cup {s}

-----------------------------------------------------------------------------
(* The tree changes, and every change will be reported *)

Report(n) == notes' = notes \cup {n}

Change ==
  /\ changes < MaxChanges /\ changes' = changes + 1
  /\ steady' = Jobs(steady \cap Wanted')
  /\ UNCHANGED <<storeVars, scanVars, hookPc, hook, crashes, broken, flawed, trusted>>

Upload(f) ==
  /\ f \notin files /\ DirOf[f] \in dirs
  /\ files' = files \cup {f} /\ UNCHANGED dirs
  /\ Report([kind |-> "change", dir |-> DirOf[f], file |-> NoFile])
  /\ Change

Delete(f) ==
  /\ f \in files
  /\ files' = files \ {f} /\ UNCHANGED dirs
  /\ Report([kind |-> "delete", dir |-> DirOf[f], file |-> f])
  /\ Change

DeleteDir(d) ==
  /\ d \in dirs \cap Volatile
  /\ dirs' = dirs \ Below[d] /\ files' = files \ In(Below[d])
  /\ Report([kind |-> "delete_dir", dir |-> d, file |-> NoFile])
  /\ Change

MakeDir(d) ==
  /\ d \in Volatile \ dirs /\ Parent[d] \in dirs
  /\ dirs' = dirs \cup {d} /\ UNCHANGED files
  /\ Report([kind |-> "change", dir |-> d, file |-> NoFile])
  /\ Change

-----------------------------------------------------------------------------
(* scanLibrary, scanMount and scanLibraryCurrentLevel *)

AtStep(p) == pc = p

Reset(p) ==
  /\ pc' = p
  /\ todo' = {} /\ found' = {} /\ plan' = {} /\ writing' = NoFile /\ expected' = {}

\* The worker takes up a queued scan; seenAt is read when it begins.
BeginScan(s) ==
  /\ AtStep("idle") /\ s \in pending
  /\ pending' = pending \ {s} /\ scan' = s
  /\ pc' = "walk" /\ todo' = {s.dir}
  /\ entries' = [f \in Files |-> IF entries[f] = "none" THEN "none" ELSE "stale"]
  /\ steady' = Wanted \ In(UNION {Below[n.dir] : n \in
                                  {x \in notes \cup {hook} : x.kind # "change"}})
  /\ UNCHANGED <<treeVars, output, unasked, found, plan, writing, expected, hookVars,
                 crashes, broken, flawed, trusted>>

\* Any call fails or is cancelled, or a directory is gone: the scan ends with an
\* error, and nobody asks for it again.
ScanFails ==
  /\ pc # "idle"
  /\ Faults \/ (AtStep("walk") /\ ~(todo \subseteq dirs))
  /\ Reset("idle")
  /\ broken' = broken \cup Scope(scan)
  /\ flawed' = {} /\ steady' = {}
  /\ UNCHANGED <<treeVars, storeVars, scan, hookVars, crashes, trusted>>

\* Variant: a walk by identifier that goes on with any directory there is.
SubdirsAnywhere(d) == dirs \ {d}

Subdirs(d) == {x \in dirs \ {Root} : Parent[x] = d}

\* One listing.  A directory with a .ignore loses its outputs and is not entered.
ListDir(d) ==
  /\ AtStep("walk") /\ d \in todo \cap dirs
  /\ \/ /\ ~Skipped(d)
        /\ found' = found \cup (files \cap In({d}))
        /\ todo' = (todo \ {d}) \cup (IF scan.mode = "recursive"
                      THEN Subdirs(d) ELSE {})
        /\ UNCHANGED <<output, pc>>
     \/ /\ Skipped(d)
        /\ output' = Without(OutsIn(Below[d]))
        /\ todo' = todo \ {d}
        /\ pc' = IF scan.mode = "recursive" THEN pc ELSE "forget"
        /\ UNCHANGED found
  /\ UNCHANGED <<treeVars, entries, unasked, pending, scan, plan, writing, expected,
                 hookVars, crashes, histVars>>

\* Variant: the row is inserted, but an existing one keeps its last_seen_at.
InsertEntry(f) ==
  /\ AtStep("walk") /\ f \in found
  /\ entries' = [entries EXCEPT ![f] = IF @ = "none" THEN "fresh" ELSE @]
  /\ found' = found \ {f} /\ plan' = plan \cup {f}
  /\ UNCHANGED <<treeVars, output, unasked, pending, pc, scan, todo, writing, expected,
                 hookVars, crashes, histVars>>

\* Upsert of a listed file, maybe long after its directory was listed.
UpsertEntry(f) ==
  /\ AtStep("walk") /\ f \in found
  /\ entries' = [entries EXCEPT ![f] = "fresh"]
  /\ found' = found \ {f} /\ plan' = plan \cup {f}
  /\ UNCHANGED <<treeVars, output, unasked, pending, pc, scan, todo, writing, expected,
                 hookVars, crashes, histVars>>

Walked(mode) == AtStep("walk") /\ todo = {} /\ found = {} /\ scan.mode = mode

\* DeleteStaleUnderPrefix
PurgeStale ==
  /\ Walked("recursive") /\ pc' = "load"
  /\ entries' = Unlisted({f \in In(Scope(scan)) : entries[f] # "fresh"})
  /\ UNCHANGED <<treeVars, output, unasked, pending, scan, todo, found, plan, writing,
                 expected, hookVars, crashes, histVars>>

\* A recursive scan writes what the index holds ...
LoadIndex ==
  /\ AtStep("load") /\ pc' = "write"
  /\ plan' = Jobs({f \in In(Scope(scan)) : entries[f] # "none"})
  /\ UNCHANGED <<treeVars, storeVars, scan, todo, found, writing, expected,
                 hookVars, crashes, histVars>>

\* ... and a scan of one directory what it has listed.
TakeListing ==
  /\ Walked("current_level") /\ pc' = "write"
  /\ plan' = Jobs(plan)
  /\ UNCHANGED <<treeVars, storeVars, scan, todo, found, writing, expected,
                 hookVars, crashes, histVars>>

\* DeleteUnderPrefix, for a scan of one directory that has a .ignore.
Forget ==
  /\ AtStep("forget") /\ Reset("idle")
  /\ entries' = Unlisted(In(Below[scan.dir]))
  /\ broken' = (broken \ Scope(scan)) \cup flawed
  /\ flawed' = {} /\ steady' = {}
  /\ UNCHANGED <<treeVars, output, unasked, pending, scan, hookVars, crashes, trusted>>

\* The outputs are written one by one, in any order.
Planned(f) == AtStep("write") /\ writing = NoFile /\ f \in plan

\* Variant: an output that exists already is not counted as expected.
SkipUnexpected(f) ==
  /\ Planned(f)
  /\ ~scan.overwrite /\ output[OutOf[f]] # "none"
  /\ plan' = plan \ {f}
  /\ trusted' = IF output[OutOf[f]] = f THEN trusted ELSE trusted \cup {OutOf[f]}
  /\ UNCHANGED <<treeVars, storeVars, pc, scan, todo, found, writing, expected,
                 hookVars, crashes, broken, flawed, steady>>

\* Without the overwrite option an existing output is left as it is.
SkipExisting(f) ==
  /\ Planned(f)
  /\ ~scan.overwrite /\ output[OutOf[f]] # "none"
  /\ plan' = plan \ {f} /\ expected' = expected \cup {OutOf[f]}
  /\ trusted' = IF output[OutOf[f]] = f THEN trusted ELSE trusted \cup {OutOf[f]}
  /\ UNCHANGED <<treeVars, storeVars, pc, scan, todo, found, writing,
                 hookVars, crashes, broken, flawed, steady>>

\* writeSTRM creates or truncates the file ...
OpenStrm(f) ==
  /\ Planned(f) /\ f \in Media
  /\ scan.overwrite \/ output[OutOf[f]] = "none"
  /\ output' = [output EXCEPT ![OutOf[f]] = "empty"] /\ writing' = f
  /\ UNCHANGED <<treeVars, entries, unasked, pending, pc, scan, todo, found, plan, expected,
                 hookVars, crashes, histVars>>

\* ... and writes the link.  A file that was removed since is written all the
\* same, to no avail.
FillStrm ==
  LET o == OutOf[writing]
  IN  /\ AtStep("write") /\ writing # NoFile
      /\ output' = IF output[o] = "empty" THEN [output EXCEPT ![o] = writing] ELSE output
      /\ plan' = plan \ {writing} /\ expected' = expected \cup {o}
      /\ writing' = NoFile /\ trusted' = trusted \ {o}
      /\ UNCHANGED <<treeVars, entries, unasked, pending, pc, scan, todo, found,
                     hookVars, crashes, broken, flawed, steady>>

\* downloadProviderFile: the copy is renamed into place when it is complete.  If
\* it fails the scan goes on, and what was there is still expected.
Download(f) ==
  /\ Planned(f) /\ f \notin Media
  /\ scan.overwrite \/ output[OutOf[f]] = "none"
  /\ plan' = plan \ {f} /\ expected' = expected \cup {OutOf[f]}
  /\ \/ /\ f \in files
        /\ output' = [output EXCEPT ![OutOf[f]] = f]
        /\ UNCHANGED flawed
     \/ /\ Faults \/ f \notin files
        /\ flawed' = flawed \cup {DirOf[f]}
        /\ UNCHANGED output
  /\ UNCHANGED <<treeVars, entries, unasked, pending, pc, scan, todo, found, writing,
                 hookVars, crashes, broken, trusted, steady>>

StaleOuts == {o \in OutsIn(Scope(scan)) \ expected : output[o] # "none"}

\* cleanupStaleOutputs and cleanupStaleOutputsCurrentDir, one file at a time.
RemoveStale(o) ==
  /\ AtStep("write") /\ plan = {} /\ o \in StaleOuts
  /\ output' = Without({o})
  /\ UNCHANGED <<treeVars, entries, unasked, pending, scanVars, hookVars, crashes, histVars>>

FinishScan ==
  /\ AtStep("write") /\ plan = {} /\ StaleOuts = {}
  /\ Reset("idle")
  /\ broken' = (broken \ Scope(scan)) \cup flawed
  /\ flawed' = {} /\ steady' = {}
  /\ UNCHANGED <<treeVars, storeVars, scan, hookVars, crashes, trusted>>

-----------------------------------------------------------------------------
(* handleFilesystemWebhook *)

Idle == [kind |-> "change", dir |-> Root, file |-> NoFile]

\* enqueueManualLibraryScan
RequestScan(s) ==
  /\ s \in unasked /\ unasked' = unasked \ {s}
  /\ pending' = Enqueued(s)
  /\ UNCHANGED <<treeVars, entries, output, scanVars, hookVars, crashes, histVars>>

\* The directory that is scanned for a report.
ReportedDir(n) == IF n.kind = "delete_dir" THEN Parent[n.dir] ELSE n.dir

\* A handler has ended with an error: nobody asks again for what it was to do.
GivenUp(n) ==
  /\ broken' = broken \cup Below[n.dir]
  /\ flawed' = IF AtStep("idle") THEN flawed ELSE flawed \cup Below[n.dir]

\* A report of anything but a deletion queues a scan, if no statement fails.
HookChange(n) ==
  /\ n \in notes /\ n.kind = "change" /\ notes' = notes \ {n}
  /\ \/ /\ \E h \in HookScans :
            pending' = Enqueued([mode |-> h.mode, dir |-> ReportedDir(n),
                                 overwrite |-> h.overwrite])
        /\ UNCHANGED <<broken, flawed>>
     \/ Faults /\ GivenUp(n) /\ UNCHANGED pending
  /\ UNCHANGED <<treeVars, entries, output, unasked, scanVars, hookPc, hook, crashes,
                 trusted, steady>>

HookDelete(n) ==
  /\ hookPc = "idle" /\ n \in notes /\ n.kind # "change"
  /\ notes' = notes \ {n} /\ hook' = n /\ hookPc' = "outputs"
  /\ UNCHANGED <<treeVars, storeVars, scanVars, crashes, histVars>>

\* The outputs named after the deleted file: for a medium, its companions too,
\* but no copy the whole directory shares (index.bif, mediainfo.json).
Named(f) ==
  {OutOf[f]} \cup (IF f \in Media THEN {OutOf[s] : s \in CompanionsOf[f]} ELSE {})

\* Reports of a directory come too late when it exists again, and too early when
\* a scan that has listed it is still running: no scan of it will follow.
Disturbs(D) ==
  /\ broken' = broken \cup (D \cap dirs)
  /\ flawed' = IF AtStep("idle") THEN flawed ELSE flawed \cup (D \cap Scope(scan))

HookOutputs ==
  /\ hookPc = "outputs" /\ hookPc' = "entries"
  /\ \/ /\ hook.kind = "delete"
        /\ output' = Without(Named(hook.file))
        /\ UNCHANGED <<broken, flawed>>
     \/ /\ hook.kind = "delete_dir"
        /\ output' = Without(OutsIn(Below[hook.dir]))
        /\ Disturbs(Below[hook.dir])
  /\ UNCHANGED <<treeVars, entries, unasked, pending, scanVars, notes, hook, crashes,
                 trusted, steady>>

HookEntries ==
  /\ hookPc = "entries" /\ hookPc' = "enqueue"
  /\ \/ /\ hook.kind = "delete"
        /\ entries' = Unlisted({hook.file})
        /\ UNCHANGED <<broken, flawed>>
     \/ /\ hook.kind = "delete_dir"
        /\ entries' = Unlisted(In(Below[hook.dir]))
        /\ Disturbs(Below[hook.dir])
  /\ UNCHANGED <<treeVars, output, unasked, pending, scanVars, notes, hook, crashes,
                 trusted, steady>>

\* Variant: no scan reconciles the directory after a deletion.
HookLeaves ==
  /\ hookPc = "enqueue" /\ hookPc' = "idle" /\ hook' = Idle
  /\ UNCHANGED <<treeVars, storeVars, scanVars, notes, crashes, histVars>>

\* The parent of what was deleted is scanned, whatever mode was asked for.
HookEnqueue ==
  /\ hookPc = "enqueue" /\ hookPc' = "idle" /\ hook' = Idle
  /\ \E h \in HookScans :
       pending' = Enqueued([mode |-> "current_level", dir |-> ReportedDir(hook),
                                     overwrite |-> h.overwrite])
  /\ UNCHANGED <<treeVars, entries, output, unasked, scanVars, notes, crashes, histVars>>

\* A failing statement, or a client that hangs up, ends the handler.
HookFails ==
  /\ Faults /\ hookPc # "idle" /\ hookPc' = "idle" /\ hook' = Idle
  /\ GivenUp(hook)
  /\ UNCHANGED <<treeVars, storeVars, scanVars, notes, crashes, trusted, steady>>

\* The process dies and is started again: the queue's rows are still there, a scan
\* under way is marked failed, and a handler is forgotten.
Crash ==
  /\ crashes < MaxCrashes /\ crashes' = crashes + 1
  /\ Reset("idle") /\ hookPc' = "idle" /\ hook' = Idle
  /\ broken' = broken \cup (IF AtStep("idle") THEN {} ELSE Scope(scan))
                      \cup (IF hookPc = "idle" THEN {} ELSE Below[hook.dir])
  /\ flawed' = {} /\ steady' = {}
  /\ UNCHANGED <<treeVars, storeVars, scan, notes, trusted>>

-----------------------------------------------------------------------------
\* A library that was just created, over a tree of whatever files.
Init ==
  /\ dirs = Dirs /\ files \in SUBSET Files /\ changes = 0
  /\ entries = [f \in Files |-> "none"] /\ output = [o \in Outs |-> "none"]
  /\ unasked = Manual /\ pending = {}
  /\ pc = "idle" /\ scan = [mode |-> "recursive", dir |-> Root, overwrite |-> FALSE]
  /\ todo = {} /\ found = {} /\ plan = {} /\ writing = NoFile /\ expected = {}
  /\ notes = {} /\ hookPc = "idle" /\ hook = Idle /\ crashes = 0
  /\ broken = Dirs /\ flawed = {} /\ trusted = {} /\ steady = {}

TreeStep ==
  \/ \E f \in Files : Upload(f) \/ Delete(f)
  \/ \E d \in Dirs : DeleteDir(d) \/ MakeDir(d)

ScanStep ==
  \/ \E s \in pending : BeginScan(s)
  \/ \E d \in Dirs : ListDir(d)
  \/ \E f \in Files : UpsertEntry(f) \/ SkipExisting(f) \/ OpenStrm(f) \/ Download(f)
  \/ PurgeStale \/ LoadIndex \/ TakeListing \/ Forget \/ FillStrm
  \/ \E o \in Outs : RemoveStale(o)
  \/ FinishScan \/ ScanFails

HookStep ==
  \/ \E s \in unasked : RequestScan(s)
  \/ \E n \in notes : HookChange(n) \/ HookDelete(n)
  \/ HookOutputs \/ HookEntries \/ HookEnqueue \/ HookFails

Next == TreeStep \/ ScanStep \/ HookStep \/ Crash

Spec == Init /\ [][Next]_vars

-----------------------------------------------------------------------------
(* Properties *)

\* The variables have their types, and the sets of a scan are empty without one.
TypeOK ==
  /\ dirs \subseteq Dirs /\ files \subseteq In(dirs)
  /\ entries \in [Files -> {"none", "stale", "fresh"}]
  /\ output \in [Outs -> Files \cup {"none", "empty"}]
  /\ unasked \subseteq Manual /\ pending \subseteq ScanType /\ scan \in ScanType
  /\ pc \in {"idle", "walk", "load", "forget", "write"}
  /\ todo \subseteq Below[scan.dir] /\ found \subseteq Files /\ plan \subseteq Files
  /\ writing \in plan \cup {NoFile} /\ expected \subseteq Outs
  /\ pc = "idle" => plan = {} /\ todo = {} /\ found = {} /\ flawed = {}
  /\ hookPc \in {"idle", "outputs", "entries", "enqueue"}
  /\ broken \subseteq Dirs /\ flawed \subseteq Dirs
  /\ trusted \subseteq Outs /\ steady \subseteq Files

AtRest == pc = "idle" /\ pending = {} /\ notes = {} /\ hookPc = "idle"

\* When every report is handled and every scan has run, the outputs show exactly
\* what the tree holds, in all directories whose last scan was a success: however
\* scans, reports and changes overlapped, nothing is missing and nothing is left.
Mirror ==
  AtRest =>
    \A f \in Files : DirOf[f] \notin broken =>
      LET o == OutOf[f]
      IN  /\ f \in Wanted => output[o] # "none"
          /\ output[o] \notin {"none"} \cup Wanted => o \in trusted

\* A scan never removes the output of a file that has been there, with what makes
\* it wanted, since the scan began and before; only a report of a deletion may.
KeepsLive ==
  [][\A o \in Outs : output[o] \in steady /\ output'[o] = "none"
                     => hookPc = "outputs" /\ hookPc' = "entries"]_vars

\* At rest every wanted file has its row, from which the player's request takes
\* the provider's id of the file: late reports do not undo what a scan indexed.
IndexComplete ==
  AtRest => \A f \in Wanted : DirOf[f] \in broken \/ entries[f] # "none"

\* A deleted output does not come back from a listing that is older than the
\* deletion (docs/scan-problem.md:158).
DeletedStaysDeleted == AtRest => \A o \in Outs : output[o] \in Files => output[o] \in files

=============================================================================
