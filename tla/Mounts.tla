------------------------------- MODULE Mounts -------------------------------
(***************************************************************************)
(* The administration of providers, libraries and mounts, beside scans     *)
(* that fill the mounts' output trees.                                     *)
(*                                                                         *)
(* Every mount writes below its target, a path of the output directory; no *)
(* target lies within another.  Changes of mounts hold mountMutationMu,    *)
(* scans hold it shared; deleting a provider does not take it, and deletes *)
(* the provider's mounts with it (ON DELETE CASCADE).  Outputs are         *)
(* abstracted to one file of each mount in each target it has had.         *)
(***************************************************************************)
EXTENDS Naturals, Sequences, SequencesExt, FiniteSets

CONSTANTS
  Provider, Library, Mount,
  Target,      \* target paths, as sequences of names; <<>> is the output directory
  Request,     \* administrators' requests under way at the same time
  NoRequest,
  MaxAdds,     \* bound on mounts created or edited
  MaxTroubles  \* bound on failed clean-ups and restarts

ASSUME MountAssumption ==
  /\ NoRequest \notin Request /\ Mount \cap Library = {}
  /\ Target # {} /\ \A t \in Target : t \in Seq({t[i] : i \in DOMAIN t})
  /\ {MaxAdds, MaxTroubles} \subseteq Nat

VARIABLES
  providers, libraries,
  mounts,    \* library_mounts
  files,     \* outputs: whose they are and below which target
  writer,    \* the request that holds mountMutationMu
  request,   \* what each request does
  scan,      \* the row each scan under way goes by
  excused,   \* history: outputs that were left when their mount went, for a
             \* reason an administrator can tell
  adds, troubles

vars == <<providers, libraries, mounts, files, writer, request, scan, excused, adds, troubles>>

Rows == [library : Library, provider : Provider, target : Target]
Gone == [gone |-> TRUE]
Idle == [pc |-> "idle"]
Has(m) == mounts[m] # Gone
Present == {m \in Mount : Has(m)}

Outputs(m, row) == [by |-> m, in |-> row.target]

\* pathWithinRoot: candidate is root, or below it.
Within(candidate, root) == IsPrefix(root, candidate)
OneWay(t, u) == Within(t, u)
SameTarget(t, u) == t = u
Overlap(t, u) == Within(t, u) \/ Within(u, t)

AtRest == \A r \in Request : request[r].pc = "idle"
Scanning == {m \in Mount : scan[m] # Gone}

\* Every variable keeps to its type, no scan runs beside a change of mounts, and
\* the targets of two mounts never overlap, although each is compared with the
\* others only before it is written (app.go:1325-1349, :4203-4231).
TypeOK ==
  /\ providers \subseteq Provider /\ libraries \subseteq Library
  /\ \A m \in Mount : mounts[m] \in Rows \cup {Gone} /\ scan[m] \in Rows \cup {Gone}
  /\ files \cup excused \subseteq [by : Mount, in : Target]
  /\ writer \in Request \cup {NoRequest} /\ (writer # NoRequest => Scanning = {})
  /\ \A m \in Present : mounts[m].library \in libraries /\ mounts[m].provider \in providers
  /\ \A m, n \in Present : m # n => ~Overlap(mounts[m].target, mounts[n].target)

-----------------------------------------------------------------------------
(* Helpers *)

Goes(r, next) == request' = [request EXCEPT ![r] = next]
Ends(r) == Goes(r, Idle)
EndsLocked(r) == Ends(r) /\ writer' = NoRequest

Trouble == troubles < MaxTroubles /\ troubles' = troubles + 1

LockAtOnce(r) == writer = NoRequest /\ writer' = r

\* mountMutationMu.Lock: no other change, and no scan, is under way.
Lock(r) == writer = NoRequest /\ Scanning = {} /\ writer' = r

\* The outputs below a target are removed, except those that are expected.
Sweep(target, expected) == {o \in files : ~Within(o.in, target)} \cup expected

Init ==
  /\ providers = Provider /\ libraries = Library
  /\ mounts = [m \in Mount |-> Gone] /\ files = {}
  /\ writer = NoRequest /\ request = [r \in Request |-> Idle]
  /\ scan = [m \in Mount |-> Gone]
  /\ excused = {} /\ adds = 0 /\ troubles = 0

-----------------------------------------------------------------------------
(* Creating a library, creating and editing a mount *)

\* The administrator chooses the id; it may be one that was deleted.
CreateLibrary(l) ==
  /\ l \notin libraries /\ libraries' = libraries \cup {l}
  /\ UNCHANGED <<providers, mounts, files, writer, request, scan, excused, adds, troubles>>

AddMount(r, m, row) ==
  /\ request[r].pc = "idle" /\ Lock(r) /\ adds < MaxAdds /\ adds' = adds + 1
  /\ Goes(r, [pc |-> "checking", new |-> TRUE, mount |-> m, row |-> row])
  /\ UNCHANGED <<providers, libraries, mounts, files, scan, excused, troubles>>

EditMount(r, m, row) ==
  /\ request[r].pc = "idle" /\ Lock(r) /\ adds < MaxAdds /\ adds' = adds + 1
  /\ Goes(r, [pc |-> "checking", new |-> FALSE, mount |-> m, row |-> row])
  /\ UNCHANGED <<providers, libraries, mounts, files, scan, excused, troubles>>

\* The provider must exist and have the source directory.
SourceValid(row) == row.provider \in providers

IsolatedOneWay(m, row) == \A n \in Present \ {m} : ~OneWay(row.target, mounts[n].target)

\* The target must not overlap another mount's, whatever its library.
Isolated(m, row) == \A n \in Present \ {m} : ~Overlap(row.target, mounts[n].target)

CheckMount(r) ==
  LET q == request[r] IN
  /\ q.pc = "checking"
  /\ \/ SourceValid(q.row) /\ Isolated(q.mount, q.row) /\ Goes(r, [q EXCEPT !.pc = "writing"])
        /\ UNCHANGED writer
     \/ EndsLocked(r)
  /\ UNCHANGED <<providers, libraries, mounts, files, scan, excused, adds, troubles>>

\* The rows a mount refers to must exist.
Referenced(row) == row.provider \in providers /\ row.library \in libraries

CreateMount(r) ==
  LET q == request[r] IN
  /\ q.pc = "writing" /\ q.new /\ EndsLocked(r)
  /\ IF ~Has(q.mount) /\ Referenced(q.row)
     THEN /\ mounts' = [mounts EXCEPT ![q.mount] = q.row]
          /\ excused' = excused \ {Outputs(q.mount, q.row)}
     ELSE UNCHANGED <<mounts, excused>>
  /\ UNCHANGED <<providers, libraries, files, scan, adds, troubles>>

\* What the mount has written below its old target stays there.
UpdateMount(r) ==
  LET q == request[r] IN
  /\ q.pc = "writing" /\ ~q.new /\ EndsLocked(r)
  /\ IF Has(q.mount) /\ mounts[q.mount].library = q.row.library /\ Referenced(q.row)
     THEN /\ mounts' = [mounts EXCEPT ![q.mount] = q.row]
          /\ excused' = (excused \cup {Outputs(q.mount, mounts[q.mount])}) \ {Outputs(q.mount, q.row)}
     ELSE UNCHANGED <<mounts, excused>>
  /\ UNCHANGED <<providers, libraries, files, scan, adds, troubles>>

-----------------------------------------------------------------------------
(* Deleting a mount, or a library with its mounts *)

\* The output directory itself is never removed, nor a tree that another mount shares.
Cleanable(rows) ==
  \A m \in DOMAIN rows :
    /\ rows[m].target # <<>>
    /\ \A n \in Present \ DOMAIN rows : ~Overlap(rows[m].target, mounts[n].target)

\* The clean-up is checked, from the rows as they are, before anything is deleted.
BeginDelete(r, what, ms, clean) ==
  LET rows == [m \in ms |-> mounts[m]] IN
  /\ request[r].pc = "idle" /\ Lock(r)
  /\ clean => Cleanable(rows)
  /\ Goes(r, [pc |-> "deleting", what |-> what, rows |-> rows, clean |-> clean])
  /\ UNCHANGED <<providers, libraries, mounts, files, scan, excused, adds, troubles>>

DeleteMount(r, m, clean) == Has(m) /\ BeginDelete(r, m, {m}, clean)

DeleteLibrary(r, l, clean) ==
  l \in libraries /\ BeginDelete(r, l, {m \in Present : mounts[m].library = l}, clean)

\* The rows go first; there is nothing to clean up for a mount whose row has
\* gone in the meantime.
DeleteRows(r) ==
  LET q == request[r]
      gone == {m \in Present : m = q.what \/ mounts[m].library = q.what} IN
  /\ q.pc = "deleting"
  /\ mounts' = [m \in Mount |-> IF m \in gone THEN Gone ELSE mounts[m]]
  /\ libraries' = libraries \ {q.what}
  /\ IF q.clean /\ (q.what \in libraries \/ gone # {})
     THEN Goes(r, [q EXCEPT !.pc = "cleaning"]) /\ UNCHANGED <<writer, excused>>
     ELSE /\ EndsLocked(r)
          /\ excused' = excused \cup {Outputs(m, mounts[m]) : m \in gone}
  /\ UNCHANGED <<providers, files, scan, adds, troubles>>

\* The trees are removed one after the other; the first failure is the last.
CleanOutputs(r) ==
  LET q == request[r] IN
  /\ q.pc = "cleaning"
  /\ \/ \E m \in DOMAIN q.rows :
          /\ files' = Sweep(q.rows[m].target, {})
          /\ excused' = {o \in excused : ~Within(o.in, q.rows[m].target)}
          /\ Goes(r, [q EXCEPT !.rows = [n \in DOMAIN q.rows \ {m} |-> q.rows[n]]])
          /\ UNCHANGED <<writer, troubles>>
     \/ /\ DOMAIN q.rows = {} /\ EndsLocked(r) /\ UNCHANGED <<files, excused, troubles>>
     \/ /\ Trouble /\ DOMAIN q.rows # {} /\ EndsLocked(r) /\ UNCHANGED files
        /\ excused' = excused \cup {Outputs(m, q.rows[m]) : m \in DOMAIN q.rows}
  /\ UNCHANGED <<providers, libraries, mounts, scan, adds>>

-----------------------------------------------------------------------------
(* Deleting a provider *)

\* A provider that mounts refer to is refused.
CountMounts(r, p) ==
  /\ request[r].pc = "idle" /\ p \in providers
  /\ \A m \in Present : mounts[m].provider # p
  /\ Goes(r, [pc |-> "counted", provider |-> p])
  /\ UNCHANGED <<providers, libraries, mounts, files, writer, scan, excused, adds, troubles>>

\* Mounts that were created since go with it, and leave what scans have written
\* or are writing.
DeleteProvider(r) ==
  LET p == request[r].provider
      gone == {m \in Present : mounts[m].provider = p} IN
  /\ request[r].pc = "counted" /\ Ends(r)
  /\ providers' = providers \ {p}
  /\ mounts' = [m \in Mount |-> IF m \in gone THEN Gone ELSE mounts[m]]
  /\ excused' = excused \cup {Outputs(m, mounts[m]) : m \in gone}
  /\ UNCHANGED <<libraries, files, writer, scan, adds, troubles>>

-----------------------------------------------------------------------------
(* Scans, and the process *)

\* A scan reads the mount's row under the shared lock, and compares its target
\* with the others'.
BeginScan(m) ==
  /\ scan[m] = Gone /\ writer = NoRequest
  /\ Has(m) /\ Isolated(m, mounts[m])
  /\ scan' = [scan EXCEPT ![m] = mounts[m]]
  /\ UNCHANGED <<providers, libraries, mounts, files, writer, request, excused, adds, troubles>>

\* It writes the outputs below the target and removes what it did not expect.
ScanOutputs(m) ==
  /\ scan[m] # Gone
  /\ files' = Sweep(scan[m].target, {Outputs(m, scan[m])})
  /\ UNCHANGED <<providers, libraries, mounts, writer, request, scan, excused, adds, troubles>>

\* It ends, at any point.
EndScan(m) ==
  /\ scan[m] # Gone /\ scan' = [scan EXCEPT ![m] = Gone]
  /\ UNCHANGED <<providers, libraries, mounts, files, writer, request, excused, adds, troubles>>

\* What a clean-up has not removed when the process ends stays.
Restart ==
  /\ Trouble
  /\ excused' = excused \cup UNION {{Outputs(m, request[r].rows[m]) : m \in DOMAIN request[r].rows} :
                                     r \in {q \in Request : request[q].pc = "cleaning"}}
  /\ request' = [r \in Request |-> Idle] /\ writer' = NoRequest
  /\ scan' = [m \in Mount |-> Gone]
  /\ UNCHANGED <<providers, libraries, mounts, files, adds>>

-----------------------------------------------------------------------------
RequestStep(r) ==
  \/ \E m \in Mount, row \in Rows : AddMount(r, m, row) \/ EditMount(r, m, row)
  \/ CheckMount(r) \/ CreateMount(r) \/ UpdateMount(r)
  \/ \E clean \in BOOLEAN :
       (\E m \in Mount : DeleteMount(r, m, clean)) \/ (\E l \in Library : DeleteLibrary(r, l, clean))
  \/ DeleteRows(r) \/ CleanOutputs(r)
  \/ (\E p \in Provider : CountMounts(r, p)) \/ DeleteProvider(r)

Next ==
  \/ \E r \in Request : RequestStep(r)
  \/ \E l \in Library : CreateLibrary(l)
  \/ \E m \in Mount : BeginScan(m) \/ ScanOutputs(m) \/ EndScan(m)
  \/ Restart

Spec == Init /\ [][Next]_vars

-----------------------------------------------------------------------------
\* Outputs of a mount that exists are never removed by what happens to another:
\* not by its scans, which sweep their whole tree, and not by the clean-up of a
\* deleted mount or library (app.go:4161-4201, :4870).
LiveOutputsKept ==
  [][\A o \in files \ files' : Has(o.by) => mounts[o.by].target # o.in]_vars

\* Outputs belong to a mount: what a request was asked to clean up is gone when
\* it ends and no scan brings it back.  Excused are outputs whose mount was
\* moved, deleted without clean-up or together with its provider, and those a
\* failed clean-up has left (app.go:1258-1291, :1368-1405).
OutputsOwned ==
  AtRest => \A o \in files \ excused : Has(o.by) /\ mounts[o.by].target = o.in

=============================================================================
