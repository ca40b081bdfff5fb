# nyamedia: a TLA+ verification project

nyamedia mounts cloud drives and local directories as *providers*, groups mounts
of them into *libraries*, scans the mounts and writes for each media file a
`.strm` file (and copies of sidecar files) that a media server picks up. What
makes the program hard is everything around a scan: many sources ask for scans
at once, requests are merged in a persistent queue, one worker starts scans
under a limit, scans are cancelled, killed and recovered, and the tree they
walk changes meanwhile.

All paths below are relative to `src/`; `app.go` and other bare file names are
in `internal/app/`, `*_repository.go` in `internal/storage/`.

## 1. Inventory

| Component | State | Operations | Talks to |
|---|---|---|---|
| Scan queue (`scan_queue.go` 224–388, `scan_queue_repository.go`) | table `scan_queue`: rows with merge key (mount, path, mode), `run_after` | `enqueueScan` = find covering row, touch it, or upsert and delete covered rows | called by webhooks, watchers, schedules, the admin UI; wakes nobody |
| Queue worker (`scan_queue.go` 26–196) | `slots`, `activeProviders`, the channel `wake`, one worker goroutine, one goroutine per scan | wake up, take a slot, load the first due row, lock its provider, validate, dequeue into a task, start the scan; deferred unlock, release, notify | queue rows, tasks, the scan |
| Scan tasks (`app.go` 1790–1985, 2078–2235, `scan_task_repository.go`) | table `scan_tasks` (status), map `activeTasks` of cancel functions | run, complete, fail, cancel, recover at start, prune | worker, admin UI |
| Library scan (`app.go` 2238–2850, 3865–4360, `entry_repository.go`) | table `entries`, the output tree, `mountMutationMu` | walk, upsert entries, delete stale ones, write outputs, clean up stale outputs | providers, webhooks, mount administration |
| Watchers (`watch.go`, `provider/local`) | one goroutine per watched mount, a timer per library, generations, `watchStatus`, the channel `watchReload` | debounce a change, enqueue, reload when rows change | queue, administration |
| Schedules (`schedule.go`, `scan_schedules.go`) | table `scan_schedules` (`last_run_at`) | match cron, mark run, enqueue | queue |
| Webhooks (`webhook.go`) | none of its own | resolve a payload to mounts and paths, delete targets, enqueue | queue, library scan |
| Mount administration (`app.go` 878–956, 1165–1405, 4123–4231) | tables `providers`, `libraries`, `library_mounts`, the lock `mountMutationMu` | create, edit, delete; output isolation and clean-up | everything that reads a mount |
| Provider tokens (`provider/open115`, `baiduopen`, `pan123`, `baiduopen_provider.go`) | table `provider_secrets`, maps `baiduProviders` and `pan123Providers`, the token state of each instance | build an instance, refresh, persist, invalidate | every call to a cloud provider |
| Authorization flows (`open115_auth.go`, `cookie115_auth.go`, `baiduopen_auth.go`, `oauth_broker.go`) | maps of flows, `provider_secrets` | start, poll, call back, exchange, store, import | 115, Baidu, the broker; tokens |
| Link cache, sessions, proxy, configuration, web UI | see `PROJECT.json` | | |

Interactions. Enqueuers are goroutines of HTTP requests, of watcher timers and
of the schedule ticker; they share nothing but the database. The worker is one
goroutine; it alone takes slots and provider locks, which the scan goroutines
give back. A task's goroutine, the requests that cancel it and the pruner share
the task's row, each through separate statements, and the map `activeTasks`. A
process that stops or dies leaves rows of both tables for the next one.

Hard behaviours and the properties that make a component correct:

* queue: three statements of one enqueue interleave with other enqueues and
  with the worker; no accepted request may be lost, and merging must leave no
  row that another one makes superfluous;
* worker: early returns must give back exactly what was taken; a stale picture
  of the locks or of the row must do no harm; a due row must not be forgotten
  when its provider was busy;
* tasks: completion, failure, cancellation, shutdown and recovery race for one
  row; the first end must win, and no row may stay pending or running for ever;
* library scan: the clean-up of entries and outputs must remove what is gone
  and nothing else, while files come and go and webhooks delete;
* watchers and schedules: a change or a due run must lead to an enqueue, across
  reloads, timers firing while they are replaced, and failures;
* mounts: a clean-up or a scan must not remove what another mount has written,
  and no output may be left that nobody owns;
* tokens: a rotating refresh token must be spent once, and the newest one kept;
* authorization: a code is exchanged once, and a flow says "authorized" if and
  only if its tokens were stored.

`PROJECT.json` lists the hazards line by line and the properties for each.

## 2. Plan

Done, in this order:

1. `ScanIntents` – the abstract promise of the queue.
2. `ScanQueue` – queue, worker, scan goroutines, stop, crash and restart; it
   implements `ScanIntents`. `MCScanQueue` instantiates it.
3. `ScanQueueProofs` – type correctness and the lock, slot and wake-up
   invariants for all constants; for calls that do not overlap, that rows are
   merged, that accepted events are kept, and the refinement but for its fairness.
4. `ScanTasks`, `MCScanTasks`, `ScanTasksProofs` – the life of a task.
5. `LibraryScan`, `MCLibraryScan` – one mount: serial scans (walk, upsert, stale
   deletion, output writing, clean-up) against a tree that changes, webhook
   deletions, failures and crashes. `LibraryScanProofs` proves that outputs and
   index agree with the tree and that scans keep what is there.
6. `Watchers` – generations of watchers, timers, reloads, status;
   `WatchersProofs` proves its invariants.
7. `Schedules` – cron matching against a reference definition, `MarkRun` before
   the enqueue, the ticker, requests and foreign keys; `SchedulesProofs` proves
   its invariants and the equivalence of the two readings of an expression.
8. `ProviderTokens` – instances that share, or do not share, a rotating token;
   `ProviderTokensProofs` proves whose tokens are stored, that a shared instance
   refreshes once, that the stored token works and that the cache agrees with it.
9. `AuthFlows` – QR polling, Baidu's callback and the broker; `AuthFlowsProofs`
   proves that a code is presented once and that a flow tells the truth.
10. `Mounts` – isolation and clean-up of outputs, beside scans; `MountsProofs`
    proves that every output is somebody's and that nobody else removes it.

Left for later: a pure module about paths (normalisation, the patterns that compare
them, the resolution of a webhook's target), and the path of an event from a
watcher or a schedule through the queue to its task, in one composed module.

## 3. What is modelled, and how it corresponds to the code

### ScanQueue

A row of `scan_queue` is named by the event (call of `enqueueScan`) that
inserted it: `newID("queue")` is evaluated by the caller and an upsert that hits
a row keeps that row's id, so the name is as unique as the id. `queue` is the
set of rows, `request[e]` holds the merge key, `runAfter[e]` the column.

| Code | Model |
|---|---|
| `enqueueScan`, one statement per step | `BeginCall`, `FindCovering`, `Touch`, `Upsert`, `DeleteCovered`, `CallFails` |
| `startScanQueueWorker`, `drainScanQueue`, `prepareQueuedScan` | `WakeUp`, `AcquireSlot`, `SnapshotProviders`, `LoadDue`, `TryLockProvider`, `ValidateTarget`, `DiscardRow`, `Dequeue` (its `go` statement is `StartScan`) |
| the goroutine of a scan and its deferred function | `FinishScan`, `UnlockProvider`, `ReleaseSlot`, `Notify` |
| `slots` (a channel's length), `activeProviders`, `wake` | `slots`, `active`, `wake` |
| shutdown, kill, start of the process | `Stop`, `Exit`, `Crash`, `Restart` |
| the admin's changes to mounts, libraries and providers | `ChangeMount` |

Abstractions. One enqueue call is one event; a webhook or a schedule that
covers several mounts makes successive calls. Paths are opaque values with
their ancestors: the SQL patterns that compare them are left to a module about
paths. The scan itself is one step; an event counts as `served` when a scan
that covers it has been *taken up* after the event (when the process dies
afterwards, the scan's task row, not the queue row, tells of it). Rows of equal
`run_after` come in any order, since `created_at` has whole seconds and the id
that decides after it is random. The `overwrite` option is not part of a
request here (`LibraryScan` has it). `accepted`, `served`, `dropped` and `deferred` are history variables
that no action reads.

### ScanTasks

`status[t]` is the row's column, `runner[t]` the program counter of the
goroutine, `registered` the keys of `activeTasks`, `cancelled` the tasks whose
cancel function was called, `reqPc` the cancel requests. Every statement on a
row is a step of its own. `runLibraryScanTask` and
`runLibraryCurrentLevelScanTask` have the same control flow and share one
model; the scan between them is one step that may return nil, an error, or an
error because of its context. A member of `Faulty` is a task a statement of
which may fail. The number of goroutines is not limited here, so every
interleaving the slots allow is included. Recovery (`Restart`, `Recover`,
`Serve`) reads the newest `ListLimit` rows, 200 in the code.

### LibraryScan

One mount, whose scans run one after the other because they share a provider.
`dirs` and `files` are the provider's tree; `entries[f]` is the row of a file and
says only whether its `last_seen_at` equals the running scan's `seenAt`;
`output[o]` is what an output file holds, named by the file it was made from.

| Code | Model |
|---|---|
| `scanLibrary`, `scanMount`, `scanLibraryCurrentLevel` | `BeginScan`, `ListDir`, `UpsertEntry`, `PurgeStale`, `LoadIndex` or `TakeListing`, the writing of outputs, `RemoveStale`, `FinishScan`; a directory with a `.ignore` in `ListDir` and `Forget` |
| `writeSTRM` | `OpenStrm`, `FillStrm`; `SkipExisting` without overwrite |
| `downloadProviderFile` | `Download`, one step: the copy is renamed into place |
| `handleFilesystemWebhook` for a deletion | `HookDelete`, `HookOutputs`, `HookEntries`, `HookEnqueue`, `HookFails` |
| the same for other events | `HookChange`, in one step, which may fail |
| `enqueueScan`, in one step | `Enqueued`, with the merging of overwrite options |
| clients of the provider | `Upload`, `Delete`, `DeleteDir`, `MakeDir`; each will be reported, once, at any later time and in any order |

Abstractions. A listing is one step, and the files of a listed directory may be
upserted in any order and after further listings, which includes the order of
every provider's walker. A removal of outputs by a report is one step although
it removes several files. Rows of directories, empty directories of the output
tree and `MarkScanned` are left out. Reports are handled one deletion at a
time, name the provider, and say whether a directory was deleted. A file's new
content is a new file. `mountMutationMu` is read-locked by scans and reports and
orders neither. Scans bypass the caches of the providers (`WithBypassCache`), so
a listing is what the provider holds. With a medium its `CompanionsOf` are
removed, the copies that bear its name; copies that serve the whole directory
(`index.bif`, `mediainfo.json`) are in `SidecarsOf` of each medium but go only when
they are deleted themselves. No two scans begin in the same second: what
happens otherwise is told in section 6.

`broken`, `flawed`, `trusted` and `steady` are history variables. A directory is
`broken` from a failed scan, handler or download, or a report of a deleted
directory that came too late or too early, until a scan of it succeeds;
`flawed` collects what the running scan will leave broken; an output is
`trusted` when a scan without overwrite took it for complete although it was
not made from the file at hand; a file is `steady` when it has been wanted
since the running scan began and no report of its deletion was outstanding
then, and, if it is copied for the sake of a medium, when some such medium is
steady as well.

### Watchers

| Code | Model |
|---|---|
| the handlers that write providers, libraries and mounts | `WriteRow`, then `RequestReload`; the channel `watchReload` holds one request |
| `startProviderWatchers` | `TakeReload` or `Leave`, `DrainWatchers` (cancel, wait for the goroutines, stop the timers), `NextGeneration` (wait for the callbacks) |
| `startProviderWatchers`, `startMountWatcher` | `ListLibraries`, `ListMounts`, `StartMountWatcher`, `Started`, each of which may fail |
| the goroutine of a mount, `local.Watch` and its callback | `Begin` (reports itself active), `Arm` (adds the directories, or fails), `TakeEvent`, `ScheduleRescan`, `WatchReturns` |
| the callback of `time.AfterFunc` | `Fire`, `Callback` (pop the map entry if it is still this timer), `EnqueueLibrary` |
| `recordWatchStatus`, `resetWatchStatus` | the updates of `status` |

A goroutine and a timer carry the number of their generation; the context of
generation *n* is cancelled when `n <= ended` or the application closes. `due`
and `gaps` are history: libraries with a change a watcher has got hold of, and
mounts whose watcher failed. `ChangeIsRequested` says that no race of timers leaves
a change unsettled; a reload, a shutdown or a failing enqueue settles it by
dropping it, as the code does. The length of the debounce, reasons and events are
left out.

### Schedules

| Code | Model |
|---|---|
| `parseCronSchedule`, `matches` | `Parsable`, `Matches`; `Due` is the reference, read value by value |
| `handleScanSchedules`, `handleScanScheduleByID` | `ValidateTarget` and, in a later step, `Save`; `DeleteSchedule` |
| `startScanScheduleScheduler`, `checkScanSchedules` | `Tick`, `LoadEnabled`, `PassOver`, `MarkRun`, `ResolveTargets`, `EnqueueScan`, `Enqueued`, `Checked` |
| foreign keys of `scan_schedules` | `Referenced`, and the rows `DeleteTarget` takes along |

A field of an expression is the list of its parts, already cut at `,`, `-` and `/`;
`Star` is the field that is `*` and nothing else, as `parseCronField` has it, so
`*,*` is not. Steps are taken to be far below 2^63, where the code's sums would
wrap around; a larger one is not modelled.
A minute is an index into `Calendar`, so a clock that is set back shows a minute
again. A correction is below a minute: the clock reads the same minute twice or
skips one. After a larger set-back, which is left out, the code runs a minute
again. Ticks that find the scheduler busy are dropped. `RunsOnce` exempts a
schedule that was deleted and created again with its id, whose mark went with
the row.

### ProviderTokens

| Code | Model |
|---|---|
| `buildProvider`, `getOrCreate` | `LoadSecrets`, `BuildProvider`: 115open makes an instance for each call, the others reuse the one in the map while the client is the same |
| `doAPI`, `ensureAccessToken` | `EnsureAccessToken`, `DoAPI`, `Resume` |
| `refresh` | `BeginRefresh` (take the mutex, look again), then `RefreshAnswered`, `RefreshLost` or `RefreshFails` |
| `persistProvider…Token(s)` | `PersistCheck`, `ReplaceTokens` |
| authorizations, imports, credentials, edits | `Authorize` or `ImportStored`, then `StoreGrant` or `StoreFails`; `ChangeClient`, `InvalidateStored`, `EditProvider` |
| the service and the clock | `Serves`, `Lapse`, `Revoke` |

A token is named by the grant it came with; the service takes a refresh token
once. `getOrCreate` keeps the token state when only the root path differs, which
has no state of its own here. An import into baiduopen without a refresh token has
the stored one renewed, which spends it: reading and spending it is one step, the
writing of the answer another. Two exemptions: `troubled`, an answer, a write or a
process was lost on the way of a new token to the database; `overtaken`, the
cached instance was built from secrets that had changed since they were read, or
an instance that had left the map has written newer tokens. The generic requests
that write or delete one secret are left out.

### AuthFlows

| Code | Model |
|---|---|
| start of a QR flow, of a Baidu flow | `StartQR` or `StartBaidu`, then `Insert` with its pruning |
| status of a QR flow | `StatusQR`, `AskQR`, `NoteQR`, `ExchangeQR`, `StoreOpen` or `StoreCookie` (two writes each), `Finish` or `Fail` |
| status of a flow through the broker | `StatusBroker`, `AskBroker`, `NoteBroker` |
| Baidu's callback | `Callback` (`consumeBaiduOpenAuthFlow`), `CheckCallback`, `LoadClient`, `ExchangeCode`, `PersistTokens`, `Finish` or `Fail` |
| imports, credentials | `ImportOpen`, `ImportBaidu` with `PersistImport`, `Credentials` |

Each request looks a flow up, works on a copy without the lock, and updates the
flow if it is still there. Two exemptions, both what the code does: `overlapped`,
two requests polled a QR flow at the same time, so that the session is exchanged
twice and the later failure turns "authorized" into "error"; `lost`, 115's writer
logs a failed write and goes on. A broker's late answer may put a flow back to
pending. An answer of 115open may mark a flow expired and be exchanged
nevertheless, if its two status fields disagree. The broker's configuration, the choice of the mode and all pages and
responses are left out.

### Mounts

| Code | Model |
|---|---|
| `handleLibraryMounts`, `handleLibraryMountByID` | `AddMount` or `EditMount` (take `mountMutationMu`), `CheckMount`, `CreateMount` or `UpdateMount`; `DeleteMount`, `DeleteRows`, `CleanOutputs` |
| `handleLibraries`, `handleLibraryByID` | `CreateLibrary`, `DeleteLibrary` |
| `validateMountOutputIsolation`, `validateCleanupMountOutputDirs` | `Isolated`, `Cleanable` |
| `handleProviderByID`, deletion | `CountMounts`, then `DeleteProvider`, without the lock |
| scans | `BeginScan`, `ScanOutputs`, `EndScan`, under the shared lock |

A target is the sequence of its directory names, so that one may lie below
another; an output is named by its mount and the target it lies below. A sweep
removes the whole tree below a target but what is expected, so it would remove
another mount's outputs if targets overlapped. Edits of the other fields of
libraries and providers are left out. `excused` is history: outputs whose
mount was moved, deleted without clean-up or together with its provider, and
those a failed clean-up has left.

## 4. Runs

| Run | Instance | Question |
|---|---|---|
| `one_caller` | one caller at a time, two events, one mount, the directories `/` and `/a`, one stop or crash, one admin change, clock to 1, fair | Is every accepted event served or dropped in the end (`KeepsIntents`, refinement of `ScanIntents!Spec`), never lost meanwhile (`AcceptedEventsKept`), does merging leave no superfluous row (`MergedAtRest`), and is nothing deleted ever scanned (`DeletedNotScanned`)? |
| `contention` | two concurrent callers, three events, three mounts on two providers, failing statements | Do `ProviderSerial`, `LocksAccounted`, `SlotsAccounted`, `LockIsFree`, `NoLostWakeup` hold? |
| `lost_event` (violation) | two concurrent callers, no failures | `AcceptedEventsKept` fails: see findings |
| `tasks` | two tasks, one of which may meet failing statements, one cancel request, two stops or crashes, recovery limited to one row, fair | Does every task end once and for all (`EndedOnce`, `EveryTaskEnds`), is an active row always attended (`ActiveHasRunner`), does cancelling reach the scan (`CancelStopsScan`)? |
| `library` | two directories, a film in two containers that share a `.strm`, a subtitle, an `index.bif` and a `.ignore`; a recursive scan by hand, two changes of the tree, one crash, failures; reports ask for either mode | Do outputs and index agree with the tree at rest (`Mirror`, `IndexComplete`), and does no scan remove what was there all along (`KeepsLive`)? |
| `ghosts` (violation) | two films, two changes, no failure, no crash | `DeletedStaysDeleted` fails |
| `watchers` | two mounts of one library and one provider, all switched on; two rows written, two changes of the tree, two timers, failures, a shutdown, fair | Do generations never overlap (`OneGeneration`), do the watchers at rest match the rows (`AtRest`) and the status match them (`StatusTruth`), does every reload end (`ReloadFinishes`), is every change settled (`ChangeIsRequested`)? |
| `schedules` | two schedules of four drafts, two mounts, three minutes around the end of a month; one edit, one change of mounts, one correction of the clock, one stop, failing statements | `RunsOnce`, `RunsWhenNamed`, `NothingOwed` |
| `tokens` | the three kinds, two calls at a time of three, three grants, two clients; an authorization or an import, a change, a trouble | `RefreshedOnce`, `StoredUsable`, `OwnTokens`, `CachedAgrees` |
| `spent_twice` (violation) | two calls of a 115open provider | `SpentOnce` fails |
| `auth_flows` | the three kinds and three modes, one flow, three requests at a time, two clients; two imports, two troubles | `ExchangedOnce`, `TellsTruth` |
| `mounts` | two providers, libraries, mounts and requests, targets `/`, `/a`, `/a/b`, `/c`; three writes of a mount, one trouble | `OutputsOwned`, `LiveOutputsKept` |

Bounds. `Events`, `MaxTime`, `MaxStops` and `MaxAdmin` bound a behaviour, not
the program. Two events are the smallest number that merge, cover and race, and
the three requests of `OneMountRequests` give every relation two rows can have
(same key, covering, covered, unrelated through the debounce). Three events and
two slots make all slots taken while a row waits. One stop, together with the
restart, puts a process boundary between any two steps. With `ListLimit = 1` and
two tasks a row falls out of recovery's sight, the case of 201 rows. In `library`, two
changes are the smallest number with a file or directory that goes and comes
back (three give nothing new: the run has been repeated with three changes and
fewer files); the five files give every relation of outputs there is
(shared, companion of a medium, copy for a directory, ignored). In `watchers`, two
switches let a row change again while the reload for the first is under way, and
two timers let one fire while it is being replaced; a third timer is never
needed at once with these changes. In `schedules`, three minutes show one before,
at and after midnight, and the drafts have expressions that match some of them,
none, or do not parse, with and without mount and path. In `tokens`, the third call comes to
an instance that two others have refreshed or left behind; three grants are the
first, a refreshed and an authorized one. In `auth_flows`, three requests are two
that race for a flow and one that changes the client. In `mounts`, two requests
race a scan of either mount, and three writes let a mount be moved or made anew.
Deadlock is
checked everywhere except in `tasks`, where a behaviour ends when both tasks
and the request are done, in the runs of `LibraryScan`, where it ends when
all changes are made, reported and scanned, and in the five modules after it,
where it ends when the bounded events are used up.

Symmetry is used only in runs without liveness properties: over the events of
`contention`, the two containers of `library`, which differ in nothing but their
names, and over schedules, calls and clients, requests, and the sets of
`mounts`; no `CHOOSE` ranges over these sets.

The properties hold up to these bounds for any interleaving; those that are
theorems hold without bounds (section 5).

Fairness. `WakeUp` is fair because of the 5-second ticker in its `select`; the
steps of callers, worker and scan goroutines are single statements and calls
that return; that a scan ends is an assumption about the provider; `Exit` follows
a 30-second limit; `Restart` stands for a service manager that starts the
process again; `Tick` for time. In `Watchers` a handler that has written a row goes on
to request the reload, the loop, each mount's watcher and each timer's callback
run on (Go's scheduler; their statements return), and a timer fires. Nothing makes a caller enqueue, an admin act, a
statement fail or the process stop.

Exemptions that the properties spell out: `AcceptedEventsKept` exempts events
whose target was found invalid (`dropped`); `one_caller` excludes failing
statements (`Faults = FALSE`), among them a context that is cancelled between
the commit of a dequeue and its read-back; `ActiveHasRunner` and `EveryTaskEnds`
exempt tasks with a failing statement and rows beyond recovery's limit
(`OutOfSight`); `CancelStopsScan` exempts a request that came before the task
had registered its cancel function (`missed`); `Mirror` and `IndexComplete` exempt
directories whose last scan or report came to nothing (`broken`), since the code
never tries again, and `Mirror` lets an output be that a scan without overwrite
was told to leave (`trusted`); `KeepsLive` exempts the step of a report, which
removes the `.strm` that two containers share when one of them is deleted. `ChangeIsRequested` is
checked with two changes of the tree, so it does not show that a steady stream of
changes, each of which replaces the timer (`watch.go:282-290`), postpones a scan for
ever, as it does in the code; `NothingOwed` does not speak of the run that is lost when
the process ends between a schedule's mark and its enqueue. The
exemptions of the other modules (`gaps`, `deleted`, `troubled`, `overtaken`,
`overlapped`, `lost`, `excused`) are told with them in section 3.

## 5. What is proved

Every invariant and every action property of the passing runs is a theorem:
`PROJECT.json` lists which. Each is proved for all values of the constants, from
the assumptions that the module states about them, which TLC evaluates in the
runs; where a theorem has a hypothesis of its own, it is named below. The
arguments:

`ScanQueueProofs`, for every number of callers, events, providers, paths and
slots, with stops and crashes, from `ScopeAssumption` (the directories above a path
form a chain and contain it) and `BoundAssumption` alone. With overlapping calls
and failing statements too:

* `TypeCorrect` – `Spec => []TypeOK`;
* `ProvidersSerial`, `LocksNeverLeak`, `TryLockSucceeds` – all three follow from
  `LockInv`: the locked providers are those of the running scans and of the row
  being prepared, no two holders share a provider, and what the worker has
  excluded or loaded is consistent with the locks. Neither `ProviderSerial` nor
  `LockIsFree` is inductive alone: the first needs that a free provider has no
  scan, the second that the snapshot `excluded` contains every locked provider
  (only the worker locks, so the set can only shrink behind its back);
* `DeletedStayUnscanned` – `TargetInv`: the target of a row in the queue is never
  deleted, since the upsert is a statement the foreign keys check and a deletion takes
  the rows along. What the worker has loaded and validated may be older than the
  deletion, so it is the dequeue, which finds the row or nothing, that decides;
* `SlotsNeverLeak` – counts goroutines by cardinality lemmas;
* `WakeUpsNotLost` – `WakeInv` adds what the worker has seen while it drains: a
  row it excluded belongs to a provider that a living scan goroutine still has to
  announce.

If calls do not overlap (`OneCaller`; with two callers `lost_event` refutes the
second of these):

* `RowsAreMerged` – `MergeInv`: rows are merged but for those that the call that
  wrote its row is about to remove, and a call on its way to write has seen no
  other row that covers its own. Of the rows that cover a directory the lookup
  returns the deepest; since directories form a chain and rows are merged, there is
  only one. All of this is given up for good once a call has failed (`Astray`), as
  the property gives it up;
* `AcceptedNotLost` – if moreover no statement fails: `KeptInv` says that the row
  that absorbs an event covers it until it is touched (if the row goes meanwhile,
  the call returns an error and accepts nothing), and that what the clean-up removes
  is covered by a row that is there, or has been served or dropped with that row.
  Without faults only a shutdown makes the lookup of a target fail;
* `ImplementsIntents` – with the same hypotheses, the safety half of the
  refinement: the intents owed are those accepted and neither served nor dropped
  (which needs `KeptInv`, for `Owed` is read off the rows), so a step that accepts
  an event submits one intent, a step that serves or drops settles what was owed,
  and every other step is invisible.

`ScanTasksProofs`, for any number of tasks, requests and restarts:

* `TypeCorrect`;
* `RecoveryAlone` – while rows are recovered, no goroutine runs and what is still
  listed is active; this is what makes `Update` without a condition sound;
* `FirstEndIsLast` – `EndedOnce` from `RecoveryAlone` and the condition of
  `UpdateIfActive`;
* `CancelReachesScan` – `CancelInv` relates a request between its two steps to
  the task's context;
* `NobodyForgotten` – `AttendedInv` says for each program counter what the row
  may be.

`SchedulesProofs`, for every set of schedules and drafts, every calendar and any
number of edits, corrections and restarts, from `ScheduleAssumption` alone (types
of the constants, a calendar that is not empty, a root that contains every path):

* `MatchesIsDue` – for every expression that parses and every minute, the sets
  that `parseCronField` builds and `matches` looks up say what the expression
  names, value by value. It rests on two lemmas of arithmetic: a step stays in
  its range, and the steps are the values whose distance from the start the step
  divides. Sunday's two names are the one place where a value is folded;
* `TypeCorrect` – with it, that rows refer to rows that exist;
* `MinuteRunsOnce` – `OnceInv`: no mark is ahead of the minute being checked
  (`Timely`), a schedule without a row was deleted, so a mark that is gone is
  accounted for (`Remembered`), one schedule runs at a time (`Alone`), and what was
  enqueued is not ahead of its mark (`Recorded`). `RunsOnce` alone is not
  inductive: that a minute was not yet enqueued when it is marked follows only
  from the marks;
* `RunsAreNamed` – what is listed is enabled and what is marked is due, by
  `MatchesIsDue`;
* `NothingForgotten` – under the hypothesis that a row whose expression does not
  parse (saved before it was checked) is never due; `Owing` keeps for each
  schedule owed the item that will run it, still markable or just marked.

`ProviderTokensProofs`, for every set of calls and clients, the three kinds of
provider and any number of grants, changes, lost answers and restarts, from
`TokenAssumption` alone:

* `TypeCorrect` – with it, that a mutex is held by the call that refreshes the
  instance it belongs to;
* `TokensOwned` – `OwnInv`: wherever clients change, every copy of the tokens (in
  the database, in what a call has read, in an instance, in an authorization under
  way) was granted to the client kept beside it, and a call that writes holds the
  authorization mutex and has the client it compared. `OwnTokens` alone is not
  inductive: a write brings in what an instance has, and the comparison and the
  write are two steps;
* `SharedRefreshOnce` – `FreshInv`: who refreshes holds its instance's mutex
  (`Held`), so what it presents is what the instance still has (`Presents`), and no
  instance keeps a token whose answer has arrived (`Unanswered`), a new grant
  being one that was never presented. It says nothing of two instances:
  `SpentOnce` fails (section 6).

* `StoredTokenWorks` – `SupplyInv`: a token that has still to be written back is
  known to nobody but the instance or the import that got it and has not been
  presented (`NewTokens`), and if the token in the database has been, its successor
  is being written back by a call (`Provided`) or an import (`Renewed`) that will find
  its own client there, unless something was lost;
* `CacheIsTrue` – `CacheInv`: the cached instance has the secrets of the database,
  or newer ones that the call that asked for them is writing back to the same
  client.

All follow the steps of a call by their shape, what each does to the instance
and to the database, so that one case covers the actions that do the same.

`WatchersProofs`, for all sets of libraries, mounts and providers and any finite
number of timers, from `MountAssumption` alone. One inductive invariant, `WatchInv`,
serves all four theorems:

* `TypeCorrect`;
* `GenerationsApart` – `Current`: goroutines and timers in use are of the
  generation the loop started last. That none is left when the next one begins
  follows from counting: `watchTimerWG` is the number of timers armed or running,
  also when a timer is replaced that has fired but not yet popped its entry;
* `ChangesHeeded` – `Heeded`: while no handler owes a request and none is in the
  channel, what the loop has read, has started and has yet to start is what the
  rows ask for, so that a row that changes behind the loop's back always has a
  reload on its way;
* `StatusIsTrue` – by `Phased` and `Apart`: a mount has one goroutine, or a gap, or
  is still to be started.

`LibraryScanProofs`, for every tree, every set of files and outputs and any number
of changes, reports, crashes and failures, from `TreeAssumption` (`Below` is the
closure of `Parent`), `OutputAssumption` and `BoundAssumption`:

* `TypeCorrect`;
* `ScansKeepLive` – `IInv` follows a file that has been there since before the
  scan began through the four places the scan keeps it in: directories to list,
  files found, the index, and the plan of outputs. The delicate case is a sidecar,
  which is expected only while the scan sees a medium that it serves, and the row of
  that medium may vanish between the listing and the loading of the index. So the
  medium is followed along with it (`SteadyFits`): it lies in the same directory, has
  been wanted as long, and is the subject of no report;
* `OutputsMirrorTree`, `WantedIndexed` – `FInv` adds for each directory
  (`Reconciled`) that a report or a queued scan of it is on its way, or the running
  scan is at it and is as far as it should be (`Progress`) or will leave it
  broken, or else outputs and index of it are right or it is broken already.
  These two have the hypothesis `LeafIgnores`: no directory with a `.ignore` has
  directories below it. A scan of one directory asks only that directory for a
  `.ignore` (`app.go:2301`), so without the hypothesis neither property is
  true of the code; the instance of the run satisfies it.

`AuthFlowsProofs`, for any number of flows, requests and clients, from
`AuthAssumption` alone. The inductive invariant speaks of one flow at a time
(`FlowInv`), for a request touches no flow but its own, except that it may prune
others:

* `TypeCorrect`;
* `PresentedOnce` – for a QR flow that no two requests have polled, how far its one
  request has come says what has been exchanged (`QRFlow`); a Baidu flow is taken
  by the one callback that finds it pending, under the lock, and is carried to its
  end by it (`BaiduFlow`);
* `TruthTold` – the same invariant says at each step of the request whether the
  tokens are written, and so what the flow may say when the request is gone.

`MountsProofs`, for all sets of providers, libraries, mounts and targets and any
number of requests and scans, from `MountAssumption` alone:

* `TypeCorrect`;
* `OutputsAccountedFor` – `IInv`: the holder of `mountMutationMu` is alone and no scan
  runs beside it (`LockHeld`), so what it has checked is still so when it acts
  (`Planned`); a scan goes by its mount's row, or the row went with its provider,
  which takes no lock, and what the scan writes is excused (`ScanTrue`); and each
  output is claimed by its mount, about to be swept, or excused (`Accounted`);
* `OthersOutputsKept` – from the same invariant: a sweep removes the whole tree below
  a target, and the target is isolated from those of all other mounts.

Only model-checked are the liveness properties, which are beyond the prover, as
`ENABLED` is: `KeepsIntents` (what it adds to `ImplementsIntents` is its fairness),
`EveryTaskEnds`, `ReloadFinishes` and `ChangeIsRequested`.

## 6. Findings

* `lost_event` – `enqueueScan` deletes covered rows in a statement of its own.
  In between, the worker may take the covering row and another call may insert
  a row for something that scan has already passed: it is deleted although its
  call returned success (`scan_queue.go:251`; `docs/scan-problem.md:12`).
* `ghosts` – a scan that has listed a directory writes its outputs again after a
  report of the directory's deletion removed them; the scan that follows the
  report looks at the parent only (`app.go:2749`; `docs/scan-problem.md:158`).
* `spent_twice` – a 115open provider is built anew for each call, with a mutex of
  its own, so two requests present the same rotating refresh token
  (`app.go:3362`; `docs/115open-provider.md:32`).

Observed with TLC while the modules were written, and not kept as runs:

* a row is dequeued by its id, whatever its `run_after` has become since it was
  selected, so the last event merged into it loses its debounce
  (`scan_queue_repository.go:203`; `docs/scan-problem.md:35`);
* a failed read after the commit of a dequeue, or a failed lookup of the target,
  takes the row without scanning it (`scan_queue_repository.go:232`,
  `scan_queue.go:129`; `docs/scan-problem.md:139`);
* recursive scans of one library run at once when its mounts are on different
  providers (`scan_queue.go:172`; `docs/scan-problem.md:134`);
* `last_seen_at` has whole seconds, so a scan takes the rows of another that began
  in the same second for its own and keeps files that are gone
  (`entry_repository.go:114`; `docs/provider-scan-flow.md:212`);
* two polls of a confirmed QR session both exchange it, and the failure of the
  second marks an authorized flow as failed (`open115_auth.go:313`).

## 7. Not modelled

The components with status `not_modelled` in `PROJECT.json`: the cache of direct
links, sessions, proxying of streams and media servers, configuration, migrations
and the web UI. They are single statements or requests passed on, and keep no state
whose interleaving is worth a model. Of the modelled components, the parts left
out are named in section 3 and in the notes of `PROJECT.json`; the largest are the
resolution of a webhook's paths to mounts, which is text, and the parsing of the
services' answers.
