# Verification of dl-tool

dl-tool is a self-hosted download manager: a Go server over one SQLite file that
drives qBittorrent, aria2 and yt-dlp, with a REST and server-sent-events interface.
This directory holds TLA+ models of its stateful parts, the TLC runs that check them and
the TLAPS proofs of what holds for every number of tasks, requests, torrents or files. The centre is the *task plane*,
where several goroutines decide about the same download; around it stand models of the
parts that bring work in (submissions, watch folders, feeds and rules, searches), carry it
out (job queue, post-processing, the yt-dlp lane, the qBittorrent cache) and keep what the
operator relies on (live updates, accounts, indexers, settings, the database file).

Contents: [inventory](#1-inventory), [modules and code](#2-modules-and-the-code),
[runs](#3-runs), [findings](#4-findings), [proofs](#5-proofs),
[limits](#6-assumptions-and-what-is-not-modelled), [plan](#7-plan).

## 1. Inventory

### The components, their state and how they meet

| component | state | operations | meets |
|---|---|---|---|
| task-operation lease (`engine/registry.go`) | a table of per-task entries: holder token, FIFO of parked waiters, one mutex | `AcquireTaskOp` in try and wait mode, the release closure | taken by the admission pass (try), pause and PATCH (wait), re-submission (try) |
| task rows (`store/tasks.go`) | `tasks`, `task_events`: state, engine handle, error code, `admission_pending` mark | guarded single-statement writes, the transition table, set queries | written by every other component |
| admission pass (`engine/admission.go`) | counts, candidates and reservations of the current pass, in memory | `Pass`, `processCandidate`, `release`, `requeuePendingSelection`, `PauseDiskFull` | rows, engine, lease |
| reconciler (`engine/reconcile.go`) | two listings of the current sweep, memo of owned handles | `Boot`, `Run`, `writeBack`, `routeDiskFull`, `resubmit` | rows, engine, lease, `PauseDiskFull` |
| bandwidth schedule (`engine/bandwidth.go`, `jobs/cron.go`) | the last applied mode; the parked set lives only in `task_events` | `EvaluateSchedule`, `ApplyMode`, `parkAll`, `resumeParked` | rows and engine, no lease |
| lifecycle actions (`api/tasks_actions.go`, `api/tasks_delete.go`) | the row loaded at the start of a request | pause, resume, remove, force_complete, recheck, queue moves, PATCH, DELETE | rows, engine; pause and PATCH take the lease |
| engines (`engine/engine.go`, `aria2/`, `qbittorrent/`) | the daemon's transfers | `Add`, `Get`, `List`, `Pause`, `Resume`, `Remove`, `SetFiles`, `SetRateLimits` | called by all of the above; stop and lose transfers by themselves |
| yt-dlp lane (`engine/ytdlp/`) | a record per task, a runner slot, child processes, one watcher each | the engine calls, kill and reap, exit classification | one mutex, released around every kill and wait |
| qBittorrent cache (`qbittorrent/sync.go`) | merged torrents, `rid`, ownership sets and epoch, resolved hashes to write back | poll, full and partial merge, ownership prepass, flush | daemon, task rows |
| job queue and workers (`store/jobs.go`, `jobs/worker.go`) | `jobs` rows: pending, running, done, failed; attempts | claim, complete, fail, recover at boot | handlers |
| post-processing (`jobs/postprocess.go`, `handlers_*.go`) | job rows, the task's extracting/moving/completed state, files | `OnCompleted` and its re-entries, extract, move, notify, hook, auto-remove | rows, jobs, filesystem, reconciler |
| live updates (`sync/`, `api/sse.go`, the web client's reducer) | the `rid` counter, a ring of deltas, a coalescing window, one buffer per subscriber, each client's copy | diff, publish, subscribe with a seed, evict, poll, reconnect | every row write |
| RSS (`rss/`, `store/feeds.go`) | feed rows with validators and a failure ladder, items, match rows, seen episodes, a watermark | poll, store, trim, evaluate, commit, hand over | creates tasks |
| submissions and watch folders (`api/tasks.go`, `jobs/watch.go`) | planned sources, rows with unique hashes, a loaded set per folder | plan, select, insert; scan, load, mark, unlink | rows, metadata from the engine |
| search and indexers (`api/search.go`, `jobs/handlers_search.go`, `store/indexers.go`) | search rows, pages, an in-memory tracker; indexer rows, the definition registry | fan out, store pages, close; create, patch, test, import wizard, seed | job queue, network |
| accounts (`api/auth.go`, `account.go`, `store/users.go`) | one user, sessions, tokens, two throttles | setup, login, rotate, revoke | every request |
| settings (`api/settings*.go`, `store/settings.go`) | key/value rows, categories, passwords, the schedule's grid | edit, export, import | one database connection |
| database file (`store/db.go`, `maintenance.go`) | the file, its WAL, backups, a process lock | open, migrate, back up, prune, restore | filesystem |

`PROJECT.json` lists all 31 components with their files, status and what is left out.

### What is hard about it

* **Four actors, one row, three disciplines.** The pass holds the lease across a dozen
  store and engine calls. Pause takes it too. Resume, remove, DELETE, the schedule, the
  write-back of the sweep and the disk-full reaction take none.
* **Two systems that cannot commit together.** A transfer exists at the engine before its
  handle is stored, and runs before the row says so; a payload is moved before the row's path
  says so; a task is created before the match row, the loaded set or the unlink says so. Each
  failure between the two needs an owner.
* **Old information.** Candidates are selected once per pass; the sweep compares an engine
  listing with a row listing read later; a poll writes back the validators of a row it listed
  before; a request works from what it loaded first.
* **Locks released in the middle.** The yt-dlp engine kills outside its mutex, the cache
  fetches outside its own, the wizard probes between two inserts.
* **State that is nowhere stored.** The applied schedule mode, the leases, the search
  tracker and the `rid` counter die with the process.
* **Interrupted files.** Moves, backups, migrations and restores are sequences of file
  operations, any of which may be the last before a kill or a power loss.

The 40 hazards in `PROJECT.json` list these places line by line, with the property that
covers each or the reason why none does.

### What makes each component correct

* lease: exclusion, no lease without a live owner, no live waiter out of reach of the next
  release, FIFO, every call returns;
* rows and admission: the mark exists only on queued rows; the limit is kept, a submitted
  transfer always has an owner, a selection lands before data, an answered pause is
  respected, every held task gets its turn, every path returns the lease;
* reconciler and schedule: engine state is adopted only where nobody else owns the row, a
  vanished transfer is submitted again once, what a cell parked comes back after it;
* jobs and chain: one run per job, no state without a job that will leave it, the tail after
  the work, no payload lost, replaced or misnamed;
* hub: a client that read everything shows the server's table;
* lane and cache: no process without its record, one settlement each; the cache is the
  daemon's last word about owned torrents;
* intake: a torrent is taken in once, nothing counts as taken in that was not, nothing
  dropped into a folder is lost;
* searches and indexers: an accepted search ends; the list holds what boots and wizards
  promised;
* accounts, settings, database: one operator and revoked sessions after a rotation, imports
  that do what they report, a whole database and whole backups after every interruption.

## 2. Modules and the code

```
TaskOpLock  <--refines--  TaskOpLease  <--  TaskOpLeaseProofs
                              (contract used as the variable `lease` below)
TaskStore <- TaskPlane <- Admission, TaskActions, Schedule, Reconciler <- TaskControl <- TaskControlProofs

JobQueue <- PostProcess <- JobHandlers <- WorkerPool <- JobProofs        TaskIntake <- WatchFolders <- IntakeProofs
YtdlpLane, QbtCache <- EngineProofs        FeedPoll, RuleGrabs, SearchJobs, IndexerRows <- DiscoveryProofs
Accounts <- AccountsProofs                 DatabaseFile <- DatabaseProofs
LiveUpdates  Accounts  YtdlpLane  SearchJobs  IndexerRows  DatabaseFile        -> MCServices
QbtCache  FeedPoll  RuleGrabs  WatchFolders  PortableSettings  WorkerPool      -> MCContent
                                                      MCServices, MCContent    -> MCProgress
```

### The task plane

**TaskOpLease** is `registry.go` one critical section per action. An element of `Acqs` is
one call of `AcquireTaskOp`; it stands for the call's token and for the `taskOpEntry` the
call allocates if the task has none, so identity of heap objects needs no counter.
`AcquireFree`, `AcquireBusy` and `AcquirePark` are the three outcomes of the first critical
section, `WakeReady` and `WakeCancelled` the two arms of the select, `ReleaseTaskOp` the
closure (which may be called again), `EndCtx` a deadline or a client that hangs up at any time.
**TaskOpLock** states what callers rely on: one owner per task, taken from nobody, passed on
or given up, never returned to a call that gave it up.

**TaskStore** turns each guarded SQL statement into an operator from row to row: a failed
guard returns the row unchanged. A row is `st` (state), `ref` (engine handle), `code`
(hold code), `pend` (`admission_pending`) and `ev`, the newest of the four event codes that
`queryListScheduleParked` reads.

**TaskPlane** holds what the actors share: `rows`, `xfers` (the engine's transfers by
handle), `lease`, and `faults`, how many engine calls and store accesses may still fail.
`Add` mints a fresh handle; `Pause`, `Resume`, `Remove` and the intent calls answer from
the transfer's state. `StrictEngine` makes pause and resume refuse the wrong state as aria2
does. `ReceiveMetadata`, `Finish`, `StopWithError` and `LoseHandle` are the engine's own steps.

**Admission**: `pass` is the program counter and the locals of `Admitter.Pass`. Every store
access and every engine call of `processCandidate`, `release` and `releaseFailed` is one
action with its failure branches, in the order of the code:

| code | actions |
|---|---|
| `Pass`: counts, candidates, walk | `PassCount`, `PassSelect`, `SkipCandidate`, `BeginCandidate`, `EndCandidate`, `PassDone` |
| gates and stamps | `Gate`, `StampHeld`, `Claim` |
| `release`, row with a handle | `Inspect`, `PauseForSelection`, `Intent`, `Resume` |
| `release`, submission | `Add`, `IntentNew`, `RecordHandle`, `RemoveStranded`, `ResumeNew` |
| `markReleased` and its failure | `MarkReleased`, `ClearHold`, `MarkPending`, `StopUnowned` |
| `requeuePendingSelection` | `RequeuePending`, `MarkRequeued`, `ResumeForMetadata` |
| `releaseFailed` | `ReleaseFailed` |

The space gate answers any of `SpaceAnswers`: nothing in the code constrains the filesystem
between two candidates.

**TaskActions**: one request of the operator at a time. Pause waits for the lease
(`PauseAcquire`, or `PauseExpires` after `pauseLeaseWait`), reloads the row, calls the
engine, moves the row and takes the guard's stamp off (`Takeover`). Resume is one write.
Remove, force_complete and DELETE drop the handle they loaded and end the row. `want` is a
history variable: the last request that was answered with success.

**Schedule**: a cell change, the two scans of `pausableTasks`, `parkOne` per task in any
order (engine, then row), and the release of the parked set. The mode is recorded only if
all of it succeeded.

**Reconciler**: the engine listing, the row listing, the write-back, the disk-full route into
`PauseDiskFull` (inlined, without lease), and the re-submission under the lease.

**TaskControl** interleaves them. A *scenario* says who takes part beside the pass, how many
requests and cell changes there are, how many calls fail and whether the process may die.
Before `booted` only the boot sweep runs, as in `NewServer`; `Crash` keeps rows and
transfers and loses everything else.

### The parts around it

Each part is a module with its own `Init`, `Next` and, where something must happen in the
end, fairness. A program counter and the locals of a handler are one record per goroutine;
each database statement, network call, file operation or critical section is one action,
with its failure as a disjunct of the same action. Budgets (`MaxFaults`, `dbLeft`, ...) bound
how often the environment interferes, never what the code does.

| module | state | actions, by the code they model |
|---|---|---|
| `LiveUpdates` | `rows`, `prev`, `ring`, `window`, `pending`, `subs`, `client`, `tick` | the loop's snapshot and publish (`Loop`), `hubFlush`, `Subscribe`, `Events`, the two reads of GET /sync, reconnects of a web client (probe, refetch, catch-up) and of a native one (`Last-Event-ID`), a restart |
| `Accounts` | `account`, sessions and tokens, `throttle`, one record per request | setup behind its lock and token file, login between the two throttles and the hash check, logout, tokens, PATCH /account as authenticate, revoke, write |
| `YtdlpLane` | `rec`, `live` (the runner's slot), `proc`, `caller`, watchers | `Add`, `Resume`, `Pause`, `Remove`, `Close` split where the mutex is released; lines, exits, stalled kills, `finishProc` |
| `QbtCache` | `cache`, `daemon`, `store`, `syncPoll`, `track` | prepass, request, reply, merge, ownership scan, flush of hashes with its budget, stop of a duplicate, forced full sync |
| `FeedPoll` | `feedRow`, items, one record per poller | list, claim in flight, fetch, 304, failure with its ladder, upsert, trim, state write, rule pass, each of which may fail and end the poll there; refresh, PATCH, DELETE |
| `RuleGrabs` | match rows, `seen`, `watermark`, tasks, one record per run | evaluate item by item, group by content key, record losers, queue, hand over, send or fail, fallback, cap and cooldown |
| `TaskIntake` | task rows with hashes, one record per submission | plan source by source, selection, insert with the unique index, metadata that resolves to a held hash, resume, remove |
| `WatchFolders` | directory, folder row, loaded sets, scanners | scan under the folder's lock, duplicate skip, create, mark, unlink, folder edits, a replaced file |
| `SearchJobs` | search row, queue row, handler, tracker, pages | POST in one transaction, claim, fan-out, store pages, deferred close (best effort), DELETE, prune, stop, boot recovery |
| `IndexerRows` | rows, registry, boot, one record per handler | create, patch (read, merge, write), delete, test with its two writes, definition upload, wizard, seeding at boot |
| `PortableSettings` | tables, the export and the import in progress; the links of the host are a constant | the seven reads, the import's members in one transaction, dry run, conflicts, rejections; PATCH (paths as spelled, password lists of any length), categories and folders (paths resolved), the schedule's pair |
| `DatabaseFile` | directory as seen and as on disk, lock, server, restore, snapshot writers | open, back up and migrate, commit, checkpoint, snapshot, sync, rename, prune, restore with staging and preservation; kill and power loss |
| `JobQueue`, `PostProcess`, `JobHandlers`, `WorkerPool` | job rows, task rows, files, one chain per actor, one handler per worker | claim, run, complete or fail; `OnCompleted` step by step; extract, move and webhook handlers with every crash point; shutdown, crash, boot recovery |

**One part per behaviour.** The parts share no state that these models keep (they meet
through task rows, which each sees through its own operations). `MCServices` and `MCContent`
therefore run one of six parts in each behaviour, chosen by `part` at the start, while the
others rest in an initial state: the reachable states are the sum of the parts' own and not
their product, and every property is checked on its part's complete instance.

Operators whose comment begins with *Mutant* are deliberate faults: each replaces the
definition after it, and TLC then finds the property violated. A safety property named
`...Safe` or `...Kept` is the conjunction of the named and commented parts before it.

## 3. Runs

| run | instance | checks |
|---|---|---|
| `lease` | 3 calls on 2 tasks, any context may end, double releases; 9,680 states | `MutualExclusion`, `NoStrandedLease`, `NoLostWaiter`, `NoOvertaking`, `ImplementsLock`, `CallsServed` |
| `plane_operator` | 2 tasks, limit 1, 2 pause/resume requests, 1 engine failure, all space answers, one selective magnet, both tasks possibly parked at start; 0.77 M | `AdmissionSafe`, `PauseSticks`, `OneTransfer` |
| `plane_faults` | the pass alone, 2 store failures or 1 engine failure, 3 handles, transfers that stop, fail or vanish, one task with a rate limit and one with a selection; 0.41 M | `StartsInTurn`, `TransfersOwned` |
| `plane_sweep` | pass and sweep, limit 1, a parked selective task, fair loops; 49 k | `StartsInTurn`, `EveryTaskFinishes` |
| `plane_one_task` | 1 task against operator, schedule, sweep, failures and a crash in five pairings; 1.24 M | `MarkOnlyQueued`, `LeaseOwned`, `ParkedReleased` |
| `services` | hub, accounts, lane, searches, indexers, database; 2.02 M | `HubSafe`, `AcctSafe`, `RotationRevokes`, `LaneSafe`, `SearchSafe`, `IxSafe`, `DbSafe`, `BackupsKept` |
| `content` | cache, feed, rules, intake, settings, jobs; 2.14 M | `QbtSafe`, `FeedSafe`, `GrabSafe`, `IntakeSafe`, `NoSelfCollision`, `WatchSafe`, `SettingsSafe`, `ImportRestores`, `JobsSafe`, `PayloadSafe` |
| `progress` | ten parts on smaller instances, with their fairness; 63 k | `ClientsFollow`, `EnginesFollow`, `JobsEnd`, `RssGoesOn`, `StoreReturns`, `DropsLoaded` |
| `plane_resubmit_race`, `plane_pause_parked`, `plane_partial_park`, `rss_lost_pass` | see findings | one violated property each |

*The properties of the task plane.*
`AdmissionSafe`: the set `CountActive` counts never exceeds the limit, although the pass reads
it once and spends it in memory, and a downloading task shows no hold code. `PauseSticks`: a
task whose pause was answered with success is not queued or started by anyone else.
`TransfersOwned`: no task has two live transfers (`OneTransfer`); a live transfer is the one
its row names, and a running one has a row that somebody still looks at (`NoOrphan`).
`StartsInTurn`: no transfer runs under a queued row without the mark (`NoUnownedRun`), and a
released selective task runs only with its selection applied (`SelectionFirst`).
`ParkedReleased`: once a downloading cell is applied nothing is left parked by the schedule.
`MarkOnlyQueued`, `LeaseOwned`: see the proofs. `EveryTaskFinishes`: with a limit of one, a
parked magnet that first needs its listing and a second task both complete.

*The properties of the other parts*, with what each could lose:

* `HubSafe`: a quiet connected client holds the published snapshot and its totals, through
  coalescing, eviction, reconnects from the ring or a seed and slow polls; no payload both
  patches and removes an id.
* `AcctSafe`, `RotationRevokes`: one account whatever setup calls race or fail half way; a
  source passes its throttle at most capacity plus one per interval; when the hash changes
  every other session that lived at authentication is gone.
* `LaneSafe`: a running child is the record's and the slot's; one settlement per process; no
  running record without process; a failed Remove gives the record back.
* `SearchSafe`: an unfinished search has a driver although its job has one attempt, unless the
  handler's own closing write or the boot's recovery failed (`searchLost`: both failures are
  only logged, `handlers_search.go:229` for the first, whose job is not tried again); one page per indexer; no engine shown done that has not
  answered.
* `IxSafe`: every bundled definition has its row, a finished wizard left every usable URL,
  none twice unless two wizards ran together; the private-network flag is the last decision;
  a row tested without error has its caps.
* `DbSafe`, `BackupsKept`: the live file is whole and exclusively used, only checked bytes are
  installed; backups are whole after a power loss, replaced data stays readable with its WAL,
  a reported backup goes only for newer ones.
* `QbtSafe`: no foreign or partial torrent is visible, no delta is skipped over, a duplicate
  counts as settled only when it stopped.
* `FeedSafe`: one fetch at a time, a 304 never hides an item, stored items are judged unless
  the pass failed or the poll that stored them ended before it (`abandoned`: a failed trim at
  `poll.go:258`, a failed state write at `poll.go:273` and `335`, or a process that died). `GrabSafe`: refused or interrupted hand-offs consume nothing, every task has
  its row, a key is grabbed again only at a better score.
* `IntakeSafe`, `WatchSafe`: one live row per hash; refused URIs stay out; a selection lands
  on one row; a dropped file is unlinked only for its own task and never loaded twice.
  `NoSelfCollision`: a submission whose sources name each torrent by one hash fails only on a
  duplicate that somebody else put there.
* `SettingsSafe`, `ImportRestores`: reports equal effects, a quiet export imports cleanly and
  with overwrite restores what it recorded, an exported schedule was committed as a pair,
  remembered passwords survive. Three things an export records do not come back as they were,
  and the properties say so: a `default_destination` that PATCH took for its spelling returns
  as the place it leads to, or is refused when that is outside the roots; a rate limit a
  float64 cannot hold returns rounded, or is refused at 2^63.
* `JobsSafe`, `PayloadSafe`: one runner per job; no row extracting or moving
  with nobody to move it on; one notification per completion of a moved task; a payload is
  removed only where the destination holds it or something alike, no taken name is written
  to; the tail waits for extraction and move (`TailAfterWork`). "Alike" is what the code
  compares: the size of a file, the names and sizes of a tree. That content so taken for the
  payload may not be it is noted with its location in section 4.
* `ClientsFollow`, `EnginesFollow`, `JobsEnd`, `RssGoesOn`, `StoreReturns`, `DropsLoaded`: what
  must happen in the end (clients catch up; exits are settled and the cache converges;
  searches end, but for one whose closing write failed, and the queue drains; feeds are fetched
  again and again; a run that began ends, and matched items are served as long as runs begin
  again and again; the database is served again and its connection returned; dropped files loaded).

*Bounds and why they are enough.* In the plane, two tasks and a limit of 1 are the least at
which one task waits for the other, a slot is contended, and the walk order matters.
`MaxHandles` is the number of submissions a behaviour may make: three allow each task one and
one of them a replacement. When none is left `Add` behaves like an outage,
which the code handles. Two requests are the least for pause followed by resume or a pause of
each task; two cell changes are one park and one release. Two store failures are needed to
reach `stopUnownedTransfer`. In the lease, three calls give one holder and two waiters, the
least at which order matters and an ended waiter can stand before a live one.

In the parts: one task with every field change, a ring and a buffer of two and three edits
make entries coalesce, evict and overtake a reconnecting client. Two requests, callers,
runners, scanners, workers or handlers are two actors in every interleaving. Two processes
per task are one kill and one respawn; one stalled kill and one progress line left in the
pipe. `Docs` republishes once with one item dropped and one added, against a cap of two
items. The catalogues hold two releases of one episode (one a repack), one hash twice, and
items that name neither, and two releases of equal score. The submissions cover hybrid torrents under either hash, one of them under both, remote and
refused links, uploads, search results and metalinks. The setups cover moves by rename and by
copy, a name taken by something else or by something alike, an archive in place, beside a directory of its name, and moved after
extraction, with and without auto-remove. The host of the settings has a data root reached
through a link, an alias inside the roots, a link that leaves them and a path outside. Budgets come in sets, one per kind of interference
(two snapshots and a power loss; a restore with a swapped source; a failing migration), so
that a behaviour is long in one direction at a time. Every action and every disjunct of each
next-state relation fires in some passing run.

*Deadlock* is checked in `lease` and in the plane, where it shows that no failure branch
leaves the pass without a next step. In the other runs it is off: when a budget is spent and
nothing is due a part really rests. That no goroutine waits for another for ever is there
said by the liveness properties.

*Fairness* is weak fairness of loops and of goroutines that are runnable, and is never put on
a request, a failure, a crash or an edit.

| run, part | fair | because |
|---|---|---|
| `lease` | both wake-ups, the release of a holder | a runnable goroutine runs; every caller in `src/` defers the release or calls it on the straight line |
| `plane_sweep` | pass, sweep; strongly: some transfer gets its listing or finishes | ticker loops; a transfer that is paused and resumed keeps its partial data |
| hub | loop, window timer, flush, subscribe, deliver, the end of a closed stream | a ticker, a timer and one goroutine per stream; `EventSource` reconnects by itself |
| lane | a caller's own steps, watchers, the exit of a killed process | SIGKILL after the grace period cannot be refused |
| searches, jobs | claim, the handler's steps, the end of a stopping process, boot | worker loops; the service is restarted by its supervisor |
| database | server steps, snapshot writers, a started restore; strongly: taking the lock | the supervisor restarts the server again and again |
| cache, feed | the poll loop, time; strongly: the periodic full sync and the job's pass | tickers that are due again whenever they were busy |
| rules | the steps of a run that began, never its beginning | straight-line code; a run begins only when a poll added items or the operator asks (`poll.go:282`, `grab.go:419`), so service of items is claimed under `RunsRecur` |
| intake, settings | the steps of a started scan, submission or import; the scan loop | straight-line code in a goroutine |

`MCProgress` repeats each module's fairness under `part = ...`: a part that rests owes nothing.

## 4. Findings

Each has a run in which TLC violates what a comment or a document of the repository says.

* **A release between the sweep's two listings is submitted twice** (`plane_resubmit_race`).
  `sweepEngine` lists the engine, then the rows. A task that the pass adds and marks
  downloading in between has a handle the older listing does not know, looks vanished, and
  is still downloading when `resubmit` re-reads it under the lease. `admission.go:192` calls the pass
  "safe to run concurrently with the reconciler".
* **A pause of a schedule-parked task is undone by the next cell** (`plane_pause_parked`).
  The row is already paused, so no `task.paused` event is written and the task stays in the
  schedule's parked set. `docs/06-download-engines.md:1279`: "a task the user paused stays paused".
* **A partly failed park is never released** (`plane_partial_park`). When one task of a No
  Download cell cannot be parked the mode is not recorded; if the cell ends before the retry,
  `ApplyMode` sees the old mode and returns at once, and the tasks it did park stay paused.
  `docs/02-requirements.md:635`: "resuming those it paused when the cell changes".
* **A failed rule pass is not repeated** (`rss_lost_pass`). The poll stores the items and the
  new validator, then runs the rules; an error there is logged. The next poll gets a 304, or
  a document that adds nothing, and runs no pass, so the items wait until the feed publishes
  something new. `rss/grab.go:421`: "the poller logs it and the next poll retries".

TLC finds more counterexamples with other constants. They are noted here or as hazards
with their location, not as findings, because no text promises the contrary, or the promise needs
another reading, or, for the two of the move handler, its comments are quoted here:

| what happens | constants |
|---|---|
| a resume of a downloading row requeues it, unmarked, over a running transfer (`NoUnownedRun`) | `plane_operator`, one resume |
| a fresh submission whose release write fails is marked but not spent; the same pass releases one too many (`LimitKept`) | `plane_operator` with one store failure |
| the retry of a marked row resumes a running transfer, aria2 refuses, and the row is errored over it (`NoOrphan`) | `plane_faults`, `StrictEngine = TRUE` |
| a crash between `Add` and the write of the handle leaves a transfer without a row (`OneTransfer`) | `plane_faults` with a crash |
| a crash between the engine's resume and the mark leaves an unowned run (`NoUnownedRun`) | `plane_faults` with a crash |
| DELETE takes no lease and races a submission (`NoOrphan`) | `OpKinds = {"delete"}` |
| the sweep's write-back, judged on an old listing, undoes a pause or fills a slot (`PauseSticks`, `LimitKept`) | sweep and one pause |
| the disk-full reaction re-stamps a row that the operator paused meanwhile (`PauseSticks`) | sweep, `"full"` and one pause |
| a release during the park's scans runs through the No Download cell | `plane_one_task` with a schedule and two tasks |
| a store and an engine failure in one submission strand the transfer (`NoOrphan`) | `plane_faults`, one of each |
| a native client that resumes after a restart with a `rid` the new counter has passed gets a delta of another history (`docs/05-api-contract.md:718`: the first message after a restart is a full update) | hub without the `crossed` exception of `ClientsConverge` |
| a poll whose trim or state write fails leaves what it stored unjudged while the feed adds nothing | feed, without `abandoned` in `StoredJudged` |
| a search whose closing write fails is never finished, its one attempt spent | searches, without `searchLost` |
| PATCH takes a link inside a root that leads out of it as `default_destination`; the import of the export refuses it | settings, without `Unimportable` |
| a login that read the old hash issues its session after the rotation | accounts, two requests |
| two overlapping PATCHes of one indexer: the later write revives what the first removed | indexers, without the exception of `PrivateDecided` |
| two wizards at once insert one base URL twice | indexers, without the exception of `WizardOnce` |
| a PATCH of a feed's url keeps the old validator until the next fetch | feed |
| a crash between the created task and the sent row grabs an item without hash again | rules, without the exception of `GrabbedOnce` |
| a stop of the process, or an adoption by the sweep, while a handler runs lets the tail start before the work ended | jobs, without the exceptions of `TailAfterWork` |
| foreign content of the payload's size, or of its names and sizes, at the destination is taken for the payload, and the source is removed (`handlers_move.go:179`, `466`; the comment at `157` promises a loud failure for "a different tree") | jobs, `PayloadKept` without the exception of `"alike"` |
| a removal of a delivered source that is cut short leaves a part of it, which no longer equals the destination: the next run ends the task in a collision (`handlers_move.go:184`, against the comment at `155`) | jobs, `PathTrue` without the exception of `"part"` |
| a notification of an extracted task is sent twice after a crash | jobs, without `OnlyMoves` |
| a submission that names one hybrid torrent by its v1 hash and again by its v2 hash plans both, and the second insert may fail on its own first row once the metadata landed; a link to a `.torrent` beside the torrent's magnet likewise | intake, `NoSelfCollision` without the condition `NamedOneWay` |

The passing runs therefore say what the code guarantees *within* their scenarios; the table
says at which step beyond them a guarantee ends.

## 5. Proofs

Eight modules, checked by TLAPS from nothing; nothing is taken on trust but the named
assumptions on constants, which TLC evaluates in the runs. Where a theorem and a run name the
same property, the run shows it on its instance and the theorem for every value of the
constants.

| module | theorem | property |
|---|---|---|
| `TaskOpLeaseProofs` | `TypeCorrect` | `TypeOK` (proved only, no run repeats it) |
| | `Exclusion`, `NeverStranded`, `NeverLost` | `MutualExclusion`, `NoStrandedLease`, `NoLostWaiter` |
| | `FIFO` | `NoOvertaking`, an action property |
| | `Refinement` | `ImplementsLock`, the registry implements `TaskOpLock` |
| `TaskControlProofs` | `MarkDiscipline`, `LeasesReturn` | `MarkOnlyQueued`, `LeaseOwned` |
| `EngineProofs` | `LaneStaysSafe`, `CacheIsHonest` | `LaneSafe`, `QbtSafe` |
| `AccountsProofs` | `AccountsSafe` | `AcctSafe` |
| | `RotationLocksOut` | `RotationRevokes`, an action property |
| `DiscoveryProofs` | `PollingIsSafe`, `GrabsAreSafe`, `SearchesAreSafe`, `IndexersAreSafe` | `FeedSafe`, `GrabSafe`, `SearchSafe`, `IxSafe` |
| `IntakeProofs` | `IntakeIsSafe`, `SweepsAreSafe`, `SubmissionsKeepApart` | `IntakeSafe`, `WatchSafe`, `NoSelfCollision` |
| `DatabaseProofs` | `DatabaseStaysWhole`, `BackupsAreKept` | `DbSafe`, `BackupsKept` |
| `JobProofs` | `JobsStaySafe`, `PayloadStaysSafe` | `JobsSafe`, `PayloadSafe` |

Each proof has the same plan: an inductive invariant that was first checked by TLC, a lemma
that `Init` establishes it, one lemma per action (or per small group of actions that write the
same record), frame lemmas for what an action leaves alone, and a last step of temporal logic.
A handler's record is moved by a lemma of its own (`CallMoved`, `ScanMoved`, `RunWritten`),
so that the lemma of an action only shows what is special about it.

**TaskOpLeaseProofs** (assumes only `NoneAssumption`: nil is neither a task nor a call), for
every set of tasks and calls. Exclusion is not inductive: a step of the release reads the
holder field, the table and the queue, so a state in which these disagree breaks it at once.
The invariant `IInv` ties them together: an owner's entry names it and the table names the
entry (`OwnersAnchored`), and conversely (`HoldersOwn`, `TableHeld`); queue members are parked
calls of that entry (`QueuedParked`), in token order (`QueueOrdered`, `TokensMinted`), and
every live waiter is among them (`LiveQueued`); a call not made yet is nowhere in the heap
(`IdleFresh`), which is what makes a fresh entry fresh; later calls have captured an entry
(`Captured`). Facts about queues (what a suffix and the removal of one element contain) are
lemmas of their own. `Refinement` uses the mapping stated with `INSTANCE TaskOpLock WITH`:
`owner` is the holder of the entry in the table, `released` the calls that gave the lease up.
It shows each step to be a `Take`, `Pass`, `Give` or a stutter.

**TaskControlProofs**, for every number of tasks and handles, every set of scenarios, any
number of failures and crashes. `MarkDiscipline` rests on one lemma per guarded write (each
keeps a row *well marked*: a full row whose mark implies queued) and on `WriteMarked`, that
writing such a row keeps the table so; each action then only cites the writes it makes. No
type of the actors' locals is needed: a write to an id outside the table changes nothing.
`LeasesReturn` splits the claim by owner. Each actor's lemma shows that its own steps keep
its own equivalence (a lease is mine iff I am at a step under it) and touch nobody else's
(`KeepsLeasesBut`); the sweep also needs that it names no current row between two rows.
The composition is then one step per actor. The governor and the engine change no lease; a
crash frees all and resets all.

**EngineProofs**, the media lane, for every number of callers, processes, lines and stalled kills. The
lane's claims speak of the record, the slot and the child; between a kill and its wait the
mutex is free and all three move. `LaneInv` adds what the code relies on there: a pointer
names a spawned process (`PointersSpawned`), whoever reaps or settles saw the exit
(`ReapersSawExit`), only a Remove may be without a process (`CallsShaped`), a settled process
is off the record for good (`SettledGone`), and a Remove in flight holds the record's claim
alone (`OneRemove`).

**AccountsProofs**, for every number of concurrent requests, capacity and back-off. `AcctInv`
says that whoever is inside setup is alone there (`SetupAlone`: the lock is held from the
check to the write), that the tokens of the throttle and what passed it balance per interval
(`BucketBalanced`), and that a rotating request past its revocation has left only its own of
the sessions it saw (`PatchRevoked`), from which `RotationLocksOut` follows in one step.

**DiscoveryProofs**, the RSS automation, for every sequence of documents, item cap and failure ladder, and for every
catalogue, cap, cooldown and number of runs. For the poller: a fetch in flight is alone
(`FetchAlone`), the tag of the copy a poller listed was honest and the document it is about to
record was stored (`CopiesHonest`), so the validator on the row is that of a document whose
items were stored (`ValidatorsHonest`). What is stored and not judged has a poll before its pass,
or one that ended early (`abandoned`). For the rules, until runs overlap or a crash tears
one (`torn`): there is one run (`RunAlone`), its candidates improve on every task their key has
had (`RunImproves`), and every task is remembered by a seen episode or by its sent row, but
for the one in hand (`TasksRemembered`).

**DiscoveryProofs**, the searches, for every set of indexers. A search that is not finished has a driver: a
queue row that can be claimed, a handler at work, or a running row that the next boot recovers
(`SearchDriven`), or its closing write failed (`searchLost`). It needs that a claimed job is run by its handler
(`ClaimedRuns`), that a page belongs to the current run (`PageOfRun`) and that the tracker
shows what the handler did (`TrackerHonest`).

**DiscoveryProofs**, the indexers, for every set of requests, provider, bundled documents and
user directory, and any number of handlers in flight. The handlers hold no lock, so `IxInv` says
what each may still rely on after the others wrote (`RequestSound`): a good outcome about to be
stamped is that of a row that has its caps (`ProbeSound`); every URL a wizard has behind it is
known to it, and a known URL has a row unless the request was told it went (`WizardSound`);
every row of another run is known to a run in progress or that run is its rival (`RunsSeen`).
`RowsMove` is what any write may do to the rows under a request in flight, and
`RequestSurvives` that nothing more is lost; each action then concerns only its own request. At
boot a loaded id is still to be seeded or has its row (`SeedsSound`).

**EngineProofs**, the daemon's cache, for every set of hashes, any duplicates and attempt limit. That no delta is
skipped over speaks of the cache between polls; what makes it true is what holds in flight: a
delta is asked for only from a cache that mirrors the daemon's last reply (`AskedSynced`), a
delta in hand leads from that mirror to the newer reply (`DeltaFits`), and both cease to
matter exactly when ownership moved, in which case the next request is a full one
(`EpochForces`, `WaitForces`). Lemmas say what a delta contains (`DeltaLeads`) and what
merging, scanning and publishing make of the cache.

**IntakeProofs**, for every set of torrents, submissions, requests, files and sweeps. One live
row per hash is inductive by the unique index and by the guard of the write-back. That a
selection lands on one row is not: it needs the life of a submission, whose number is its own
(`NumbersOwn`), which has no row while it is planned and no selected row while a selected
entry still waits (`SelectionAhead`), and whose target is never a blocked link (`TargetOpen`).
For the sweeps, the lock is held from the listing to the last unlink (`SweepsLocked`), so what
a sweep did not find in the loaded set is still missing when it creates the task
(`NotLoadedYet`), and the file it unlinks is the one it read or one dropped over it
(`FileKnown`). `MarkKeeps` is about the loaded set as a list: marking keeps its cap and
repeats nothing. `NoSelfCollision` is about a whole submission: what it plans is remembered
hash by hash, so two sources of one torrent are both planned only if neither carries a hash
(`PlannedApart`), the selection and the inserts keep that (`JoinedApart`, `RowsApart`), and a
row holds hashes of its own torrent only, whatever metadata landed: the row an insert fails on
is not apart from the refused entry (`HolderNotApart`), hence somebody else's. The condition
`NamedOneWay` is what the code needs: without it the second hash of a hybrid is not remembered.

**DatabaseProofs**, for every schema version, `Keep`, and any number of commits, snapshots,
restores, failures, kills and power losses. Neither property is inductive, for two reasons. A
power loss makes the directory what the disk was, so every promise about the directory is made
of the disk too (`DirShape`, `Kept`, `Reported`). And what a backup holds is settled long before
it is needed: the temporary file a writer synced is a copy of the live content, which cannot
change while the lock's owner waits for the writer (`CopyOfLive`); so at the first commit of a
migration what was found is in a backup in both places (`MigrationCovered`), and at the rename
of a restore what it replaces is (`RestoreCovered`; until its WAL is copied, the copy is the
newest backup and nothing else rests on it, `CopyInHand`). Retention is a CHOOSE of the newest
`Keep`: that such a set exists is proved by a well-founded order on subsets (`NewestExists`),
and that dropping the rest leaves `Keep` newer ones is a lemma about cardinalities.

**JobProofs**, for every set of tasks and workers, every mix of settings, every retry ladder and
any number of failures, crashes and shutdowns. The proof first replaces the sixty-odd
statements of handlers, chain, row writers and pool by thirty *step classes* that say what a
step knows and writes (`ExtractReads`, `MoveFiles`, `PassEnqueues`, ...); `NextEffects` shows
that every step of `Next` is one of them, and the invariant is then kept class by class. It has
five layers, each resting on those before it:

* `Owned`: a job that is run has one runner, its row is running with the attempts the runner
  claimed unless the task has gone, a worker's pass is over its own task, nothing runs before
  the pool has started. Here is why a recovery cannot give a job a second runner.
* `Filed`: what a handler has seen of the files at each step, hence that a source is removed
  only after the delivery, or before content the comparison took for it, and no taken name is
  written to.
* `Walking`: a handler about to end well has left no row in its state, so completing its job
  strands no row; together with the attempts in `Owned` this is `WorkHasJob`.
* `Ordered`: before the first finish nothing is enqueued, the first pass of the reconciler meets
  no job, and until the process is stopped the move comes after the extraction and the tail of
  the extraction's pass after the move: `TailAfterWork`, where `extractSettled` and
  `moveSettled` take a running job for the caller's own. `StalePathAway` is the same for the
  path: where a crash separated the rename from the write of the path, the row is not settled.
* `Counted`: a finished download is worth one notification, which is with the reconciler's
  pass, or with the move, or has been sent; a re-run of the move finds the source gone and the
  row out of moving, so it owes none.

*Assumptions on constants.* Bounds are natural numbers, caps and limits positive
(`AccountAssumption`, `FeedAssumption`, `GrabAssumption`, `SearchAssumption`,
`QbtAssumption`, `WatchAssumption`); catalogue and submission entries and the requests to
`/indexers` have the shape of what the parsers deliver, and an id or base URL is never empty
(`IxAssumption`). `IntakeAssumption` says two more things of a source, both from the code:
its hashes are those of its own torrent, and a link carries no hash and no manifest while it
is planned (`api/tasks.go:860`).
`PostProcessAssumption` gives the settings their types; a name that is taken at the destination
is one the payload is not yet under.

*What the proofs changed.* Four attempts failed for a good reason. Two candidates of equal
score for one key both survived in `RuleGrabs`, where the code keeps the newer one: the model
now breaks the tie, and a catalogue has one. A submission can collide with itself when it names a
hybrid torrent by different hashes: `NoSelfCollision` is now a property of its own, under the
condition that no two of its sources do so (`NamedOneWay`), and proved under it. The selection could land on a blocked row if a link's manifest were
known: the assumption above says it is not. The CASE of `MoveGet` had overlapping guards (a row
in any of three states whose payload has moved, and each of these states), of which TLA+ may
take either; the model now tests in the code's order.

*Only model-checked.* Liveness and fairness are outside the prover. So are properties that
hold only within a scenario or an instance (`AdmissionSafe`, `PauseSticks`, `OneTransfer`,
`TransfersOwned`, `StartsInTurn`, `ParkedReleased`): section 4 says at
which step beyond it each ends. `HubSafe` folds a sequence of deltas, an induction over data
that no installed prover can do; so do the reports of `SettingsSafe` and `ImportRestores`,
which fold the members of a document.

## 6. Assumptions and what is not modelled

* Each guarded write is one atomic step: `store/db.go` gives writers a single connection and
  every write is one transaction.
* One engine is registered and the total limit is the only one; per-engine and per-type limits
  are further counters of the same form. Handles are fresh per `Add`, as with aria2; a
  qBittorrent info hash names the same transfer again.
* One request of the operator is in flight in the plane. A failed call has no effect, except
  the release write, which may also land and report a failure, as its comment says.
* The stored selection and the rate limits are constants; PATCH is not an action of the plane.
* Default and Alternative cells are one mode; they differ in rates only.
* Wall-clock times are abstract: a pending job, a feed or a window falls due at any moment
  after it was set.
* One rule, one feed, one watched directory, one search and one yt-dlp task are followed:
  their tables and records are keyed by them and no operation reads across keys, apart from
  the info hash, which `TaskIntake` keeps for several rows.
* The filesystem of `DatabaseFile` writes directory changes in order, some of them late; a
  file that was not synced may be torn by a power loss.
* A source and a destination that are one file under two names (`os.SameFile`) are not
  modelled. A file at the destination that is alike is taken for a plain payload, not for an archive;
  a removal cut short is modelled for every payload, although a single file goes at once.
* A page, a caps document, a payload or a password is a value; what the network answers is a
  choice among the outcomes the code tells apart.

Not modelled: request building, parsing and response mapping (engine adapters, metainfo,
feeds, definitions, scraping), cryptography, HTTP policy and address classification,
the other keys of the settings endpoints, listings and paging, logging and metrics, the web client's
presentation, packaging. They are conversions or I/O without interleaving; where their result
decides something it is an input of a model. Of the modelled parts the reservation arithmetic
of the space gate, PATCH of a task, recheck, queue moves, the removal of data, the rates a
cell pushes, notification channels and the row pruning of maintenance are left out.

## 7. Plan

Done: the lease with its refinement and proofs; the task plane with admission, actions,
schedule, reconciler, crashes and two theorems; the thirteen parts around it, checked for
safety and, where something must happen, for progress; theorems for eleven of these parts.

Next, in this order:

1. Proofs: the parts of `SettingsSafe` that fold nothing; type
   correctness of `TaskControl`.
2. Abstract specifications for the hub (a client shows the table) and for the queue (each
   step of the chain once, in order), with refinements.
3. In the plane: PATCH under the lease, recheck and queue moves, reservations of the space
   gate as pure operators, and the composition of the plane with the chain's `completed`.

Run with `tlc -config MCServices.cfg MCServices` (likewise the others) and
`tlapm TaskControlProofs.tla` (likewise the other proof modules).
