# A verification of db-mock

db-mock deploys and operates throw-away databases on Docker hosts over SSH. A Go
service keeps its state in PostgreSQL, runs every operation as a row of a task
table, and a React frontend talks to it. This directory holds TLA+ models of the
parts, of the service and of the browser, where steps of several actors interleave, the TLC configurations that check
them, and theorems about them that TLAPS proves for every value of the constants.

Paths below are relative to `src/`; `internal/` stands for `backend/internal/`, and
`pages/`, `lib/`, `components/`, `contexts/` and `layouts/` are under `frontend/src/`.

## 1. Inventory

| Component | State | Operations | What is hard | What makes it correct |
|---|---|---|---|---|
| **Task queue** `internal/tasks/manager.go`, `internal/store/tasks.go`, `store/task_cancellation.go` | `tasks` rows (status, stage, cancelable, cancel asked, attempts, origin); goroutines of the manager | create, retry, cancel, claim, advance a stage, finish, shut down, start (interrupt running rows, retire old kinds, start workers) | claims are multi-statement READ COMMITTED transactions; a cancellation races a stage; calls to the database are lost; crashes; the final write has no guard | one running task per host, one active task per resource, at most one execution per row, a sealed stage is never canceled, accepted cancellations are honoured, everything queued is served |
| **Instance service** `internal/instances/service.go`, `store/instances.go` | `instances` row (status, desired state, restart failures), directory and containers on the host | create, start, stop, restart, delete, retry, cancel; a handler per kind with a deferred recovery | each handler is a sequence of writes, remote commands and stages, and may stop at any; cancellations are prepared from reads outside their transaction | an operation status is always explained by a task; a canceled task has touched nothing; a deleted database left nothing behind |
| **Monitor** `internal/monitor/monitor.go` | none of its own; a snapshot per check | probe the hosts, compare containers with rows, write status, restart up to three times | works beside the tasks without a lock, on rows read before | noticed drift, capped restarts, no interference with tasks |
| **Host service** `api/hosts.go`, `internal/hostops/service.go`, `store/hosts.go` | `hosts` row (connection, key, credential, data root, port pool, measured capacity) | register, change, delete, probe | requests read a row, connect over SSH for seconds, and write in a later transaction; two kinds of probes write by id | what is stored was verified together; hosts outlive their databases and probes |
| **Placement** `instances/service.go` `selectHost`, `store/instances.go` `CreateInstanceTask` | the reservations implied by `instances` | choose host and port, admit | two requests compete for the last port or capacity; the host changes in between | ports exclusive and in the pool, admission only within capacity |
| **Docker operations** `internal/hostops/docker.go` | `compose.yaml`, managed-file manifest | write project, up, start, stop, restart, down, remove, observe | commands end in the middle; states are read in pieces | modelled as effects in the lifecycle |
| **SSH runner** `internal/hostops/ssh.go` | none | connect with host key check, run, replace a remote file | replacement in several remote steps | steps that fail, or happen in part |
| **Host verification** `api/host_verification.go`, `lib/host-verification.ts`, the form in `pages/HostsPage.tsx` | a sealed token of ten minutes; the form | test, issue, compare, save | the form changes during a test, the host between test and save | what is saved was tested |
| **Startup** `backend/cmd/dbmock/main.go` | order of recovery | migrate, interrupt, retire, serve | crash between the steps | in TaskQueue |
| **Sessions** `internal/auth`, `api/auth.go`, `store/users.go`, `contexts/`, `App.tsx`, `layouts/AppLayout.tsx`, `lib/api.ts` | `sessions`; who the browser believes is logged in | set up, log in, log out, change the profile and the password | a session ends elsewhere; answers late or lost; a 401 of any call logs out | no page stays up for long without a session; the gate before the pages opens |
| **Retry evidence** `lib/task-retry-request.ts`, `lib/use-task-retry-request.ts`, `components/TaskRetryRequestRecovery.tsx` | the failure shown, the list read last | submit, read evidence, offer again | lost answers, gateways, late and short lists, two clocks | no retry beside the task the first one created |
| **Deletion dialog** `components/InstanceCleanupReview.tsx`, `lib/instance-delete.ts` | the review, the confirmation, the locks | read, confirm, delete a backup or the database | reads overlap, the dialog closes and opens under them | nothing is sent again without new evidence |
| **Databases page** `pages/InstancesPage.tsx` and its `lib/` | drawer, draft, failed creation, row dialog, alert, copy | create, act on a row, hand over a connection | refreshes overlap; copies and alerts are overtaken | no failure waits for ever; an overtaken copy changes nothing |
| **Database page** `pages/InstanceDetailPage.tsx` | tab, credentials, logs, locks | operate, cancel, retry, read credentials and logs | one lock for all operations; late answers on another tab | locks are released; credentials cleared |
| **Hosts page** `pages/HostsPage.tsx` | drawer, recovery, deletion | probe, retry, recover, delete | context of the host opened before | locks are released |
| **Tasks page, workbench** `pages/TasksPage.tsx`, `pages/DashboardPage.tsx` | what was read last, locks | open, cancel, retry, refresh | late details, overlapping loads | locks and placeholders are released |
| **Rules of the browser** `lib/task-state.ts`, `task-recovery.ts`, `task-failure.ts`, `host-capacity.ts`, `deployment-continuation.ts` | none | what may be retried, canceled, recovered, placed | – | used by the pages |
| Templates, vault, settings, audit, wording, scripts | – | rendering, encryption, parsing, display | – | not modelled: pure functions, I/O or wording |

Interactions: the API validates on reads and then calls one store transaction; the
store wakes the manager; workers claim rows and call the handler registered for the
kind; handlers call Docker operations over SSH and write the instance row; the
monitor writes the same rows and calls the same operations; the tasks of one host
are serialised by `ClaimTask`, the monitor is not. The browser calls the API, reads lists
and tasks again at intervals and after whatever it does, and keeps what it read last;
nothing tells it that an answer is older than another.

The hazards these behaviours expose, each at its line, are listed in
`PROJECT.json`; the properties below are aimed at them.

## 2. Modules

| Module | What it is | Code |
|---|---|---|
| `TaskTable` | abstract: what the task table promises, without workers, locks and transactions | – |
| `TaskQueue` | the table and the workers of a process | `tasks/manager.go`, `store/tasks.go`, `store/task_cancellation.go`, `cmd/dbmock/main.go` |
| `InstanceLifecycle` | one database with its clients, worker, monitor and environment | `instances/service.go`, `store/instances.go`, `monitor/monitor.go`, effects of `hostops/docker.go` |
| `Placement` | hosts, probes and the placement of databases | `api/hosts.go`, `hostops/service.go`, `store/hosts.go`, `selectHost`, `CreateInstanceTask`, `checkHost` |
| `RetryRequest` | the retry hook of the browser and the tasks table | `lib/task-retry-request.ts`, `lib/use-task-retry-request.ts`, `store/tasks.go` |
| `Session` | a browser tab and its sessions | `contexts/`, `App.tsx`, `pages/AuthPages.tsx`, `layouts/AppLayout.tsx`, `lib/api.ts`, `internal/auth`, `api/auth.go`, `store/users.go` |
| `HostEditor` | the form of a host, and the requests behind it | `pages/HostsPage.tsx`, `lib/host-verification.ts`, `lib/deployment-continuation.ts`, `api/hosts.go`, `api/host_verification.go` |
| `HostDetails` | the drawer and the deletion of a host | `pages/HostsPage.tsx` |
| `InstanceCreation`, `QuickHandoff`, `RowActions` | the databases page | `pages/InstancesPage.tsx`, `lib/instance-create-recovery.ts`, `lib/host-capacity.ts`, `lib/instance-handoff.ts` |
| `InstanceConnection`, `InstanceActions` | the page of one database | `pages/InstanceDetailPage.tsx` |
| `CleanupReview` | the deletion dialog | `components/InstanceCleanupReview.tsx`, `lib/instance-delete.ts` |
| `TasksPage`, `DashboardPage` | the tasks page, the workbench | `pages/TasksPage.tsx`, `pages/DashboardPage.tsx`, `lib/dashboard-attention.ts` |
| `TaskRules` | what the pages conclude from a task; extended by them | `lib/task-state.ts`, `lib/task-recovery.ts`, `lib/task-failure.ts` and others |
| `Browser` | `RetryRequest` and the ten parts of the pages, together | – |
| `MCTaskQueue`, `MCInstanceLifecycle`, `MCPlacement`, `MCBrowser`, `MCConnection` | small instances for TLC | – |
| `TaskQueueProofs` | theorems about `TaskQueue`: the claims and the hosts; the table, its refinement and the handlers | – |
| `InstanceLifecycleProofs`, `InstanceTaskProofs` | theorems about `InstanceLifecycle`: the inductive invariant; the tasks, the row and the host | – |
| `PlacementProofs`, `RetryRequestProofs`, `HostEditorProofs`, `SessionProofs` | theorems about the module of that name | – |
| `BrowserProofs` | theorems about `Browser`: every page that is mounted | – |

`TaskQueue` and `InstanceLifecycle` both implement `TaskTable` through a refinement
mapping (`Table == INSTANCE TaskTable WITH ...`, checked as `ImplementsTable`). The
operators whose comment begins "Mutant:" are broken variants
of the definition after them; `PROJECT.json` lists which property each of them
violates. They are not part of any specification.

### TaskQueue

`task` is the table, `phase` the process (`down`, `recovering`, `up`, `stopping`),
`pc`, `cur` and `outcome` the workers, `lost` the rows whose claim reply or final
write was lost, `failures` the budget of outages. A claim is four actions, because it
is four statements whose interleaving matters: `PickTask` (`FOR UPDATE SKIP LOCKED`),
`LockHost`, then `HostBusy` or `HostFree` (the second look under the host lock), then
`CommitClaim`. Locks are derived from the `pc` of the transactions that hold them, so
that `AbortClaim` and `Crash` release them. `StageAdvance` and `StageRefused` are the
two outcomes of `AdvanceTaskStage`; `HandlerSucceeds`, `HandlerFails` and
`HandlerStopped` the three ways a handler returns, `FinishTask` and `LoseFinish` the
unguarded final write and its loss. A start is `InterruptRunningTasks`, one
`RetireTask` per queued row of a retired kind, `StartWorkers`; a crash may cut it
anywhere. Handlers are abstracted to `StagePlan`, the sequence of the cancelable flags
they pass; `Skippable` names the one kind that may succeed before its first stage
(`handleBackupDelete`).

### InstanceLifecycle

`inst` is the row, `files` and `box` the directory and the containers, `task` the
tasks of the instance, `worker` the handler in progress, `request` an action validated
but not yet queued, `plan` a recovery prepared for a queued cancellation, `poll` the
monitor's check, `up` the process. Since the tasks of an instance share its host, one
worker is enough (`TaskQueue!HostExclusive`). Each handler is a row of `Program`, a
sequence of marks, stages, effects and a commit; its steps are the actions `Load`,
`Mark`, `Stage`, `RunEffect`, `WriteProject`, `RemoveProject`, `Verify`, `Commit`, and
`StepFails` may end it at any step. A failed handler runs its deferred recovery
(`Recover`), which may itself be lost. An effect that fails, or that a crash cuts off,
may have happened in part (`Partly`). A check of the monitor is `Observe` (containers),
`ReadRow`, `Reconcile` (write), `CountRestart`, `AutoStart`/`AutoStartFails`, `GiveUp`.

### Placement

`host` and `instance` are the tables, `probe` the active `host.probe` task of a host
with the row it has read, `request` what an API request has read, `poll` the monitor's
probe with the row it was started for. A request is a read (`ReadForProbe`,
`ReadForUpdate`, `SelectHost`) and, any time later, its transaction (`InsertProbe`,
`UpdateHost`, `CreateInstance`) or its end (`Reject`). The transactions are one
action each: `CreateInstanceTask` and `UpdateHost` are SERIALIZABLE and hold the host
row, `DeleteHost` holds the host row and takes a new snapshot per statement, and
inserting a task takes a key-share lock through its foreign key. `UpdateHost` can take
its snapshot while a probe is being inserted and not see it; the probe cannot be
claimed before the host row is released, so that is the order `UpdateHost`,
`InsertProbe`. CPU, memory and disk are one quantity. An SSH address, with port and user, reaches a
machine; `KeyOf` gives the machine's host key, and several addresses may reach one
machine. Whoever connects to a host that is stored compares the key (`Trusted`,
`Tested`). Settings are address, data root and port pool; which machine the stored
credential was entered for is not kept. `Revive` is the write of a retried task on a
deleted row, which `InstanceLifecycle` shows possible.

### RetryRequest

`rows` is the tasks table with the server's clock `now`, `req` every retry that was
sent, `failure`, `items`, `refreshing` and `submitting` what the hook keeps. A retry is
`Request` (the click, with the browser's time), `Serve` or one of the `Refusals` (the
server, at any later time, also after the browser has given up), `Accepted` or `Failed`
(the answer, or what the browser sees of its loss), `ReadList` and `Evidence` or
`EvidenceLost` (the list that is read after a failure). `Refresh`, `RefreshList`,
`Refreshed` are the button of the panel. `Phase` is `taskRetryRequestEvidence`.
`Elsewhere` is another tab. A list shows the newest `ListLimit` tasks. With `Gateway` a
proxy may answer for the server with an error that looks like a refusal.

### Session

`configured`, `issued`, `live` are the server, `cookie` the browser's, `calls` what is
in flight, `user`, `loading`, `initialized`, `expired` the state of `AuthProvider`,
`loaded` that of `SystemSettingsProvider`, `page` and `dialog` what is shown. A call is
sent with the cookie of that moment, answered (`Serve`, `Refuse`) and handled (`Handle`,
by the handler of its operation) at any times later; `lost` answers run the handler's
error path. `Revoke` ends the sessions from elsewhere or by age. `Gate`, `Mounted` and
`AuthPage` are the three things `App` shows.

### The pages

Each part has its own module, since parts of a page share no state. What a list or a
resource may say when it is read next is any of a small set of values (`Newest`,
`Reported`, `Statuses`): the server and other tabs may have done anything in between.
Requests and reads are in flight until their answers are handled, in any order; one
that the user can start again while it is under way is counted, up to a bound. Operations
on a host (`HostDetails`) are in slots, of which each holds one of any kind, since another
retry may be sent while a first one settles; the retries of row actions (`RowActions`) are
counted, since only the task that is being retried cannot be retried again.
`HostEditor` has the server's side too, since its property is about what is stored: a
save is read, compared and written in steps (`ReadHost`, `WriteHost`), goes on when the
page has given its answer up, and another tab saves as well (`Elsewhere`); `proven`
remembers which connection a test succeeded for. `InstanceCreation` is left for the
hosts page and comes back (`Mounted`); its capacity is one quantity, of which a host has
some amount free (`CanAccept`).

`Browser` mounts one of the eleven parts in each behaviour and leaves the others still: the
states add up instead of multiplying, which loses nothing as the parts share no state.

## 3. Runs

Passing runs:

| Run | Configuration | Bounds | Shows |
|---|---|---|---|
| `queue_safety` | `TaskQueue.cfg` | 2 workers (symmetric), 3 resources on 2 hosts, `MaxTasks` 3, `MaxLegacy` 2, `MaxFailures` 1 | `TypeOK`, `HostExclusive`, `ResourceExclusive`, `ExecutedOnce`, `SealedStage`, `CancelHonored`, `RetiredDrained`, `LineageRooted`, `WorkerOwnsRunning`, `EndedFinal`, refinement of `TaskTable` |
| `queue_liveness` | `TaskQueueLive.cfg` | `MaxTasks` 2, `MaxLegacy` 1, `MaxFailures` 1, no symmetry | `QueueServed`, `RunningEnds` |
| `instance_safety` | `Instance.cfg` | 1 client, all actions, `MaxTasks` 3, `MaxFaults` 1, monitor off | `TypeOK`, `OpStatusExplained`, `CanceledUntouched`, `RemovedClean`, `AdmittedOnly`, refinement of `TaskTable` |
| `instance_monitor` | `InstanceMonitor.cfg` | restart, `MaxTasks` 2, `MaxFaults` 1, monitor on, fair | `RestartCap`, `DriftNoticed`, `CancelRestores` |
| `placement_safety` | `Placement.cfg` | 1 host, 2 databases, 2 requests (symmetric), 2 addresses of one machine and 1 of another, pools {1} and {1,2}, sizes 1 and 2, capacities 1 and 3, `MaxRevivals` 1, monitor on | `TypeOK`, `PortExclusive`, `PortInPool`, `HostKept`, `ProbeHasHost`, `KeyMatchesAddress`, `AdmittedFits`, `SettingsHeld` |
| `browser_pages` | `Browser.cfg` | `RetryRequest`: 1 resource, `MaxTasks` 2, `MaxRequests` 2, `MaxTime` 1, `ListLimit` 2, `Skew` 1, `Tolerance` 1; each page: 1 or 2 items, 1 or 2 reads of a kind under way, 2 operations on a host, a refresh of the retry panel counted, and 2 retries from the rows (`MaxWork`) (`MCBrowser.tla`, `Browser.cfg`) | `PagesTypeOK`, `SuccessorRecognised`, `SavedVerified`, `HandoffCurrent`, `NeverStuckChecking`, `ActioningReleased`, `ReviewedSinceFailure` |
| `browser_session` | `Session.cfg` | 2 sessions, 2 calls in flight, fair | `TypeOK`, `GhostEnds`, `GateOpens` |

Why the bounds are enough. Queue: two workers and two tasks of one host are what a
claim race needs, the third task gives a retry of a canceled or interrupted one, two
legacy rows give one running and one retired, one failure can fall anywhere,
start-up included. Instance: three tasks give an action, its retry and a later action
of another kind; one fault (a crash, a shutdown, a lost recovery write or a container that
fails) can come at any point of them, beside the failing steps of handlers, which are not
bounded. The cap of restarts needs one failure, whose restarts fail again. Placement: two requests give every pair
of read and write; one host is enough because no transaction reads two; the pool of one
port makes the last port, the capacity 1 and sizes 1 and 2 the last capacity. The
three addresses make a change between ways to one machine and one between machines. The
monitor is off in `instance_safety` because `RemovedClean` fails with it (below), and because
the monitor's steps beside all four kinds of actions are more states than a run of a few
minutes can see; the theorems on the properties of this run, `RemovedExceptRestarts` in the
place of `RemovedClean`, hold with it. `instance_monitor` has the monitor beside restarts.

Browser: in `RetryRequest` a second request and a second task are what confusing one
attempt with another takes, and one tick with `Skew` 1 makes the clocks disagree by just
what is tolerated; `Gateway` is off in the run because its refusals only add states, and
the theorem holds with it. In the pages, two items or two reads are enough for one to
overtake the other, which is all that the properties depend on; three connections in
`HostEditor` give two of one machine and one of another. In `Session`, two sessions give an
answer of an old one that arrives under a new one.

What the properties say. `CancelRestores`: canceling an action that is queued gives the
database the state in which it was asked for, and a row that still shows the action falls
back to nothing else; the monitor, whose check may have begun before, can have overwritten
the action's status with its verdict (`Verdicts`), which then stays, since the recovery of a
row that no longer shows the action is the row's own state. `SuccessorRecognised`: no retry is offered beside the task that the
failed request created, once a list that was read shows it. `SavedVerified`: what is stored
as a host's connection was tested for it. `HandoffCurrent`: the dialog shows nothing of a
copy that was overtaken. `NeverStuckChecking`: a failed creation that is being checked is
being checked by a refresh under way. `ActioningReleased`: a page that is locked by an
operation has one under way; that one operation may release the lock of another is what the
code does. `ReviewedSinceFailure`: no deletion is sent after a failed one before a review that
ended since, be it one that began before. `GhostEnds`: a tab that shows a page that reads at
intervals without a session is found out. `GateOpens`: the page is not for ever behind the
placeholder.

Runs that TLC finds violated, each a disagreement between the code and what a document,
comment or test says of it:

| Run | Property | What happens |
|---|---|---|
| `canceled_retry_stuck` | `CanceledLeavesStable` | the queued retry of a task whose first attempt lost its recovery is canceled, and the database stays in the operation status |
| `retry_after_delete` | `DeletedFinal` | a task that failed before its database was deleted is retried and writes the deleted row |
| `monitor_starts_deleted` | `RemovedClean` | an automatic restart decided before a delete runs between `down` and the removal of the directory |
| `stale_data_root` | `DirectoryUnderRoot` | the data root changes between the choice of a host and the placement; the directory lies outside it for ever |
| `late_credentials` | `ClearedOffTab` | the credentials arrive after the user has left the tab that clears them, and are kept |

`CHECK_DEADLOCK FALSE` is set everywhere: with the bounds on tasks, outages and ids
spent the models really stop.

## 4. Fairness

`FairSpec` of `TaskQueue` has weak fairness of each worker's claim and run steps, of the
end of a process that is stopping and of the start. The code justifies it: a worker
polls every second whether or not it is woken (`tasks/manager.go:145-158`; the channel that
wakes it only shortens the wait and is not modelled); dialling a
host, the monitor's probe and every recovery or final write have a deadline
(`hostops/ssh.go:76`, `hostops/docker.go:48`, `tasks/manager.go:248`), while a handler's remote
command has none: that a run ends assumes that the remote commands it waits for do; and `deploy/compose.yaml` restarts the service unless it
was stopped (`restart: unless-stopped`). Requests, retries, cancellations, crashes and
lost calls are never owed. `QueueServed` and `RunningEnds` make an exception for rows in
`lost`: a lost final write keeps its host blocked until a restart, which is what the code
does.

`FairSpec` of `InstanceLifecycle` has weak fairness of the worker, of the monitor
(`monitor/monitor.go:30-46`, a timer), of containers that finish booting, and of the
restart.

`Fairness` of `Session`: every call ends and its handler runs (weak fairness per kind of
call: `fetch` settles, and `lib/api.ts` always returns or throws); a page with an interval
goes on reading (`setInterval` in `pages/TasksPage.tsx`), and of the reads it goes on
sending some are served and some of those answered (strong fairness): a network that
loses every single answer is not assumed. Nothing of the user is owed. The other parts
of the browser have no liveness properties and no fairness.

## 5. What is proved

`TaskQueueProofs`, for any numbers of workers, hosts, resources, kinds, tasks and
failures, from `ConstantsOK` alone of the assumptions on the queue's constants:

- `TypeCorrect`: `Spec => []TypeOK`
- `HostExclusion`: `Spec => []HostExclusive`
- `ExecutesOnce`: `Spec => []ExecutedOnce`

`HostExclusive` is not inductive: that a claim has looked must mean something until it
commits. The inductive invariant `IInv` adds who holds which row (`Holds`, `HeldOnce`),
that the host lock excludes and that what was checked under it stays true
(`LockedHosts`), that the row of a lost call is running (`LostRun`), that attempts count
claims (`Attempts`) and that a process which does not serve has no worker at work
(`Quiet`). The proof has one step per action; actions that leave most of the table alone
go through general lemmas. `Invariance` is `Spec => []IInv`.

The same module, of the table and the handlers, from the same assumption:

- `ResourcesExclusive`: `Spec => []ResourceExclusive`; `LineagesRooted`:
  `Spec => []LineageRooted`; `EndedStays`: the action property `EndedFinal`
- `Implementation`: `Spec => ImplementsTable`, the refinement of `TaskTable`
- `RunningOwned`, `RetiredGone`, `StagesSealed`, `CancellationsHonored`:
  `WorkerOwnsRunning`, `RetiredDrained`, `SealedStage`, `CancelHonored`

Every step of the queue is classified once (`TableSteps`): it leaves the table alone, adds
the first free row for a request or a retry (`Enters`), moves one row that has not ended
(`Advances`), or interrupts all running rows. What `TableInv` adds is that the rows that
exist are the first ones (`Dense`), from which a retry is newer than what it repeats. That
a claim begins a task only where its host is free is `LockedHosts` of `IInv`; with it each
of the four kinds of steps is a step of `TaskTable`, or a stutter.

For the handlers, `HandlerInv` adds what the properties rely on across steps: nothing runs
between the interruption and the start of the workers (`NothingRecovers`), so no running
row is left without a worker; the window of an active row is open only where its stage
leaves it open, and a pending cancellation is that of a running row with an open window
(`Window`); and a handler that returned without an error has passed its last stage, or had
nothing to do (`Succeeding`). The last stage of every plan closes the window
(`PlansEndSealed`, which the cancellation alone needs), so a handler that succeeds has met no
cancellation.

`InstanceLifecycleProofs` and `InstanceTaskProofs`, for any number of clients, tasks and
faults, any subset of the actions, with or without the monitor and automatic restarts,
from `InstanceConstants`:

- `TypeCorrect`: `Spec => []TypeOK`
- `OperationsExplained`: `Spec => []OpStatusExplained`
- `CanceledTouchedNothing`: `Spec => []CanceledUntouched`
- `RestartsCapped`: `Spec => []RestartCap`
- `ActionsAdmitted`: the action property `AdmittedOnly`
- `Implementation`: `Spec => ImplementsTable`, one resource on one host
- `CancellationRestores`: the action property `CancelRestores`
- `RemovalRestartedOnly`: the action property `RemovedExceptRestarts`, which no run checks:
  it says what a deletion guarantees although `RemovedClean` fails with the monitor

`IInv` says that one task is active (`OneActive`), that a busy worker holds it while the
process lives (`WorkerHolds`), where the handler is and what it knows there (`Position`:
once the row was loaded the state before is a stable one, so that a recovery leaves no
operation status, and neither does a success), and what requests and recoveries in flight
were decided on (`RequestValid`, `PlanValid`): they are used after the row they were read
from may have changed. Above it:

- an operation status is explained because every step that writes one has, or makes, an
  active task of that kind, and a task that explains it stops doing so only by succeeding,
  where `Position` says that the status is gone;
- `RestartCap` needs to know what the monitor knows while it decides (`Counted`): between
  its reading and its counting tasks can only lower the failures of the row;
- `CanceledUntouched` needs that nothing is touched before the first stage that closes the
  window (`FirstSeal` of the kind), and that after it no cancellation is pending or possible
  (`WorkerUntouched`);
- `CancelRestores` follows from what every queued action carries (`PrevStable`), that while
  it waits the row shows its operation or a verdict of the monitor (`WaitingShown`: no task
  runs then, requests are refused, and what the monitor writes is one of `Verdicts` whatever
  row it had read, `MonitorWritesVerdict`), and that the prepared recovery is the state the
  action carries (`PlanRestores`);
- `RemovedExceptRestarts` from where the handler of a deletion is (`DeleteStep`,
  `DeleteProgram`): it passes `down` only with the containers gone (`PassesDown`), it passes
  `remove` only with the directory gone (`Removing`) and nothing writes it again, and past
  `down` no step of another party but the monitor's automatic restart brings containers
  back (`GoneAfterDown`), as the deletion holds the one worker of its database. That the
  restart does is the case of `monitor_starts_deleted`.

None of these theorems assumes anything of the monitor: it decides on a row it has read and
writes, counts or starts in later steps without looking again.

`PlacementProofs`, for any numbers of hosts, databases and requests and any pools,
sizes and capacities, from `PlacementConstants`:

- `TypeCorrect`, `PortsExclusive`, `PortsInPool`, `HostsKept`, `ProbesHaveHosts`: the
  invariants of `placement_safety`
- `SettingsStay`: the action property `SettingsHeld`
- `KeysMatch`: `Spec => []KeyMatchesAddress`, with the monitor
- `AdmissionFits`: `Spec => AdmittedFits`

The inductive invariant is the conjunction of these invariants: that a change of the pool
keeps `PortInPool` needs the types, that a deletion keeps it needs `HostKept`, and that a
probe which ends keeps `HostKept` needs `ProbeHasHost`. `KInv`, for the keys,
adds that a change under way, a running probe and a poll of the monitor carry the key the
host has for as long as it is there (`KeyRead`, `ProbeKey`, `PollKey`, over `KeyOfHost`).
A test is made against the stored key, so all addresses that a host ever has reach one
machine, whose key every late write repeats.

What is used on a host is a sum that `MapThenSumSet` folds over its databases, and
`AdmissionFits` needs that one database more makes it larger by what that one reserves
(`TotalOneMore`). The prover has no induction over sets, so the lemmas on sums take the
smallest set that fails instead (`MinimalSubset`, from the library's proof that strict
inclusion of finite sets is well-founded): every finite set has a sum (`AddsExists`), which
depends only on the values at its elements (`AddsAgree`), is a natural number (`AddsNat`),
and from which any element may be taken out first (`AddsAny`). The databases are not
assumed to be finitely many: a step writes one new row at most (`FiniteStep`).

`RetryRequestProofs`, for any resources, tasks, requests, list limits, clocks and with or
without gateways, from `RetryAssumption`:

- `TypeCorrect`: `Spec => []TypeOK`
- `RetryRecognised`: `Skew <= Tolerance => (Spec => []SuccessorRecognised)`

The panel keeps a list that was read once and compares it with the rows as they are, so
the property alone is not inductive. `IInv` says that the ids in use are the first ones
(`Dense`: rows are only added, and keep resource, operation and time), that a request was
sent in the past by the browser's clock (`Sent`), and that what it made is a task of the
same resource and operation, created no earlier than `Skew` before the time the request
bears (`MadeSince`). With `Skew <= Tolerance` such a task passes `CreatedAfterAttempt`
wherever a list shows it (`MadeIsSuccessor`), and the phase is `accepted`.

`HostEditorProofs`, for any connections, machines and numbers of saves and tests, from
`EditorAssumption` (which `Browser` has TLC check for its instance):

- `TypeCorrect`: `Spec => []TypeOK`
- `StoredWasTested`: `Spec => []SavedVerified`

What is stored is what a save carries, so `IInv` says of the form's token, and of that of
every save, that it stands for a test in `proven` (`Stands`), and of a save that has passed
the comparison that its connection works for its host (`SaveStands`): the comparison finds a
token for just that host and connection, or that the connection is the row's, which
`SavedVerified` speaks of. The history only grows (`ProvenGrows`), so neither a change of the
form nor another tab's save undoes it.

`SessionProofs`, for any numbers of sessions and of calls in flight, from
`SessionAssumption`, and without any fairness:

- `TypeCorrect`: `Spec => []TypeOK`, with its last part, that a user is held only by a tab
  that has asked who is logged in and found the platform initialized

The answer that brings a user belongs to a call that was sent in an earlier state, so the
calls remember what the tab knew then: all but the first question and the setup were sent
by a tab that had found the platform initialized (`SentInitialized`), the two questions
travel alone (`AsksAlone`), and a login that is answered names a session that was issued
(`SessionsIssued`).

`BrowserProofs`, for any databases, hosts, versions and tasks, any answers of the server
and any bounds on what is under way, from `PartsAssumption`, which is what the parts assume
of their constants:

- `DeletionReviewed`: `BrowserSpec => ReviewedSinceFailure`
- `HandoffIsCurrent`: `BrowserSpec => []HandoffCurrent`
- `FailureIsChecked`: `BrowserSpec => []NeverStuckChecking`
- `PagesReleased`: `BrowserSpec => []ActioningReleased`
- `EditorSavesVerified`: `BrowserSpec => []SavedVerified`
- `PagesRecogniseRetry`: `Skew <= Tolerance => (BrowserSpec => []SuccessorRecognised)`
- `PagesTyped`: `BrowserSpec => []PagesTypeOK`

A step is one of the page that is mounted and leaves the others alone (`PageStep`), so each
page has an invariant of its own, under the condition that it is mounted:

- the deletion dialog (`CleanupInv`): while no evidence has come since a failure, the dialog
  waits for some, be it closed and opened again (`Awaited`); a deletion is sent by a dialog
  that does not wait, and only a failure and the evidence itself change what is waited for;
- the copy of a connection (`HandoffInv`): no copy is newer than the dialog's number, and one
  that has that number is of the database the dialog is open for (`CopiesNumbered`), since
  opening, closing and copying all take a new number;
- the creation (`CreationInv`): its types and `NeverStuckChecking`, which are inductive
  together: the end of a refresh tells whatever failure there is by then, also one that
  another refresh was begun for, and no step takes a refresh away without telling, except
  those that drop the failure too;
- the other pages: their types and that what a page says is under way is in flight, which
  are inductive because an operation is entered in one step with the lock it takes, and
  leaves with it whatever lock is there. `HostInv` needs that no host has the id of a state
  of an operation (`HostsAssumption`), `TasksInv` that a retry made in the drawer is of a
  task, and `RowsInv` that an alert that follows something has the number of a task; without
  the last two the types of a late step are not kept;
- the retry and the form of a host: the invariants of `RetryRequestProofs` and of
  `HostEditorProofs`, the latter through an instance of that module whose definitions are
  shown to be those of the page's (`SameEditor`).

Only model-checked: liveness under fairness (`QueueServed`, `RunningEnds`, `DriftNoticed`,
`GhostEnds`, `GateOpens`), which is beyond the prover; and `DirectoryUnderRoot`,
`ClearedOffTab`, `CanceledLeavesStable` and `DeletedFinal`, which fail.

## 6. What is not modelled

In the modelled parts: task logs, progress, messages, redaction and classification of
errors; what a start writes beside the tasks for retired kinds: the rollback of instance
rows when it cancels a queued task, and the failure of the instances and backups of
interrupted ones (`RecoverInterruptedTasksExcludingKinds`, `store/tasks.go:472-529`); the
channel that wakes workers before their next poll; in
`InstanceLifecycle` the backup policy flag that a delete saves and its check of backups,
the retired kinds (upgrade, configure and others), remote commands that go on after their
process has ended, the loss of a write of the monitor, and the loss of a final write
(which `TaskQueue` has); in `Placement` the architecture of hosts and templates, listening
ports (any free port of the pool may be chosen), several monitor probes at a time, and
names. In the browser: the expiry of a verification token as a clock (it is one of the
reasons of a refusal), languages, passwords and limits on attempts, filters, columns,
paging, navigation that only leads away, and what a read shows beyond what a later step
depends on; `HostEditor`, `HostDetails` and the rest are parts of one page and are not
composed, since they share no state but the list.

Not at all, because there is no state that a property could be about or because it is I/O:
the dictionary of the two languages (`frontend/src/i18n.ts`, more than a quarter of the
browser's code), icons, themes and formatting; templates, the vault, configuration, audit and
registries; the SSH runner and the parsing of docker output; platform scripts and image
tooling. Not modelled although it has state: those writes of a start for retired kinds, the
server's records of backups, and the files of a project on a host. Each
is named with its reason in `PROJECT.json`.

Steps the models show without a run of their own, since no document or test of the
repository says otherwise or the server decides the outcome, are hazards with a note there:
the monitor writing back an old desired state, the late detail of a task, the late context
of a host, the late poll of a row's older action, and the late answer of a retry, or of the
refresh of its evidence, which opens a host again that was closed (`Accepted` of
`HostDetails`) or shows a panel again that was closed (`RetryNotFound`).

## 7. What could follow

What a start writes for tasks of retired kinds beside the tasks, then the server's records of
backups.
