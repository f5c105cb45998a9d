------------------------------- MODULE TaskQueue -------------------------------
(***************************************************************************)
(* The persistent task queue: the tasks table in PostgreSQL                *)
(* (store/tasks.go, store/task_cancellation.go) and the workers of one     *)
(* process that claim and run its rows (tasks/manager.go).                 *)
(*                                                                         *)
(* A claim is a READ COMMITTED transaction of several statements, so it is *)
(* several actions here: pick a row (row lock), lock the host row, recheck *)
(* the host, update and commit.  The locks are the state of the            *)
(* transactions that hold them, so a crash or a rollback releases them.    *)
(* Every other store call is one transaction guarded by the row it locks   *)
(* or by the unique index, hence one action.                               *)
(*                                                                         *)
(* Handlers are abstracted to their Stage calls: StagePlan[k] is the       *)
(* sequence of the cancelable flags kind k passes to Runtime.Stage.        *)
(***************************************************************************)
EXTENDS Naturals, Sequences

CONSTANTS
  Workers,      \* the goroutines of tasks.Manager
  Hosts,
  NoHost,       \* tasks.host_id IS NULL
  Resources,    \* (resource_type, resource_id) pairs
  HostOf,       \* [Resources -> Hosts \cup {NoHost}]: the host_id of their tasks
  Kinds,        \* task kinds that occur in the table
  Supported,    \* kinds with a handler; the other ones only have a canceller
  KindsOf,      \* [Resources -> SUBSET Kinds]
  StagePlan,    \* [Kinds -> Seq(BOOLEAN)]
  Skippable,    \* kinds whose handler may succeed before its first Stage
  MaxTasks,     \* bound: rows the table ever holds
  MaxLegacy,    \* bound: rows an older version left behind
  MaxFailures   \* bound: crashes, shutdowns and lost database calls

TaskIds == 1..MaxTasks

ASSUME ConstantsOK ==
  /\ MaxTasks \in Nat
  /\ MaxLegacy \in Nat
  /\ MaxFailures \in Nat
  /\ NoHost \notin Hosts
  /\ HostOf \in [Resources -> Hosts \cup {NoHost}]
  /\ KindsOf \in [Resources -> SUBSET Kinds]
  /\ Supported \subseteq Kinds
  /\ Skippable \subseteq Supported
  /\ StagePlan \in [Kinds -> Seq(BOOLEAN)]

\* The last Stage of every handler closes its cancellation window.
ASSUME PlansEndSealed ==
  \A k \in Supported : Len(StagePlan[k]) > 0 /\ ~StagePlan[k][Len(StagePlan[k])]

VARIABLES
  task,      \* the tasks table: [TaskIds -> row or NoRow]
  phase,     \* of the process: "down", "recovering", "up", "stopping"
  pc,        \* [Workers -> where the worker is]
  cur,       \* [Workers -> the task it claims or runs, 0 if none]
  outcome,   \* [Workers -> the status its handler's return maps to]
  lost,      \* history: rows left running by a lost database call of this process
  failures   \* how many outages and lost calls there were

vars == <<task, phase, pc, cur, outcome, lost, failures>>

--------------------------------------------------------------------------------
(* The table *)

Ended == {"succeeded", "failed", "canceled", "interrupted"}
Retryable == {"failed", "interrupted", "canceled"}

NoRow == [status |-> "absent"]

Row == [kind : Kinds, resource : Resources, origin : Nat,
        status : {"queued", "running"} \cup Ended,
        stage : Nat, cancelable : BOOLEAN, cancelAsked : BOOLEAN, attempts : Nat]

\* The column defaults of INSERT INTO tasks.
NewRow(k, r, o) ==
  [kind |-> k, resource |-> r, origin |-> o, status |-> "queued",
   stage |-> 0, cancelable |-> TRUE, cancelAsked |-> FALSE, attempts |-> 0]

Exists(t) == task[t].status # "absent"
Is(t, s) == task[t].status = s
HostOfTask(t) == HostOf[task[t].resource]

\* The predicate of the partial unique index tasks_active_resource_idx.
ActiveOn(r) == \E t \in TaskIds : task[t].status \in {"queued", "running"} /\ task[t].resource = r

RunningElsewhere(h, t) == \E s \in TaskIds \ {t} : Is(s, "running") /\ HostOfTask(s) = h

Claiming == {"picked", "hostLocked", "checked"}

\* Row and host locks are held by the claim transactions in progress.
RowLocked(t) == \E w \in Workers : pc[w] \in Claiming /\ cur[w] = t
HostLocked(h) == \E w \in Workers : pc[w] \in {"hostLocked", "checked"} /\ HostOfTask(cur[w]) = h

Serving == phase \in {"up", "stopping"}

Insert(row) ==
  \E t \in TaskIds :
    /\ ~Exists(t)
    /\ \A s \in TaskIds : s < t => Exists(s)
    /\ task' = [task EXCEPT ![t] = row]

Fail == failures < MaxFailures /\ failures' = failures + 1

--------------------------------------------------------------------------------
(* Initial states: what a previous version of the service left behind. *)

LegacyRow ==
  {row \in [kind : Kinds \ Supported, resource : Resources, origin : {0},
            status : {"queued", "running"}, stage : {0}, cancelable : BOOLEAN,
            cancelAsked : {FALSE}, attempts : {0, 1}] :
     /\ row.kind \in KindsOf[row.resource]
     /\ row.status = "queued" => row.cancelable /\ row.attempts = 0
     /\ row.status = "running" => row.attempts = 1}

Init ==
  /\ task \in [TaskIds -> LegacyRow \cup {NoRow}]
  /\ \A t \in TaskIds : Exists(t) => t <= MaxLegacy /\ \A s \in TaskIds : s < t => Exists(s)
  /\ \A s, t \in TaskIds : s # t /\ Exists(s) /\ Exists(t) =>
       /\ task[s].resource # task[t].resource
       /\ Is(s, "running") /\ Is(t, "running") /\ HostOfTask(s) # NoHost
          => HostOfTask(s) # HostOfTask(t)
  /\ phase = "down"
  /\ pc = [w \in Workers |-> "off"]
  /\ cur = [w \in Workers |-> 0]
  /\ outcome = [w \in Workers |-> "none"]
  /\ lost = {}
  /\ failures = 0

--------------------------------------------------------------------------------
(* Requests of the API *)

\* A request that queues a task on a resource (CreateTask and its variants).
Submit(k, r) ==
  /\ Serving
  /\ k \in Supported \cap KindsOf[r]
  /\ ~ActiveOn(r)
  /\ Insert(NewRow(k, r, 0))
  /\ UNCHANGED <<phase, pc, cur, outcome, lost, failures>>

\* Mutant: a retry names the task it copies, not the first one of the chain.
RetryOriginDirect(t) == t

\* The operation lineage: a retry names the first task of its chain.
RetryOrigin(t) == IF task[t].origin = 0 THEN t ELSE task[t].origin

\* Mutant: the unique index does not cover retries.
RetryUnindexed(t) ==
  /\ Serving
  /\ task[t].status \in Retryable
  /\ task[t].kind \in Supported
  /\ Insert(NewRow(task[t].kind, task[t].resource, RetryOrigin(t)))
  /\ UNCHANGED <<phase, pc, cur, outcome, lost, failures>>

\* Mutant: a task of a retired kind can be retried.
RetryAnyKind(t) ==
  /\ Serving
  /\ task[t].status \in Retryable
  /\ ~ActiveOn(task[t].resource)
  /\ Insert(NewRow(task[t].kind, task[t].resource, RetryOrigin(t)))
  /\ UNCHANGED <<phase, pc, cur, outcome, lost, failures>>

\* Retry copies an ended row.  Its reads come before the insert; an ended row
\* never changes and the index decides about the resource, so nothing they
\* saw can be stale when the insert commits.
Retry(t) ==
  /\ Serving
  /\ task[t].status \in Retryable
  /\ task[t].kind \in Supported
  /\ ~ActiveOn(task[t].resource)
  /\ Insert(NewRow(task[t].kind, task[t].resource, RetryOrigin(t)))
  /\ UNCHANGED <<phase, pc, cur, outcome, lost, failures>>

\* Mutant: a running task is marked canceled at once, under its handler.
CanceledRowAtOnce(row) ==
  [row EXCEPT !.status = "canceled", !.cancelable = FALSE, !.cancelAsked = TRUE]

\* CancelTask waits for the row lock of a claim in progress, then decides.
CanceledRow(row) ==
  IF row.status = "running"
    THEN [row EXCEPT !.cancelAsked = TRUE]
    ELSE [row EXCEPT !.status = "canceled", !.cancelable = FALSE, !.cancelAsked = TRUE]

\* Mutant: the cancellation window is not checked.
CancelUnguarded(t) ==
  /\ task[t].status \in {"queued", "running"}
  /\ ~RowLocked(t)
  /\ task' = [task EXCEPT ![t] = CanceledRow(task[t])]

Cancel(t) ==
  /\ task[t].status \in {"queued", "running"}
  /\ task[t].cancelable
  /\ ~RowLocked(t)
  /\ task' = [task EXCEPT ![t] = CanceledRow(task[t])]

CancelRequest(t) ==
  /\ Serving
  /\ Cancel(t)
  /\ UNCHANGED <<phase, pc, cur, outcome, lost, failures>>

--------------------------------------------------------------------------------
(* Workers: ClaimTask *)

\* Mutant: a host with another queued task counts as busy.
EligibleAlone(t) ==
  /\ Is(t, "queued")
  /\ task[t].kind \in Supported
  /\ \A s \in TaskIds \ {t} : task[s].status \in {"queued", "running"} /\ HostOfTask(t) # NoHost
                             => HostOfTask(s) # HostOfTask(t)
  /\ ~RowLocked(t)

Eligible(t) ==
  /\ Is(t, "queued")
  /\ task[t].kind \in Supported
  /\ HostOfTask(t) # NoHost => ~RunningElsewhere(HostOfTask(t), t)
  /\ ~RowLocked(t)

\* The oldest eligible row, FOR UPDATE SKIP LOCKED.
PickTask(w) ==
  /\ phase = "up"
  /\ pc[w] = "idle"
  /\ \E t \in TaskIds :
       /\ Eligible(t)
       /\ \A s \in TaskIds : s < t => ~Eligible(s)
       /\ cur' = [cur EXCEPT ![w] = t]
  /\ pc' = [pc EXCEPT ![w] = "picked"]
  /\ UNCHANGED <<task, phase, outcome, lost, failures>>

\* Mutant: the claim reads the host row without locking it.
LockHostShared(w) ==
  /\ pc[w] = "picked"
  /\ pc' = [pc EXCEPT ![w] = "hostLocked"]
  /\ UNCHANGED <<task, phase, cur, outcome, lost, failures>>

\* SELECT ... FROM hosts FOR NO KEY UPDATE blocks while another claim holds it.
LockHost(w) ==
  /\ pc[w] = "picked"
  /\ HostOfTask(cur[w]) # NoHost => ~HostLocked(HostOfTask(cur[w]))
  /\ pc' = [pc EXCEPT ![w] = "hostLocked"]
  /\ UNCHANGED <<task, phase, cur, outcome, lost, failures>>

Leave(w) ==
  /\ pc' = [pc EXCEPT ![w] = "idle"]
  /\ cur' = [cur EXCEPT ![w] = 0]

\* With the host row locked: another task runs there, give the claim up.
HostBusy(w) ==
  /\ pc[w] = "hostLocked"
  /\ HostOfTask(cur[w]) # NoHost
  /\ RunningElsewhere(HostOfTask(cur[w]), cur[w])
  /\ Leave(w)
  /\ UNCHANGED <<task, phase, outcome, lost, failures>>

\* Mutant: the claim does not look again under the host lock.
HostFreeUnchecked(w) ==
  /\ pc[w] = "hostLocked"
  /\ pc' = [pc EXCEPT ![w] = "checked"]
  /\ UNCHANGED <<task, phase, cur, outcome, lost, failures>>

HostFree(w) ==
  /\ pc[w] = "hostLocked"
  /\ HostOfTask(cur[w]) # NoHost => ~RunningElsewhere(HostOfTask(cur[w]), cur[w])
  /\ pc' = [pc EXCEPT ![w] = "checked"]
  /\ UNCHANGED <<task, phase, cur, outcome, lost, failures>>

\* Mutant: a status the column's CHECK constraint does not know.
ClaimedRowStarting(row) ==
  [row EXCEPT !.status = "starting", !.stage = 0, !.cancelable = TRUE, !.attempts = @ + 1]

ClaimedRow(row) ==
  [row EXCEPT !.status = "running", !.stage = 0, !.cancelable = TRUE, !.attempts = @ + 1]

CommitClaim(w) ==
  /\ pc[w] = "checked"
  /\ task' = [task EXCEPT ![cur[w]] = ClaimedRow(@)]
  /\ pc' = [pc EXCEPT ![w] = "handler"]
  /\ UNCHANGED <<phase, cur, outcome, lost, failures>>

\* The claim commits but its reply is lost: the row runs without a worker.
LoseClaim(w) ==
  /\ pc[w] = "checked"
  /\ Fail
  /\ task' = [task EXCEPT ![cur[w]] = ClaimedRow(@)]
  /\ Leave(w)
  /\ lost' = lost \cup {cur[w]}
  /\ UNCHANGED <<phase, outcome>>

\* A statement of the claim fails, or the shutdown cancels it: rolled back.
AbortClaim(w) ==
  /\ pc[w] \in Claiming
  /\ \/ phase = "stopping" /\ UNCHANGED failures
     \/ phase = "up" /\ Fail
  /\ Leave(w)
  /\ UNCHANGED <<task, phase, outcome, lost>>

--------------------------------------------------------------------------------
(* Workers: run and finish *)

Return(w, result) ==
  /\ pc' = [pc EXCEPT ![w] = "finishing"]
  /\ outcome' = [outcome EXCEPT ![w] = result]

\* Mutant: the stage update does not require that no cancellation is pending.
StageAdvanceBlind(w) ==
  LET t == cur[w]
      next == task[t].stage + 1
  IN /\ pc[w] = "handler"
     /\ next <= Len(StagePlan[task[t].kind])
     /\ Is(t, "running")
     /\ task' = [task EXCEPT ![t].stage = next,
                             ![t].cancelable = StagePlan[task[t].kind][next]]
     /\ UNCHANGED <<phase, pc, cur, outcome, lost, failures>>

\* Runtime.Stage: one conditional update advances the stage and opens or
\* closes the cancellation window; an update that hits no row is explained by
\* reading the row again.
StageAdvance(w) ==
  LET t == cur[w]
      next == task[t].stage + 1
  IN /\ pc[w] = "handler"
     /\ next <= Len(StagePlan[task[t].kind])
     /\ Is(t, "running")
     /\ ~task[t].cancelAsked
     /\ task' = [task EXCEPT ![t].stage = next,
                             ![t].cancelable = StagePlan[task[t].kind][next]]
     /\ UNCHANGED <<phase, pc, cur, outcome, lost, failures>>

StageRefused(w) ==
  LET t == cur[w]
  IN /\ pc[w] = "handler"
     /\ task[t].stage < Len(StagePlan[task[t].kind])
     /\ ~Is(t, "running") \/ task[t].cancelAsked
     /\ Return(w, IF Is(t, "running") THEN "canceled" ELSE "failed")
     /\ UNCHANGED <<task, phase, cur, lost, failures>>

HandlerFails(w) ==
  /\ pc[w] = "handler"
  /\ Return(w, "failed")
  /\ UNCHANGED <<task, phase, cur, lost, failures>>

HandlerStopped(w) ==
  /\ pc[w] = "handler"
  /\ phase = "stopping"
  /\ Return(w, "interrupted")
  /\ UNCHANGED <<task, phase, cur, lost, failures>>

HandlerSucceeds(w) ==
  /\ pc[w] = "handler"
  /\ \/ task[cur[w]].stage = Len(StagePlan[task[cur[w]].kind])
     \/ task[cur[w]].kind \in Skippable /\ task[cur[w]].stage = 0
  /\ Return(w, "succeeded")
  /\ UNCHANGED <<task, phase, cur, lost, failures>>

\* Mutant: the final write leaves the status of a canceled task to the request.
FinishedRowKept(row, result) ==
  [row EXCEPT !.status = IF result = "canceled" THEN @ ELSE result, !.cancelable = FALSE]

\* FinishTask updates by id alone: it does not look at the row's status.
FinishedRow(row, result) == [row EXCEPT !.status = result, !.cancelable = FALSE]

FinishTask(w) ==
  /\ pc[w] = "finishing"
  /\ task' = [task EXCEPT ![cur[w]] = FinishedRow(@, outcome[w])]
  /\ Leave(w)
  /\ outcome' = [outcome EXCEPT ![w] = "none"]
  /\ UNCHANGED <<phase, lost, failures>>

\* The final write fails or times out; it is only logged.
LoseFinish(w) ==
  /\ pc[w] = "finishing"
  /\ Fail
  /\ Leave(w)
  /\ outcome' = [outcome EXCEPT ![w] = "none"]
  /\ lost' = lost \cup {cur[w]}
  /\ UNCHANGED <<task, phase>>

--------------------------------------------------------------------------------
(* The process: shutdown, crash, startup *)

Shutdown ==
  /\ phase = "up"
  /\ Fail
  /\ phase' = "stopping"
  /\ UNCHANGED <<task, pc, cur, outcome, lost>>

WorkerExits(w) ==
  /\ phase = "stopping"
  /\ pc[w] = "idle"
  /\ pc' = [pc EXCEPT ![w] = "off"]
  /\ UNCHANGED <<task, phase, cur, outcome, lost, failures>>

\* main returns once Manager.Wait saw every worker gone.
ProcessExits ==
  /\ phase = "stopping"
  /\ \A w \in Workers : pc[w] = "off"
  /\ phase' = "down"
  /\ UNCHANGED <<task, pc, cur, outcome, lost, failures>>

Crash ==
  /\ phase # "down"
  /\ Fail
  /\ phase' = "down"
  /\ pc' = [w \in Workers |-> "off"]
  /\ cur' = [w \in Workers |-> 0]
  /\ outcome' = [w \in Workers |-> "none"]
  /\ UNCHANGED <<task, lost>>

\* Mutant: a restart puts the running tasks back into the queue.
RequeueRunningTasks ==
  /\ phase = "down"
  /\ phase' = "recovering"
  /\ task' = [t \in TaskIds |->
                IF Is(t, "running") THEN [task[t] EXCEPT !.status = "queued"] ELSE task[t]]
  /\ lost' = {}
  /\ UNCHANGED <<pc, cur, outcome, failures>>

\* Mutant: a restart interrupts the tasks this version can run.
InterruptSupportedTasks ==
  /\ phase = "down"
  /\ phase' = "recovering"
  /\ task' = [t \in TaskIds |->
                IF Is(t, "running") /\ task[t].kind \in Supported
                  THEN [task[t] EXCEPT !.status = "interrupted", !.cancelable = FALSE]
                  ELSE task[t]]
  /\ lost' = {}
  /\ UNCHANGED <<pc, cur, outcome, failures>>

InterruptRunningTasks ==
  /\ phase = "down"
  /\ phase' = "recovering"
  /\ task' = [t \in TaskIds |->
                IF Is(t, "running")
                  THEN [task[t] EXCEPT !.status = "interrupted", !.cancelable = FALSE]
                  ELSE task[t]]
  /\ lost' = {}
  /\ UNCHANGED <<pc, cur, outcome, failures>>

\* Queued tasks without a handler are canceled one by one before workers start.
RetireTask(t) ==
  /\ phase = "recovering"
  /\ Is(t, "queued")
  /\ task[t].kind \notin Supported
  /\ Cancel(t)
  /\ UNCHANGED <<phase, pc, cur, outcome, lost, failures>>

StartWorkers ==
  /\ phase = "recovering"
  /\ ~\E t \in TaskIds : Is(t, "queued") /\ task[t].kind \notin Supported
  /\ phase' = "up"
  /\ pc' = [w \in Workers |-> "idle"]
  /\ UNCHANGED <<task, cur, outcome, lost, failures>>

--------------------------------------------------------------------------------
Request == \/ \E r \in Resources : \E k \in KindsOf[r] : Submit(k, r)
           \/ \E t \in TaskIds : Retry(t) \/ CancelRequest(t)

Claim(w) == PickTask(w) \/ LockHost(w) \/ HostBusy(w) \/ HostFree(w) \/ CommitClaim(w)

Run(w) == \/ StageAdvance(w) \/ StageRefused(w) \/ HandlerSucceeds(w)
          \/ HandlerFails(w) \/ HandlerStopped(w) \/ FinishTask(w)

Startup == InterruptRunningTasks \/ (\E t \in TaskIds : RetireTask(t)) \/ StartWorkers

Next ==
  \/ Request
  \/ \E w \in Workers : \/ Claim(w) \/ Run(w) \/ WorkerExits(w)
                        \/ LoseClaim(w) \/ AbortClaim(w) \/ LoseFinish(w)
  \/ Shutdown \/ ProcessExits \/ Crash
  \/ Startup

Spec == Init /\ [][Next]_vars

\* Workers poll, transactions and handlers end, and the service is restarted
\* after an outage.  Requests and failures are never owed.
Fairness ==
  /\ \A w \in Workers : /\ WF_vars(Claim(w)) /\ WF_vars(Run(w))
                        /\ WF_vars(phase = "stopping" /\ AbortClaim(w))
                        /\ WF_vars(WorkerExits(w))
  /\ WF_vars(ProcessExits) /\ WF_vars(Startup)

FairSpec == Spec /\ Fairness

--------------------------------------------------------------------------------
(* Correctness *)

TypeOK ==
  /\ task \in [TaskIds -> Row \cup {NoRow}]
  /\ phase \in {"down", "recovering", "up", "stopping"}
  /\ pc \in [Workers -> {"off", "idle", "handler", "finishing"} \cup Claiming]
  /\ cur \in [Workers -> TaskIds \cup {0}]
  /\ outcome \in [Workers -> Ended \cup {"none"}]
  /\ lost \subseteq TaskIds
  /\ failures \in 0..MaxFailures

\* At most one task runs on a host, whatever the workers' claim transactions
\* interleave to: the reason ClaimTask locks the host row and looks again
\* (store/tasks.go, "concurrent claim transactions can both observe no
\* running task").
HostExclusive ==
  \A s, t \in TaskIds :
    /\ s # t
    /\ Is(s, "running") /\ Is(t, "running")
    /\ HostOfTask(s) # NoHost
    => HostOfTask(s) # HostOfTask(t)

\* A resource never has two queued or running tasks, whichever of submit,
\* retry and claim race (tasks_active_resource_idx, checked when a row enters).
ResourceExclusive ==
  \A s, t \in TaskIds :
    /\ s # t
    /\ task[s].status \in {"queued", "running"}
    /\ task[t].status \in {"queued", "running"}
    => task[s].resource # task[t].resource

\* A row is handed to a handler at most once, through lost replies, crashes and
\* restarts: no task is executed twice, only a retry (a new row) repeats work.
ExecutedOnce ==
  /\ \A t \in TaskIds : Exists(t) => task[t].attempts <= 1
  /\ \A v, w \in Workers : v # w /\ cur[v] # 0 => cur[v] # cur[w]

\* Once a handler has passed a Stage that closes the cancellation window, no
\* cancellation is pending: an earlier one stopped it at that Stage, a later
\* one was rejected (tasks/manager.go, the comment of Runtime.Stage).
SealedStage ==
  \A w \in Workers : pc[w] = "handler" =>
    LET row == task[cur[w]]
    IN row.stage > 0 /\ ~StagePlan[row.kind][row.stage] => ~row.cancelAsked

\* A task whose cancellation was accepted does not end as succeeded, unless
\* its handler had nothing to do and returned before the first Stage.
CancelHonored ==
  \A t \in TaskIds : Is(t, "succeeded") /\ task[t].cancelAsked =>
    task[t].kind \in Skippable /\ task[t].stage = 0

\* Once the service serves requests no task of a retired kind is queued or
\* running, however often its startup was cut short.
RetiredDrained ==
  Serving => \A t \in TaskIds :
    task[t].status \in {"queued", "running"} => task[t].kind \in Supported

\* Lineage: a retry names an earlier task that is itself the root of its chain,
\* had the same kind and resource, and ended without success.
LineageRooted ==
  \A t \in TaskIds : Exists(t) /\ task[t].origin # 0 =>
    LET root == task[task[t].origin]
    IN /\ task[t].origin < t
       /\ root.status \in Retryable
       /\ root.origin = 0
       /\ root.kind = task[t].kind /\ root.resource = task[t].resource

\* While the service is up, a row that runs is in the hands of a worker; the
\* rows of an earlier process were interrupted at startup.  The exceptions are
\* the rows of a lost database call (LoseClaim, LoseFinish), which keep their
\* host blocked until the next restart.
WorkerOwnsRunning ==
  Serving => \A t \in TaskIds : Is(t, "running") =>
    \/ t \in lost
    \/ \E w \in Workers : pc[w] \in {"handler", "finishing"} /\ cur[w] = t

\* What an ended row records is never rewritten, although FinishTask updates by
\* id without looking at the status.
EndedFinal ==
  [][\A t \in TaskIds : task[t].status \in Ended => task'[t] = task[t]]_vars

\* The queue implements the abstract table.
Table == INSTANCE TaskTable WITH
  None <- NoHost,
  status <- [t \in TaskIds |-> task[t].status],
  resource <- [t \in TaskIds |-> IF Exists(t) THEN task[t].resource ELSE NoHost],
  host <- [t \in TaskIds |-> IF Exists(t) THEN HostOfTask(t) ELSE NoHost]

\* Every step of the queue, each statement of a claim included, is one step of
\* the abstract table or leaves it alone.
ImplementsTable == Table!TableSpec

\* A queued task is eventually claimed or canceled, unless a lost call keeps
\* its host blocked.
QueueServed ==
  \A t \in TaskIds :
    Is(t, "queued") ~> \/ ~Is(t, "queued")
                       \/ \E s \in lost : HostOfTask(s) = HostOfTask(t)

\* A claimed task eventually ends, by its handler or by the next startup, unless
\* the claim's reply or the final write was lost.
RunningEnds ==
  \A t \in TaskIds : Is(t, "running") ~> task[t].status \in Ended \/ t \in lost
================================================================================
