--------------------------- MODULE InstanceLifecycle ---------------------------
(***************************************************************************)
(* One database instance: its row, its containers and project directory on *)
(* the Docker host, and the four parties that touch them:                  *)
(*   - API clients that queue actions, retry and cancel tasks              *)
(*     (instances/service.go, store/tasks.go, store/task_cancellation.go), *)
(*   - the worker that runs the instance's task (the handlers of           *)
(*     instances/service.go),                                              *)
(*   - the monitor that reconciles the row with what it observed           *)
(*     (monitor/monitor.go),                                               *)
(*   - the environment: crashes, restarts, containers that fail.           *)
(*                                                                         *)
(* The tasks of an instance share its host, so at most one of them runs    *)
(* (TaskQueue, HostExclusive) and one worker is enough.  Whatever reads a  *)
(* row and writes it later is two actions here.                            *)
(***************************************************************************)
EXTENDS Naturals, Sequences

CONSTANTS
  Clients,      \* API requests that may be in flight at a time
  Actions,      \* the actions clients ask for
  MaxTasks,     \* bound: tasks the instance ever has
  MaxFaults,    \* bound: crashes, shutdowns, lost recovery writes, failing containers
  Monitored,    \* whether the monitor runs
  AutoRestart   \* the row's auto_restart, which no operation changes

TaskIds == 1..MaxTasks

ASSUME InstanceConstants ==
  /\ MaxTasks \in Nat \ {0}
  /\ MaxFaults \in Nat
  /\ Actions \subseteq {"start", "stop", "restart", "delete"}
  /\ {Monitored, AutoRestart} \subseteq BOOLEAN

VARIABLES
  inst,      \* the instances row: [status, desired, failures]
  files,     \* compose.yaml exists in the remote directory
  box,       \* the containers on the host
  task,      \* the instance's rows of the tasks table
  up,        \* of the process: "up", "stopping", "down"
  worker,    \* [task, mode, step, prev, result]
  request,   \* [Clients -> an action validated but not yet queued]
  plan,      \* a recovery prepared for the cancellation of a queued task
  poll,      \* the monitor's check of the instance
  faults     \* crashes, shutdowns, lost recovery writes and container failures so far

vars == <<inst, files, box, task, up, worker, request, plan, poll, faults>>

--------------------------------------------------------------------------------
(* Statuses *)

Stable == {"running", "stopped", "degraded", "failed"}

OpStatus == [create |-> "provisioning", start |-> "starting", stop |-> "stopping",
             restart |-> "restarting", delete |-> "deleting"]

Operating == {"provisioning", "starting", "stopping", "restarting", "deleting"}

TaskOwns(status) == status \in Operating \cup {"failed"}

\* validateInstanceAction, InstanceStatusAllowsDelete
Admits == [start |-> {"stopped", "failed"}, stop |-> {"running", "degraded"},
           restart |-> {"running", "degraded"}, delete |-> Stable]

State(s, d) == [status |-> s, desired |-> d]
NoState == State("", "")
StateOf(i) == State(i.status, i.desired)

\* Mutant: an empty desired state is written as it is.
WithStatePlain(i, st) ==
  [status |-> st.status, desired |-> st.desired,
   failures |-> IF st.status = "running" THEN 0 ELSE i.failures]

\* UpdateInstanceState, by id alone; an empty desired state keeps the row's.
WithState(i, st) ==
  [status |-> st.status,
   desired |-> IF st.desired = "" THEN i.desired ELSE st.desired,
   failures |-> IF st.status = "running" THEN 0 ELSE i.failures]

UpdateState(st) == inst' = WithState(inst, st)

\* What the payload of a task, or else the row, says of the state before it.
PreviousState(row, i) ==
  LET desired == IF row.prev.desired = "" THEN i.desired ELSE row.prev.desired
  IN State(IF row.prev.status # "" THEN row.prev.status
           ELSE IF desired = "stopped" THEN "stopped" ELSE "running", desired)

CurrentOrPrevious(row, i) == IF i.status \in Stable THEN StateOf(i) ELSE PreviousState(row, i)

--------------------------------------------------------------------------------
(* The tasks table *)

Ended == {"succeeded", "failed", "canceled", "interrupted"}
Retryable == {"failed", "canceled", "interrupted"}

NoRow == [status |-> "absent"]
NewRow(k, retry, prev) ==
  [kind |-> k, status |-> "queued", retry |-> retry, prev |-> prev,
   cancelable |-> TRUE, cancelAsked |-> FALSE, touched |-> FALSE]

Exists(t) == task[t].status # "absent"
Is(t, s) == task[t].status = s
Active == \E t \in TaskIds : task[t].status \in {"queued", "running"}

Insert(row) ==
  \E t \in TaskIds :
    /\ ~Exists(t)
    /\ \A s \in TaskIds : s < t => Exists(s)
    /\ task' = [task EXCEPT ![t] = row]

NoRequest == [kind |-> "none", seen |-> NoState]
NoPlan == [task |-> 0, preserve |-> FALSE, state |-> NoState]
NoPoll == [mode |-> "idle", box |-> "none", seen |-> NoState, failures |-> 0]
Idle == [task |-> 0, mode |-> "idle", step |-> 1, prev |-> NoState, result |-> "none"]

Init ==
  /\ inst = [status |-> "absent", desired |-> "running", failures |-> 0]
  /\ files = FALSE
  /\ box = "none"
  /\ task = [t \in TaskIds |-> NoRow]
  /\ up = "up"
  /\ worker = Idle
  /\ request = [c \in Clients |-> NoRequest]
  /\ plan = NoPlan
  /\ poll = NoPoll
  /\ faults = 0

Remote == <<files, box>>
Fault == faults < MaxFaults /\ faults' = faults + 1

--------------------------------------------------------------------------------
(* API: creating, acting, retrying *)

Serving == up \in {"up", "stopping"}

CreateInstance ==
  /\ Serving
  /\ inst.status = "absent"
  /\ inst' = [inst EXCEPT !.status = "provisioning"]
  /\ Insert(NewRow("create", FALSE, NoState))
  /\ UNCHANGED <<Remote, up, worker, request, plan, poll, faults>>

\* Action reads the instance and validates what it saw.
ReadForAction(c, k) ==
  /\ Serving
  /\ request[c] = NoRequest
  /\ inst.status \in Admits[k]
  /\ request' = [request EXCEPT ![c] = [kind |-> k, seen |-> StateOf(inst)]]
  /\ UNCHANGED <<inst, Remote, task, up, worker, plan, poll, faults>>

\* Mutant: the transaction does not compare the status with the one validated.
QueueUnchecked(c) ==
  /\ request[c] # NoRequest
  /\ ~Active
  /\ inst' = [inst EXCEPT !.status = OpStatus[request[c].kind]]
  /\ Insert(NewRow(request[c].kind, FALSE, request[c].seen))
  /\ request' = [request EXCEPT ![c] = NoRequest]
  /\ UNCHANGED <<Remote, up, worker, plan, poll, faults>>

\* CreateInstanceActionTask: one transaction under the row lock.
QueueAction(c) ==
  /\ request[c] # NoRequest
  /\ inst.status = request[c].seen.status
  /\ ~Active
  /\ inst' = [inst EXCEPT !.status = OpStatus[request[c].kind]]
  /\ Insert(NewRow(request[c].kind, FALSE, request[c].seen))
  /\ request' = [request EXCEPT ![c] = NoRequest]
  /\ UNCHANGED <<Remote, up, worker, plan, poll, faults>>

\* Mutant: the row is updated although the insert hit the unique index.
RejectAfterUpdate(c) ==
  /\ request[c] # NoRequest
  /\ inst.status # request[c].seen.status \/ Active
  /\ inst' = IF inst.status = request[c].seen.status
               THEN [inst EXCEPT !.status = OpStatus[request[c].kind]] ELSE inst
  /\ request' = [request EXCEPT ![c] = NoRequest]
  /\ UNCHANGED <<Remote, task, up, worker, plan, poll, faults>>

RejectAction(c) ==
  /\ request[c] # NoRequest
  /\ inst.status # request[c].seen.status \/ Active
  /\ request' = [request EXCEPT ![c] = NoRequest]
  /\ UNCHANGED <<inst, Remote, task, up, worker, plan, poll, faults>>

\* Mutant: a retry does not look for an active task.
RetryBeside(t) ==
  /\ Serving
  /\ task[t].status \in Retryable
  /\ Insert(NewRow(task[t].kind, TRUE, task[t].prev))
  /\ UNCHANGED <<inst, Remote, up, worker, request, plan, poll, faults>>

\* Retry copies the payload; the instance is not looked at.
Retry(t) ==
  /\ Serving
  /\ task[t].status \in Retryable
  /\ ~Active
  /\ Insert(NewRow(task[t].kind, TRUE, task[t].prev))
  /\ UNCHANGED <<inst, Remote, up, worker, request, plan, poll, faults>>

--------------------------------------------------------------------------------
(* API: canceling.  The recovery of a queued task is prepared from reads    *)
(* outside the transaction that applies it.                                 *)

\* Mutant: every canceled action falls back to a running or stopped database.
QueuedRecoveryCoarse(row, i) ==
  IF row.kind = "create" THEN State("failed", "")
  ELSE LET st == CurrentOrPrevious(row, i)
       IN IF "stopped" \in {st.status, st.desired} THEN State("stopped", "stopped")
                                                   ELSE State("running", "running")

QueuedRecovery(row, i) ==
  IF row.kind = "create" THEN State("failed", "") ELSE CurrentOrPrevious(row, i)

PrepareCancel(t) ==
  /\ Serving
  /\ plan = NoPlan
  /\ Is(t, "queued")
  /\ plan' = [task |-> t, preserve |-> task[t].retry, state |-> QueuedRecovery(task[t], inst)]
  /\ UNCHANGED <<inst, Remote, task, up, worker, request, poll, faults>>

CancelQueued(t) ==
  task' = [task EXCEPT ![t].status = "canceled", ![t].cancelable = FALSE, ![t].cancelAsked = TRUE]

AskCancel(t) == task' = [task EXCEPT ![t].cancelAsked = TRUE]

\* CancelTask decides by the status it finds under the row lock.
ConfirmCancel ==
  LET t == plan.task
  IN /\ plan # NoPlan
     /\ plan' = NoPlan
     /\ \/ /\ Is(t, "queued") /\ task[t].cancelable
           /\ plan.preserve \/ inst.status # "deleted"
           /\ CancelQueued(t)
           /\ inst' = IF plan.preserve THEN inst ELSE WithState(inst, plan.state)
        \/ /\ Is(t, "running") /\ task[t].cancelable
           /\ AskCancel(t)
           /\ UNCHANGED inst
        \/ /\ \/ ~task[t].cancelable
              \/ Is(t, "queued") /\ ~plan.preserve /\ inst.status = "deleted"
           /\ UNCHANGED <<task, inst>>
     /\ UNCHANGED <<Remote, up, worker, request, poll, faults>>

\* Mutant: the cancellation window is not checked.
CancelRunningAnytime(t) ==
  /\ Serving
  /\ Is(t, "running")
  /\ AskCancel(t)
  /\ UNCHANGED <<inst, Remote, up, worker, request, plan, poll, faults>>

CancelRunning(t) ==
  /\ Serving
  /\ Is(t, "running") /\ task[t].cancelable
  /\ AskCancel(t)
  /\ UNCHANGED <<inst, Remote, up, worker, request, plan, poll, faults>>

--------------------------------------------------------------------------------
(* The worker: each kind's handler as the sequence of its steps.  "check"   *)
(* is a Stage that leaves the cancellation window open, "seal" one that     *)
(* closes it.  The first three Stages of create only prepare the host and   *)
(* are one "check".                                                         *)

Program ==
  [create  |-> <<"load", "check", "check", "write", "seal", "up", "seal", "verify", "commit">>,
   start   |-> <<"load", "mark", "seal", "start", "commit">>,
   stop    |-> <<"load", "mark", "seal", "stop", "commit">>,
   restart |-> <<"load", "mark", "seal", "restart", "commit">>,
   delete  |-> <<"load", "mark", "seal", "down", "seal", "remove", "commit">>]

Effects == {"write", "up", "start", "stop", "restart", "down", "remove"}
ContainerEffects == {"up", "start", "stop", "restart", "down"}

Current == task[worker.task]

At(step) ==
  /\ worker.mode = "run"
  /\ Program[Current.kind][worker.step] = step

Advance == worker' = [worker EXCEPT !.step = @ + 1]

\* A handler's error; its deferred recovery is set up once load returned.
Throw(result) ==
  worker' = [worker EXCEPT !.mode = IF worker.step = 1 THEN "finish" ELSE "recover",
                           !.result = result]

Claim(t) ==
  /\ up = "up"
  /\ worker.mode = "idle"
  /\ Is(t, "queued")
  /\ task' = [task EXCEPT ![t].status = "running", ![t].cancelable = TRUE]
  /\ worker' = [Idle EXCEPT !.task = t, !.mode = "run"]
  /\ UNCHANGED <<inst, Remote, up, request, plan, poll, faults>>

Load ==
  /\ At("load")
  /\ worker' = [worker EXCEPT !.step = 2, !.prev = CurrentOrPrevious(Current, inst)]
  /\ UNCHANGED <<inst, Remote, task, up, request, plan, poll, faults>>

Mark ==
  /\ At("mark")
  /\ UpdateState(State(OpStatus[Current.kind], worker.prev.desired))
  /\ Advance
  /\ UNCHANGED <<Remote, task, up, request, plan, poll, faults>>

Stage ==
  /\ At("check") \/ At("seal")
  /\ ~Current.cancelAsked
  /\ task' = [task EXCEPT ![worker.task].cancelable = At("check")]
  /\ Advance
  /\ UNCHANGED <<inst, Remote, up, request, plan, poll, faults>>

StageCanceled ==
  /\ At("check") \/ At("seal")
  /\ Current.cancelAsked
  /\ Throw("canceled")
  /\ UNCHANGED <<inst, Remote, task, up, request, plan, poll, faults>>

--------------------------------------------------------------------------------
(* Effects on the host.  Every compose command reads compose.yaml and fails *)
(* without it; a command that fails may have had part of its effect.        *)

\* Healthy, health check starting, failing or only partly running.
Alive == {"running", "booting", "sick"}

\* Mutant: an error of the removal of the containers is ignored.
DoneAnyDown(e) ==
  CASE e \in {"up", "start"} -> {"running"}
    [] e = "stop"            -> IF box = "none" THEN {"none"} ELSE {"stopped"}
    [] e = "restart"         -> IF box = "none" THEN {"none"} ELSE Alive
    [] e = "down"            -> {"none", box}

\* The containers after a command that succeeded: up --wait waits for healthy
\* ones, restart does not wait.
Done(e) ==
  CASE e \in {"up", "start"} -> {"running"}
    [] e = "stop"            -> IF box = "none" THEN {"none"} ELSE {"stopped"}
    [] e = "restart"         -> IF box = "none" THEN {"none"} ELSE Alive
    [] e = "down"            -> {"none"}

Partly(e) ==
  CASE e \in {"up", "start"} -> {box, "stopped"} \cup Alive
    [] e = "stop"            -> IF box = "none" THEN {"none"} ELSE {box, "stopped"}
    [] e = "restart"         -> IF box = "none" THEN {"none"} ELSE {box, "stopped"} \cup Alive
    [] e = "down"            -> {box, "stopped", "none"}

Touch == task' = [task EXCEPT ![worker.task].touched = TRUE]

RunEffect ==
  /\ \E e \in ContainerEffects : At(e) /\ files /\ box' \in Done(e)
  /\ Advance
  /\ Touch
  /\ UNCHANGED <<inst, files, up, request, plan, poll, faults>>

WriteProject ==
  /\ At("write")
  /\ files' = TRUE
  /\ Advance
  /\ UNCHANGED <<inst, box, task, up, request, plan, poll, faults>>

RemoveProject ==
  /\ At("remove")
  /\ files' = FALSE
  /\ Advance
  /\ UNCHANGED <<inst, box, task, up, request, plan, poll, faults>>

\* InstanceState: the health check at the end of a creation.
Verify ==
  /\ At("verify")
  /\ box = "running"
  /\ Advance
  /\ UNCHANGED <<inst, Remote, task, up, request, plan, poll, faults>>

Goal(k) ==
  CASE k = "stop"   -> State("stopped", "stopped")
    [] k = "delete" -> State("deleted", "deleted")
    [] OTHER        -> State("running", "running")

\* The last write of a handler (MarkInstanceDeleted for delete).
Commit ==
  /\ At("commit")
  /\ UpdateState(Goal(Current.kind))
  /\ worker' = [worker EXCEPT !.mode = "finish", !.result = "succeeded"]
  /\ UNCHANGED <<Remote, task, up, request, plan, poll, faults>>

\* Any step may fail: SSH, Docker, the database, or the shutdown's context.
StepFails ==
  /\ worker.mode = "run"
  /\ Throw("failed") \/ (up = "stopping" /\ Throw("interrupted"))
  /\ \/ /\ \E e \in ContainerEffects : At(e) /\ box' \in (IF files THEN Partly(e) ELSE {box})
        /\ UNCHANGED files /\ Touch
     \/ /\ At("write") \/ At("remove")
        /\ files' \in {files, At("write")}
        /\ UNCHANGED <<box, task>>
     \/ /\ ~\E e \in Effects : At(e)
        /\ UNCHANGED <<Remote, task>>
  /\ UNCHANGED <<inst, up, request, plan, poll, faults>>

\* The deferred write of a handler that returns an error.
Recovery(k, prev, result) ==
  IF k = "create" THEN State("failed", "")
  ELSE IF result = "canceled" THEN prev
  ELSE State(IF k \in {"start", "delete"} THEN "failed" ELSE "degraded", prev.desired)

Recover ==
  /\ worker.mode = "recover"
  /\ UpdateState(Recovery(Current.kind, worker.prev, worker.result))
  /\ worker' = [worker EXCEPT !.mode = "finish"]
  /\ UNCHANGED <<Remote, task, up, request, plan, poll, faults>>

\* Its error is ignored.
RecoveryLost ==
  /\ worker.mode = "recover"
  /\ Fault
  /\ worker' = [worker EXCEPT !.mode = "finish"]
  /\ UNCHANGED <<inst, Remote, task, up, request, plan, poll>>

Finish ==
  /\ worker.mode = "finish"
  /\ task' = [task EXCEPT ![worker.task].status = worker.result,
                          ![worker.task].cancelable = FALSE]
  /\ worker' = Idle
  /\ UNCHANGED <<inst, Remote, up, request, plan, poll, faults>>

--------------------------------------------------------------------------------
(* The monitor: observe the containers, read the row, write the decision,   *)
(* and perhaps start the containers again.                                  *)

Observe ==
  /\ Monitored
  /\ up = "up"
  /\ poll.mode = "idle"
  /\ poll' = [NoPoll EXCEPT !.mode = "observed", !.box = box]
  /\ UNCHANGED <<inst, Remote, task, up, worker, request, plan, faults>>

\* ListInstances leaves deleted ones out; reconcileInstance leaves those alone
\* whose status belongs to a task.
ReadRow ==
  /\ poll.mode = "observed"
  /\ poll' = IF inst.status \in {"absent", "deleted"} \/ TaskOwns(inst.status) THEN NoPoll
             ELSE [poll EXCEPT !.mode = "read", !.seen = StateOf(inst), !.failures = inst.failures]
  /\ UNCHANGED <<inst, Remote, task, up, worker, request, plan, faults>>

\* Mutant: failing containers count as running ones.
DecideTrusting(desired, seen) ==
  IF desired = "stopped"
    THEN IF seen \in {"none", "stopped"} THEN "stopped" ELSE "degraded"
    ELSE IF seen \in Alive THEN "running" ELSE "degraded"

\* decideInstanceReconciliation
Decide(desired, seen) ==
  IF desired = "stopped"
    THEN IF seen \in {"none", "stopped"} THEN "stopped" ELSE "degraded"
    ELSE IF seen = "running" THEN "running" ELSE "degraded"

ContainerFailed(desired, seen) == desired # "stopped" /\ seen \notin {"running", "booting"}

\* Mutant: one automatic restart too many.
MayRestartAgain(p) ==
  ContainerFailed(p.seen.desired, p.box) /\ AutoRestart /\ p.failures <= 3

MayRestart(p) == ContainerFailed(p.seen.desired, p.box) /\ AutoRestart /\ p.failures < 3

Reconcile ==
  /\ poll.mode = "read"
  /\ UpdateState(State(Decide(poll.seen.desired, poll.box), poll.seen.desired))
  /\ poll' = IF MayRestart(poll) THEN [poll EXCEPT !.mode = "restart"] ELSE NoPoll
  /\ UNCHANGED <<Remote, task, up, worker, request, plan, faults>>

CountRestart ==
  /\ poll.mode = "restart"
  /\ inst' = [inst EXCEPT !.failures = @ + 1]
  /\ poll' = [poll EXCEPT !.mode = "start", !.failures = inst.failures + 1]
  /\ UNCHANGED <<Remote, task, up, worker, request, plan, faults>>

AutoStart ==
  /\ poll.mode = "start"
  /\ files
  /\ box' \in Done("start")
  /\ poll' = NoPoll
  /\ UNCHANGED <<inst, files, task, up, worker, request, plan, faults>>

AutoStartFails ==
  /\ poll.mode = "start"
  /\ box' \in (IF files THEN Partly("start") ELSE {box})
  /\ poll' = IF poll.failures >= 3 THEN [poll EXCEPT !.mode = "giveUp"] ELSE NoPoll
  /\ UNCHANGED <<inst, files, task, up, worker, request, plan, faults>>

GiveUp ==
  /\ poll.mode = "giveUp"
  /\ UpdateState(State("degraded", poll.seen.desired))
  /\ poll' = NoPoll
  /\ UNCHANGED <<Remote, task, up, worker, request, plan, faults>>

\* The shutdown cancels the calls of a check in progress.
PollStopped ==
  /\ up = "stopping"
  /\ poll # NoPoll
  /\ poll' = NoPoll
  /\ UNCHANGED <<inst, Remote, task, up, worker, request, plan, faults>>

--------------------------------------------------------------------------------
(* Environment *)

\* Containers that failed or were stopped by hand.
ContainersFail ==
  /\ Fault
  /\ box \in Alive
  /\ box' \in {"sick", "stopped"}
  /\ UNCHANGED <<inst, files, task, up, worker, request, plan, poll>>

ContainersBoot ==
  /\ box = "booting"
  /\ box' \in {"running", "sick"}
  /\ UNCHANGED <<inst, files, task, up, worker, request, plan, poll, faults>>

ContainersHeal ==
  /\ box = "sick"
  /\ box' = "running"
  /\ UNCHANGED <<inst, files, task, up, worker, request, plan, poll, faults>>

Forget ==
  /\ request' = [c \in Clients |-> NoRequest]
  /\ plan' = NoPlan
  /\ poll' = NoPoll
  /\ worker' = Idle

Shutdown ==
  /\ up = "up"
  /\ Fault
  /\ up' = "stopping"
  /\ UNCHANGED <<inst, Remote, task, worker, request, plan, poll>>

\* The process waits for the worker, not for the monitor.
ProcessExits ==
  /\ up = "stopping"
  /\ worker.mode = "idle"
  /\ up' = "down"
  /\ Forget
  /\ UNCHANGED <<inst, Remote, task, faults>>

\* A command that was running on the host may have had part of its effect.
Crash ==
  /\ up # "down"
  /\ Fault
  /\ up' = "down"
  /\ Forget
  /\ \/ UNCHANGED <<Remote, task>>
     \/ /\ \E e \in ContainerEffects : At(e) /\ files /\ box' \in Partly(e) \cup Done(e)
        /\ Touch /\ UNCHANGED files
     \/ /\ At("write") \/ At("remove")
        /\ files' = At("write") /\ UNCHANGED <<box, task>>
  /\ UNCHANGED inst

\* InterruptRunningTasks, then the workers start.
Restart ==
  /\ up = "down"
  /\ up' = "up"
  /\ task' = [t \in TaskIds |->
                IF Is(t, "running")
                  THEN [task[t] EXCEPT !.status = "interrupted", !.cancelable = FALSE]
                  ELSE task[t]]
  /\ UNCHANGED <<inst, Remote, worker, request, plan, poll, faults>>

--------------------------------------------------------------------------------
Api ==
  \/ CreateInstance
  \/ \E c \in Clients : \/ \E k \in Actions : ReadForAction(c, k)
                        \/ QueueAction(c) \/ RejectAction(c)
  \/ \E t \in TaskIds : Retry(t) \/ PrepareCancel(t) \/ CancelRunning(t)
  \/ ConfirmCancel

Work ==
  \/ \E t \in TaskIds : Claim(t)
  \/ Load \/ Mark \/ Stage \/ StageCanceled \/ RunEffect \/ WriteProject \/ RemoveProject
  \/ Verify \/ Commit \/ StepFails \/ Recover \/ Finish

Check == \/ Observe \/ ReadRow \/ Reconcile \/ CountRestart
         \/ AutoStart \/ AutoStartFails \/ GiveUp

Next ==
  \/ Api \/ Work \/ RecoveryLost
  \/ Check \/ PollStopped
  \/ ContainersFail \/ ContainersBoot \/ ContainersHeal
  \/ Shutdown \/ ProcessExits \/ Crash \/ Restart

Spec == Init /\ [][Next]_vars

\* The worker and the monitor poll for ever, containers finish booting and the
\* service is restarted after an outage.
FairSpec ==
  /\ Spec
  /\ WF_vars(Work) /\ WF_vars(Check)
  /\ WF_vars(ContainersBoot) /\ WF_vars(ProcessExits) /\ WF_vars(Restart)

--------------------------------------------------------------------------------
(* Correctness *)

Kinds == DOMAIN Program
States == [status : Stable \cup {""}, desired : {"running", "stopped", "deleted", ""}]
Row == [kind : Kinds, status : {"queued", "running"} \cup Ended, retry : BOOLEAN, prev : States,
        cancelable : BOOLEAN, cancelAsked : BOOLEAN, touched : BOOLEAN]
Boxes == {"none", "stopped"} \cup Alive

TypeOK ==
  /\ inst \in [status : Stable \cup Operating \cup {"absent", "deleted"},
               desired : {"running", "stopped", "deleted"}, failures : Nat]
  /\ files \in BOOLEAN
  /\ box \in Boxes
  /\ task \in [TaskIds -> Row \cup {NoRow}]
  /\ up \in {"up", "stopping", "down"}
  /\ worker \in [task : TaskIds \cup {0}, mode : {"idle", "run", "recover", "finish"},
                 step : 1..9, prev : States, result : Ended \cup {"none"}]
  /\ request \in [Clients -> [kind : Actions \cup {"none"}, seen : States]]
  /\ plan \in [task : TaskIds \cup {0}, preserve : BOOLEAN, state : States]
  /\ poll \in [mode : {"idle", "observed", "read", "restart", "start", "giveUp"},
               box : Boxes, seen : States, failures : Nat]
  /\ faults \in 0..MaxFaults

\* An operation status is never left without the task that explains it: an
\* active task of that kind, or one that ended badly and can be retried.
OpStatusExplained ==
  \A k \in Kinds : inst.status = OpStatus[k] =>
    \E t \in TaskIds : /\ Exists(t) /\ task[t].kind = k
                       /\ task[t].status \in {"queued", "running"} \cup Retryable

\* A task reported as canceled has run no command on the containers, whatever
\* the order of the cancellation and of the executor's stages.
CanceledUntouched == \A t \in TaskIds : Is(t, "canceled") => ~task[t].touched

BecomesCanceled(t) == Is(t, "queued") /\ task'[t].status = "canceled"

\* What the monitor writes: the verdict on the containers it observed, with the
\* desired state of the row it had read.
Verdicts ==
  {State(Decide(desired, seen), desired) : desired \in {"running", "stopped", "deleted"},
                                           seen \in Boxes}

\* Canceling an action that waits in the queue gives the database the state it
\* had when the action was queued.  Only the monitor writes the row meanwhile,
\* from a check begun before: then the row keeps that state or a verdict, but a
\* row that still shows the action never falls back to anything else.  Canceling
\* a creation leaves the database failed.
CancelRestores ==
  [][\A t \in TaskIds : BecomesCanceled(t) /\ ~task[t].retry =>
       IF task[t].kind = "create" THEN inst'.status = "failed"
       ELSE /\ StateOf(inst') \in {task[t].prev} \cup Verdicts
            /\ inst.status = OpStatus[task[t].kind] => StateOf(inst') = task[t].prev]_vars

\* A database is marked deleted only when its containers and its directory are
\* gone from the host, as the delete receipt says.  No handler breaks this, in
\* any order of tasks, failures and restarts; the monitor does.
RemovedClean ==
  [][inst.status # "deleted" /\ inst'.status = "deleted" => box = "none" /\ ~files]_vars

\* The handler of a deletion once the removal of the containers succeeded.
PastDown == worker.mode = "run" /\ Current.kind = "delete" /\ worker.step > 4

\* What a deletion guarantees beside the monitor: it is marked deleted only when
\* the directory is gone; the containers are gone when the handler passes their
\* removal, and until it ends only an automatic restart brings any back.
RemovedExceptRestarts ==
  [][/\ inst.status # "deleted" /\ inst'.status = "deleted" => ~files
     /\ ~PastDown /\ PastDown' => box' = "none"
     /\ PastDown /\ box = "none" /\ box' # "none" => poll.mode = "start" /\ poll' # poll]_vars

\* An action is queued only on a status that admits it, although the status is
\* validated before the transaction that queues it.
AdmittedOnly ==
  [][\A t \in TaskIds :
       ~Exists(t) /\ task'[t].status = "queued" /\ ~task'[t].retry /\ task'[t].kind # "create"
         => inst.status \in Admits[task'[t].kind]]_vars

\* The restarts the monitor counts never pass three.
RestartCap == inst.failures <= 3

\* The tasks of the instance, seen as a queue with one resource and one host.
Table == INSTANCE TaskTable WITH
  Resources <- {"instance"}, Hosts <- {"host"}, None <- "none",
  status   <- [t \in TaskIds |-> task[t].status],
  resource <- [t \in TaskIds |-> IF Exists(t) THEN "instance" ELSE "none"],
  host     <- [t \in TaskIds |-> IF Exists(t) THEN "host" ELSE "none"]

ImplementsTable == Table!TableSpec

\* A database shown as running whose containers are not is noticed: the status
\* changes, the containers come back or a task takes over.
Drifted == ~Active /\ inst.status = "running" /\ box # "running"
DriftNoticed == Drifted ~> ~Drifted

--------------------------------------------------------------------------------
(* What documents and tests of the repository say, and the code does not do *)

\* Canceling a queued task never leaves the database in an operation status.
CanceledLeavesStable ==
  [][\A t \in TaskIds : BecomesCanceled(t) => inst'.status \notin Operating]_vars

\* A deleted database stays deleted.
DeletedFinal == [][inst.status = "deleted" => inst'.status = "deleted"]_vars

\* The monitor's step, named by what only it changes.
MonitorWrites == poll.mode \in {"read", "giveUp"} /\ poll' # poll /\ up' = up

\* Only a task changes the state the user asked for.
DesiredOwnedByTasks ==
  [][MonitorWrites => inst'.desired = inst.desired]_vars
================================================================================
