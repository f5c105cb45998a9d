------------------------ MODULE InstanceLifecycleProofs ------------------------
(***************************************************************************)
(* Theorems about InstanceLifecycle for any number of clients, tasks and   *)
(* faults, any subset of the actions, with or without the monitor and the  *)
(* automatic restart.                                                      *)
(***************************************************************************)
EXTENDS InstanceLifecycle, TLAPS

(* The inductive invariant, in named parts. *)

Pending == {"queued", "running"}
Desires == {"running", "stopped", "deleted"}
InstStatuses == Stable \cup Operating \cup {"absent", "deleted"}
InstRow == [status : InstStatuses, desired : Desires, failures : Nat]

\* The instance has at most one task that waits or runs.
OneActive ==
  \A s, t \in TaskIds : task[s].status \in Pending /\ task[t].status \in Pending => s = t

\* A database that was not created yet has no tasks.
CreatedFirst == inst.status = "absent" => \A t \in TaskIds : ~Exists(t)

\* A worker that is busy holds a running row of a process that lives.
WorkerHolds ==
  worker.mode # "idle" => worker.task \in TaskIds /\ Is(worker.task, "running") /\ up # "down"

\* Where a handler is, and what it knows there: the step is one of its program,
\* the state before it is known once its row was loaded, and when it has
\* succeeded no operation status is left.
Position ==
  /\ worker.mode = "run" => worker.step \in 1..Len(Program[Current.kind])
  /\ worker.mode = "run" /\ worker.step > 1 => worker.prev.status \in Stable
  /\ worker.mode = "recover" => worker.result \in Retryable /\ worker.prev.status \in Stable
  /\ worker.mode = "finish" => worker.result \in Ended
  /\ worker.mode = "finish" /\ worker.result = "succeeded" => inst.status \notin Operating

\* A request in flight was validated on the status it has seen.
RequestValid ==
  \A c \in Clients : request[c] # NoRequest =>
    /\ request[c].kind \in Actions
    /\ request[c].seen.status \in Admits[request[c].kind]
    /\ request[c].seen.desired # ""

\* A recovery in preparation is that of an existing task, and can be written.
PlanValid ==
  plan # NoPlan =>
    /\ plan.task \in TaskIds /\ Exists(plan.task)
    /\ plan.preserve = task[plan.task].retry
    /\ plan.state.status \in Stable

IInv ==
  /\ TypeOK
  /\ OneActive
  /\ CreatedFirst
  /\ WorkerHolds
  /\ Position
  /\ RequestValid
  /\ PlanValid

--------------------------------------------------------------------------------
(* Programs *)

LEMMA KindNames == Kinds = {"create", "start", "stop", "restart", "delete"}
BY DEF Kinds, Program

\* A handler ends with its commit and nothing else, and begins with its load.
LEMMA ProgramSteps ==
  ASSUME NEW k \in Kinds, NEW s \in 1..Len(Program[k])
  PROVE  /\ s \in 1..9 /\ 1 \in 1..Len(Program[k])
         /\ Program[k][s] # "commit" => s + 1 \in 1..Len(Program[k])
         /\ Program[k][s] = "load" <=> s = 1
<1>1. CASE k = "create"
  BY <1>1 DEF Program
<1>2. CASE k = "start"
  BY <1>2 DEF Program
<1>3. CASE k = "stop"
  BY <1>3 DEF Program
<1>4. CASE k = "restart"
  BY <1>4 DEF Program
<1>5. CASE k = "delete"
  BY <1>5 DEF Program
<1>6. QED
  BY <1>1, <1>2, <1>3, <1>4, <1>5, KindNames

\* What may be asked for is a kind of task, and is admitted on stable statuses.
LEMMA ActionKinds ==
  ASSUME NEW k \in Actions
  PROVE  k \in Kinds /\ k # "create" /\ Admits[k] \subseteq Stable /\ OpStatus[k] \in Operating
BY KindNames, InstanceConstants DEF InstanceConstants, Admits, Stable, OpStatus, Operating

LEMMA OpStatuses == \A k \in Kinds : OpStatus[k] \in Operating
BY KindNames DEF OpStatus, Operating

--------------------------------------------------------------------------------
(* States *)

LEMMA WithStateRow ==
  ASSUME NEW i \in InstRow, NEW s \in InstStatuses, NEW d \in Desires \cup {""}
  PROVE  /\ WithState(i, State(s, d)) \in InstRow
         /\ WithState(i, State(s, d)).status = s
         /\ d # "" => WithState(i, State(s, d)).desired = d
<1>1. d \in Desires \/ (d = "" /\ i.desired \in Desires)
  BY DEF InstRow
<1>2. QED
  BY <1>1 DEF InstRow, WithState, State, Desires

\* A state is its two parts.
LEMMA StatePair ==
  ASSUME NEW st \in States
  PROVE  st = State(st.status, st.desired)
BY DEF States, State

\* The state a recovery goes back to is stable, and it is the one in the payload
\* where the row shows an operation.
LEMMA PreviousStable ==
  ASSUME NEW row \in Row, NEW i \in InstRow
  PROVE  /\ CurrentOrPrevious(row, i) \in States
         /\ CurrentOrPrevious(row, i).status \in Stable
         /\ i.status \notin Stable /\ row.prev.status # "" /\ row.prev.desired # ""
              => CurrentOrPrevious(row, i) = row.prev
<1>1. row.prev \in States
  BY DEF Row
<1>2. row.prev = State(row.prev.status, row.prev.desired)
  BY <1>1, StatePair
<1>3. /\ row.prev.status \in Stable \cup {""} /\ row.prev.desired \in Desires \cup {""}
      /\ i.desired \in Desires
  BY <1>1 DEF States, InstRow, Desires
<1>4. PreviousState(row, i) \in States /\ PreviousState(row, i).status \in Stable
  BY <1>3 DEF PreviousState, State, States, Stable, Desires
<1>5. row.prev.status # "" /\ row.prev.desired # "" => PreviousState(row, i) = row.prev
  BY <1>2, <1>3 DEF PreviousState
<1>6. i.status \in Stable => StateOf(i) \in States /\ StateOf(i).status \in Stable
  BY <1>3 DEF StateOf, State, States, Stable, Desires
<1>7. QED
  BY <1>4, <1>5, <1>6 DEF CurrentOrPrevious

--------------------------------------------------------------------------------
(* Steps that leave the table and the worker alone *)

LEMMA TableAndWorkerKept ==
  ASSUME IInv, TypeOK', UNCHANGED <<task, worker>>,
         up' = "down" => up = "down",
         inst'.status = "absent" => inst.status = "absent",
         inst'.status \in Operating => inst.status \in Operating,
         RequestValid', PlanValid'
  PROVE  IInv'
<1>1. OneActive' /\ CreatedFirst' /\ WorkerHolds'
  BY DEF IInv, OneActive, CreatedFirst, WorkerHolds, Exists, Is
<1>2. Position'
  BY DEF IInv, Position, Current
<1>3. QED
  BY <1>1, <1>2 DEF IInv

LEMMA PlanKept ==
  ASSUME IInv, UNCHANGED <<task, plan>>
  PROVE  PlanValid'
BY DEF IInv, PlanValid, Exists

LEMMA RequestKept ==
  ASSUME IInv, \A c \in Clients : request'[c] \in {request[c], NoRequest}
  PROVE  RequestValid'
BY DEF IInv, RequestValid

LEMMA NoStates == NoState \in States /\ NoRequest.seen = NoState
BY DEF NoState, NoRequest, State, States

LEMMA ReadForActionStep ==
  ASSUME IInv, NEW c \in Clients, NEW k \in Actions, ReadForAction(c, k)
  PROVE  IInv'
<1> DEFINE new == [kind |-> k, seen |-> StateOf(inst)]
<1>1. /\ inst.status \in Admits[k]
      /\ request' = [request EXCEPT ![c] = new]
      /\ UNCHANGED <<inst, files, box, task, up, worker, plan, poll, faults>>
  BY DEF ReadForAction, Remote
<1>2. inst.status \in Stable /\ inst.desired \in Desires
  BY <1>1, ActionKinds DEF IInv, TypeOK, Desires
<1>3. /\ StateOf(inst) \in States /\ StateOf(inst).status = inst.status
      /\ StateOf(inst).desired # ""
  BY <1>2 DEF StateOf, State, States, Desires
<1>4. new \in [kind : Actions \cup {"none"}, seen : States]
  BY <1>3
<1>5. new.kind = k /\ new.seen.status \in Admits[k] /\ new.seen.desired # ""
  BY <1>1, <1>3
<1> HIDE DEF new
<1>6. TypeOK'
  BY <1>1, <1>4 DEF IInv, TypeOK
<1>7. RequestValid'
  BY <1>1, <1>5 DEF IInv, TypeOK, RequestValid
<1>8. QED
  BY <1>1, <1>6, <1>7, PlanKept, TableAndWorkerKept

LEMMA RejectActionStep ==
  ASSUME IInv, NEW c \in Clients, RejectAction(c)
  PROVE  IInv'
<1>1. /\ request' = [request EXCEPT ![c] = NoRequest]
      /\ UNCHANGED <<inst, files, box, task, up, worker, plan, poll, faults>>
  BY DEF RejectAction, Remote
<1>2. NoRequest \in [kind : Actions \cup {"none"}, seen : States]
  BY NoStates DEF NoRequest
<1>3. TypeOK'
  BY <1>1, <1>2 DEF IInv, TypeOK
<1>4. RequestValid'
  BY <1>1, RequestKept DEF IInv, TypeOK
<1>5. QED
  BY <1>1, <1>3, <1>4, PlanKept, TableAndWorkerKept

\* An existing row of a well-typed table is a Row.
LEMMA ExistingRow ==
  ASSUME IInv, NEW t \in TaskIds, Exists(t)
  PROVE  task[t] \in Row
BY DEF IInv, TypeOK, Exists, NoRow

LEMMA PrepareCancelStep ==
  ASSUME IInv, NEW t \in TaskIds, PrepareCancel(t)
  PROVE  IInv'
<1> DEFINE st == QueuedRecovery(task[t], inst)
<1>1. /\ Is(t, "queued")
      /\ plan' = [task |-> t, preserve |-> task[t].retry, state |-> st]
      /\ UNCHANGED <<inst, files, box, task, up, worker, request, poll, faults>>
  BY DEF PrepareCancel, Remote
<1>2. Exists(t) /\ task[t] \in Row
  BY <1>1, ExistingRow DEF Exists, Is
<1>3. State("failed", "") \in States /\ State("failed", "").status \in Stable
  BY DEF State, States, Stable
<1>4. st \in States /\ st.status \in Stable
  BY <1>2, <1>3, PreviousStable DEF QueuedRecovery, IInv, TypeOK, InstRow, InstStatuses, Desires
<1> HIDE DEF st
<1>5. task[t].retry \in BOOLEAN
  BY <1>2, Zenon DEF Row
<1>6. TypeOK'
  BY <1>1, <1>4, <1>5 DEF IInv, TypeOK
<1>7. PlanValid'
  <2>1. plan'.task = t /\ plan'.preserve = task[t].retry /\ plan'.state = st
    BY <1>1, Zenon
  <2>2. task' = task
    BY <1>1
  <2>3. QED
    BY <1>2, <1>4, <2>1, <2>2, Zenon DEF PlanValid, Exists
<1>8. QED
  BY <1>1, <1>6, <1>7, RequestKept, TableAndWorkerKept

--------------------------------------------------------------------------------
(* The monitor and the containers *)

LEMMA PollTypes ==
  /\ NoPoll \in [mode : {"idle", "observed", "read", "restart", "start", "giveUp"},
                 box : Boxes, seen : States, failures : Nat]
  /\ \A b \in Boxes : Decide("stopped", b) \in Stable
  /\ \A d, b : Decide(d, b) \in Stable
BY NoStates DEF NoPoll, Boxes, Decide, Stable

\* What the monitor writes to the row: a stable status, and one more failure
\* when it counts a restart.
LEMMA CheckWrites ==
  ASSUME IInv, Check \/ PollStopped
  PROVE  /\ inst' \in InstRow
         /\ inst'.status # inst.status => inst'.status \in Stable
<1> DEFINE desired == poll.seen.desired
<1>1. inst \in InstRow /\ desired \in Desires \cup {""}
  BY DEF IInv, TypeOK, InstRow, InstStatuses, Desires, States
<1>2. inst.failures \in Nat
  BY <1>1 DEF InstRow
<1>3. inst.failures + 1 \in Nat
  BY <1>2
<1>4. CASE Reconcile
  <2>1. inst' = WithState(inst, State(Decide(desired, poll.box), desired))
    BY <1>4 DEF Reconcile, UpdateState
  <2>2. Decide(desired, poll.box) \in Stable
    BY PollTypes
  <2>3. Decide(desired, poll.box) \in InstStatuses
    BY <2>2 DEF InstStatuses
  <2>4. inst' \in InstRow /\ inst'.status = Decide(desired, poll.box)
    BY <1>1, <2>1, <2>3, WithStateRow, ZenonT(60)
  <2>5. QED
    BY <2>2, <2>4
<1>5. CASE GiveUp
  <2> DEFINE status == "degraded"
  <2>1. inst' = WithState(inst, State(status, desired))
    BY <1>5 DEF GiveUp, UpdateState
  <2>2. status \in Stable /\ status \in InstStatuses
    BY DEF InstStatuses, Stable
  <2> HIDE DEF status
  <2>3. inst' \in InstRow /\ inst'.status = status
    BY <1>1, <2>1, <2>2, WithStateRow
  <2>4. QED
    BY <2>2, <2>3
<1>6. CASE CountRestart
  <2>1. inst' = [inst EXCEPT !.failures = inst.failures + 1]
    BY <1>6 DEF CountRestart
  <2>2. QED
    BY <1>1, <1>3, <2>1 DEF InstRow
<1>7. CASE Observe \/ ReadRow \/ AutoStart \/ AutoStartFails \/ PollStopped
  BY <1>1, <1>7 DEF Observe, ReadRow, AutoStart, AutoStartFails, PollStopped
<1>8. QED
  BY <1>4, <1>5, <1>6, <1>7 DEF Check

\* The monitor writes a stable status, and nothing but the row and its check.
LEMMA MonitorStep ==
  ASSUME IInv, Check \/ PollStopped
  PROVE  IInv'
<1>1. UNCHANGED <<files, task, up, worker, request, plan, faults>>
  BY DEF Check, Observe, ReadRow, Reconcile, CountRestart, AutoStart, AutoStartFails, GiveUp,
         PollStopped, Remote
<1>2. box \in Boxes /\ inst \in InstRow
  BY DEF IInv, TypeOK, InstRow, InstStatuses, Desires
<1>3. inst.failures \in Nat
  BY <1>2 DEF InstRow
<1>4. inst.failures + 1 \in Nat
  BY <1>3
<1>5. box' \in Boxes
  BY <1>2 DEF Check, Observe, ReadRow, Reconcile, CountRestart, AutoStart, AutoStartFails, GiveUp,
              PollStopped, Remote, Done, Partly, Boxes, Alive
<1>6. /\ inst' \in InstRow
      /\ inst'.status # inst.status => inst'.status \in Stable
  BY CheckWrites
<1>7. poll' \in [mode : {"idle", "observed", "read", "restart", "start", "giveUp"},
                 box : Boxes, seen : States, failures : Nat]
  <2>1. poll \in [mode : {"idle", "observed", "read", "restart", "start", "giveUp"},
                  box : Boxes, seen : States, failures : Nat]
    BY DEF IInv, TypeOK
  <2>2. CASE Observe
    BY <1>2, <2>2, PollTypes DEF Observe, NoPoll
  <2>3. CASE ReadRow
    <3>1. ~(inst.status \in {"absent", "deleted"} \/ TaskOwns(inst.status)) => StateOf(inst) \in States
      BY <1>2 DEF TaskOwns, StateOf, State, States, InstRow, InstStatuses, Desires
    <3>2. CASE inst.status \in {"absent", "deleted"} \/ TaskOwns(inst.status)
      BY <2>3, <3>2, PollTypes DEF ReadRow
    <3>3. CASE ~(inst.status \in {"absent", "deleted"} \/ TaskOwns(inst.status))
      <4>1. poll' = [poll EXCEPT !.mode = "read", !.seen = StateOf(inst), !.failures = inst.failures]
        BY <2>3, <3>3 DEF ReadRow
      <4>2. QED
        BY <1>3, <2>1, <3>1, <3>3, <4>1
    <3>4. QED
      BY <3>2, <3>3
  <2>4. CASE Reconcile
    BY <2>1, <2>4, PollTypes DEF Reconcile
  <2>5. CASE CountRestart
    BY <1>4, <2>1, <2>5 DEF CountRestart
  <2>6. CASE AutoStart \/ GiveUp \/ PollStopped
    BY <2>6, PollTypes DEF AutoStart, GiveUp, PollStopped
  <2>7. CASE AutoStartFails
    BY <2>1, <2>7, PollTypes DEF AutoStartFails
  <2>8. QED
    BY <2>2, <2>3, <2>4, <2>5, <2>6, <2>7 DEF Check
<1>8. TypeOK'
  BY <1>1, <1>5, <1>6, <1>7 DEF IInv, TypeOK, InstRow, InstStatuses, Desires
<1>9. /\ inst'.status = "absent" => inst.status = "absent"
      /\ inst'.status \in Operating => inst.status \in Operating
  BY <1>6 DEF Stable, Operating
<1>10. QED
  BY <1>1, <1>8, <1>9, PlanKept, RequestKept, TableAndWorkerKept

LEMMA EnvironmentStep ==
  ASSUME IInv, ContainersFail \/ ContainersBoot \/ ContainersHeal \/ Shutdown
  PROVE  IInv'
<1>1. /\ UNCHANGED <<inst, files, task, worker, request, plan, poll>>
      /\ box' \in Boxes
      /\ up' \in {up, "stopping"}
      /\ faults' \in 0..MaxFaults
  BY InstanceConstants
     DEF ContainersFail, ContainersBoot, ContainersHeal, Shutdown, Remote, Fault, IInv, TypeOK,
         Boxes, Alive, InstanceConstants
<1>2. TypeOK'
  BY <1>1 DEF IInv, TypeOK
<1>3. QED
  BY <1>1, <1>2, PlanKept, RequestKept, TableAndWorkerKept

--------------------------------------------------------------------------------
(* Steps that change rows of the table *)

\* No row comes or goes, and none changes what it asks for.
RowsKept ==
  \A t \in TaskIds :
    /\ task'[t].status # "absent" <=> task[t].status # "absent"
    /\ Exists(t) => /\ task'[t].kind = task[t].kind
                    /\ task'[t].retry = task[t].retry
                    /\ task'[t].prev = task[t].prev

NoneStarts == \A t \in TaskIds : task'[t].status \in Pending => task[t].status \in Pending

LEMMA SameTable ==
  ASSUME UNCHANGED task
  PROVE  RowsKept /\ NoneStarts
BY DEF RowsKept, NoneStarts

LEMMA RowReplaced ==
  ASSUME IInv, NEW t \in TaskIds, Exists(t), NEW row \in Row,
         row.kind = task[t].kind, row.retry = task[t].retry, row.prev = task[t].prev,
         task' = [task EXCEPT ![t] = row]
  PROVE  /\ task' \in [TaskIds -> Row \cup {NoRow}]
         /\ task'[t] = row
         /\ \A s \in TaskIds \ {t} : task'[s] = task[s]
         /\ RowsKept
         /\ row.status \in Pending => (task[t].status \in Pending => NoneStarts)
         /\ row.status \notin Pending => NoneStarts
<1>1. task \in [TaskIds -> Row \cup {NoRow}]
  BY DEF IInv, TypeOK
<1>2. /\ task' \in [TaskIds -> Row \cup {NoRow}]
      /\ task'[t] = row
      /\ \A s \in TaskIds \ {t} : task'[s] = task[s]
  BY <1>1
<1>3. row.status # "absent"
  BY DEF Row, Ended
<1>4. RowsKept
  <2> SUFFICES ASSUME NEW s \in TaskIds
               PROVE  /\ task'[s].status # "absent" <=> task[s].status # "absent"
                      /\ Exists(s) => /\ task'[s].kind = task[s].kind
                                      /\ task'[s].retry = task[s].retry
                                      /\ task'[s].prev = task[s].prev
    BY DEF RowsKept
  <2>1. CASE s = t
    BY <1>2, <1>3, <2>1, Zenon DEF Exists
  <2>2. CASE s # t
    BY <1>2, <2>2, Zenon
  <2>3. QED
    BY <2>1, <2>2
<1>5. /\ row.status \in Pending => (task[t].status \in Pending => NoneStarts)
      /\ row.status \notin Pending => NoneStarts
  BY <1>2 DEF NoneStarts
<1>6. QED
  BY <1>2, <1>4, <1>5, Zenon

LEMMA TableParts ==
  ASSUME IInv, RowsKept, NoneStarts,
         inst'.status = "absent" => inst.status = "absent",
         plan' \in {plan, NoPlan},
         \A c \in Clients : request'[c] \in {request[c], NoRequest}
  PROVE  OneActive' /\ CreatedFirst' /\ PlanValid' /\ RequestValid'
<1>1. OneActive'
  BY DEF IInv, OneActive, NoneStarts
<1>2. CreatedFirst'
  BY DEF IInv, CreatedFirst, RowsKept, Exists
<1>3. PlanValid'
  <2>1. CASE plan' = plan
    <3> SUFFICES ASSUME plan # NoPlan
                 PROVE  PlanValid'
      BY <2>1 DEF PlanValid
    <3>1. plan.task \in TaskIds /\ Exists(plan.task) /\ plan.preserve = task[plan.task].retry
          /\ plan.state.status \in Stable
      BY DEF IInv, PlanValid
    <3>2. task'[plan.task].status # "absent" /\ task'[plan.task].retry = task[plan.task].retry
      BY <3>1 DEF RowsKept, Exists
    <3>3. QED
      BY <2>1, <3>1, <3>2, Zenon DEF PlanValid, Exists
  <2>2. CASE plan' = NoPlan
    BY <2>2 DEF PlanValid
  <2>3. QED
    BY <2>1, <2>2
<1>4. QED
  BY <1>1, <1>2, <1>3, RequestKept

\* A busy worker, and what it holds.
LEMMA Busy ==
  ASSUME IInv, worker.mode # "idle"
  PROVE  /\ worker.task \in TaskIds /\ Exists(worker.task)
         /\ Current \in Row /\ Current.kind \in Kinds /\ Current.status = "running"
         /\ up # "down"
<1>1. worker.task \in TaskIds /\ Current.status = "running" /\ up # "down"
  BY DEF IInv, WorkerHolds, Is, Current
<1>2. Exists(worker.task)
  BY <1>1 DEF Exists, Current
<1>3. Current \in Row
  BY <1>1, <1>2, ExistingRow DEF Current
<1>4. QED
  BY <1>1, <1>2, <1>3 DEF Row

LEMMA WorkerTypes ==
  ASSUME IInv
  PROVE  /\ worker \in [task : TaskIds \cup {0}, mode : {"idle", "run", "recover", "finish"},
                        step : 1..9, prev : States, result : Ended \cup {"none"}]
         /\ worker.mode = "run" => worker.step \in 1..Len(Program[Current.kind])
         /\ worker.mode = "run" /\ worker.step # 1 => worker.prev.status \in Stable
BY DEF IInv, TypeOK, Position

\* The worker does nothing, and its row goes on running.
LEMMA WorkerWaits ==
  ASSUME IInv, RowsKept, UNCHANGED worker, up' = "down" => up = "down",
         worker.mode # "idle" => task'[worker.task].status = "running",
         inst'.status \in Operating => inst.status \in Operating \/ worker.mode # "finish"
  PROVE  WorkerHolds' /\ Position'
<1>1. WorkerHolds'
  BY DEF IInv, WorkerHolds, Is
<1>2. worker.mode = "run" => task'[worker.task].kind = Current.kind
  BY Busy DEF RowsKept, Current
<1>3. Position'
  BY <1>2 DEF IInv, Position, Current
<1>4. QED
  BY <1>1, <1>3

\* The step of a running handler that is neither its first nor its last.
LEMMA WorkerAdvances ==
  ASSUME IInv, RowsKept, worker.mode = "run", Advance, UNCHANGED up,
         Program[Current.kind][worker.step] \notin {"load", "commit"},
         task'[worker.task].status = "running"
  PROVE  /\ worker' \in [task : TaskIds \cup {0}, mode : {"idle", "run", "recover", "finish"},
                         step : 1..9, prev : States, result : Ended \cup {"none"}]
         /\ WorkerHolds' /\ Position'
<1> DEFINE k == Current.kind
           n == worker.step + 1
<1>1. k \in Kinds /\ worker.task \in TaskIds /\ up # "down"
  BY Busy
<1>2. task'[worker.task].kind = k
  BY <1>1, Busy DEF RowsKept, Current
<1>3. worker.step \in 1..Len(Program[k])
  BY WorkerTypes
<1>4. n \in 1..Len(Program[k]) /\ worker.step # 1
  BY <1>1, <1>3, ProgramSteps
<1>5. n \in 1..9 /\ n # 1
  BY <1>1, <1>3, <1>4, ProgramSteps, SMTT(40)
<1>6. worker.prev.status \in Stable
  BY <1>4, WorkerTypes
<1>7. worker' = [worker EXCEPT !.step = n]
  BY DEF Advance
<1> HIDE DEF n, k
<1>8. /\ worker' \in [task : TaskIds \cup {0}, mode : {"idle", "run", "recover", "finish"},
                      step : 1..9, prev : States, result : Ended \cup {"none"}]
      /\ worker'.task = worker.task /\ worker'.mode = "run" /\ worker'.step = n
      /\ worker'.prev = worker.prev
  BY <1>5, <1>7, WorkerTypes
<1>9. WorkerHolds'
  BY <1>1, <1>8 DEF WorkerHolds, Is
<1>10. Position'
  BY <1>2, <1>4, <1>6, <1>8 DEF Position, Current
<1>11. QED
  BY <1>8, <1>9, <1>10

LEMMA WorkerThrows ==
  ASSUME IInv, RowsKept, worker.mode = "run", NEW result \in Retryable, Throw(result),
         UNCHANGED up, task'[worker.task].status = "running"
  PROVE  /\ worker' \in [task : TaskIds \cup {0}, mode : {"idle", "run", "recover", "finish"},
                         step : 1..9, prev : States, result : Ended \cup {"none"}]
         /\ WorkerHolds' /\ Position'
<1>1. worker' = [worker EXCEPT !.mode = IF worker.step = 1 THEN "finish" ELSE "recover",
                               !.result = result]
  BY DEF Throw
<1>2. result \in Ended /\ result # "succeeded"
  BY DEF Ended, Retryable
<1>3. /\ worker' \in [task : TaskIds \cup {0}, mode : {"idle", "run", "recover", "finish"},
                      step : 1..9, prev : States, result : Ended \cup {"none"}]
      /\ worker'.task = worker.task /\ worker'.result = result /\ worker'.prev = worker.prev
      /\ worker'.mode = IF worker.step = 1 THEN "finish" ELSE "recover"
  BY <1>1, <1>2, WorkerTypes
<1>4. worker.task \in TaskIds /\ up # "down"
  BY Busy
<1>5. WorkerHolds'
  BY <1>3, <1>4 DEF WorkerHolds, Is
<1>6. worker'.mode \in {"recover", "finish"}
      /\ (worker'.mode = "recover" => worker.prev.status \in Stable)
  BY <1>3, WorkerTypes
<1>7. Position'
  BY <1>2, <1>3, <1>6 DEF Position
<1>8. QED
  BY <1>3, <1>5, <1>7

--------------------------------------------------------------------------------
(* What the steps make of a row *)

TouchedRow(row) == [row EXCEPT !.touched = TRUE]
AskedRow(row) == [row EXCEPT !.cancelAsked = TRUE]
StagedRow(row, open) == [row EXCEPT !.cancelable = open]
MovedRow(row, status, open) == [row EXCEPT !.status = status, !.cancelable = open]
CanceledRow(row) == [row EXCEPT !.status = "canceled", !.cancelable = FALSE, !.cancelAsked = TRUE]

SameTask(new, row) == new.kind = row.kind /\ new.retry = row.retry /\ new.prev = row.prev

LEMMA TouchedFields ==
  ASSUME NEW row \in Row
  PROVE  /\ TouchedRow(row) \in Row /\ SameTask(TouchedRow(row), row)
         /\ TouchedRow(row).status = row.status
         /\ TouchedRow(row).cancelable = row.cancelable
         /\ TouchedRow(row).cancelAsked = row.cancelAsked
<1>1. TouchedRow(row) \in Row /\ TouchedRow(row).status = row.status
  BY DEF TouchedRow, Row
<1>2. SameTask(TouchedRow(row), row)
  BY Zenon DEF TouchedRow, Row, SameTask
<1>3. /\ TouchedRow(row).cancelable = row.cancelable
      /\ TouchedRow(row).cancelAsked = row.cancelAsked
  BY Zenon DEF TouchedRow, Row
<1>4. QED
  BY <1>1, <1>2, <1>3, Zenon

LEMMA AskedFields ==
  ASSUME NEW row \in Row
  PROVE  /\ AskedRow(row) \in Row /\ SameTask(AskedRow(row), row)
         /\ AskedRow(row).status = row.status
         /\ AskedRow(row).cancelable = row.cancelable
         /\ AskedRow(row).touched = row.touched
<1>1. AskedRow(row) \in Row /\ AskedRow(row).status = row.status
  BY DEF AskedRow, Row
<1>2. SameTask(AskedRow(row), row)
  BY Zenon DEF AskedRow, Row, SameTask
<1>3. /\ AskedRow(row).cancelable = row.cancelable
      /\ AskedRow(row).touched = row.touched
  BY Zenon DEF AskedRow, Row
<1>4. QED
  BY <1>1, <1>2, <1>3, Zenon

LEMMA StagedFields ==
  ASSUME NEW row \in Row, NEW open \in BOOLEAN
  PROVE  /\ StagedRow(row, open) \in Row /\ SameTask(StagedRow(row, open), row)
         /\ StagedRow(row, open).status = row.status
         /\ StagedRow(row, open).cancelable = open
         /\ StagedRow(row, open).cancelAsked = row.cancelAsked
         /\ StagedRow(row, open).touched = row.touched
<1>1. StagedRow(row, open) \in Row /\ StagedRow(row, open).status = row.status
  BY DEF StagedRow, Row
<1>2. SameTask(StagedRow(row, open), row)
  BY Zenon DEF StagedRow, Row, SameTask
<1>3. /\ StagedRow(row, open).cancelable = open
      /\ StagedRow(row, open).cancelAsked = row.cancelAsked
      /\ StagedRow(row, open).touched = row.touched
  BY Zenon DEF StagedRow, Row
<1>4. QED
  BY <1>1, <1>2, <1>3, Zenon

LEMMA MovedFields ==
  ASSUME NEW row \in Row, NEW status \in {"queued", "running"} \cup Ended, NEW open \in BOOLEAN
  PROVE  /\ MovedRow(row, status, open) \in Row /\ SameTask(MovedRow(row, status, open), row)
         /\ MovedRow(row, status, open).status = status
         /\ MovedRow(row, status, open).cancelAsked = row.cancelAsked
         /\ MovedRow(row, status, open).touched = row.touched
<1>1. MovedRow(row, status, open) \in Row /\ MovedRow(row, status, open).status = status
  BY DEF MovedRow, Row
<1>2. SameTask(MovedRow(row, status, open), row)
  BY Zenon DEF MovedRow, Row, SameTask
<1>3. /\ MovedRow(row, status, open).cancelAsked = row.cancelAsked
      /\ MovedRow(row, status, open).touched = row.touched
  BY Zenon DEF MovedRow, Row
<1>4. QED
  BY <1>1, <1>2, <1>3, Zenon

LEMMA CanceledFields ==
  ASSUME NEW row \in Row
  PROVE  /\ CanceledRow(row) \in Row /\ SameTask(CanceledRow(row), row)
         /\ CanceledRow(row).status = "canceled"
         /\ CanceledRow(row).touched = row.touched
<1>1. CanceledRow(row) \in Row /\ CanceledRow(row).status = "canceled"
  BY DEF CanceledRow, Row, Ended
<1>2. SameTask(CanceledRow(row), row)
  BY Zenon DEF CanceledRow, Row, SameTask
<1>3. CanceledRow(row).touched = row.touched
  BY Zenon DEF CanceledRow, Row
<1>4. QED
  BY <1>1, <1>2, <1>3, Zenon

\* The row of the busy worker, replaced by one that goes on running.
LEMMA RowGoesOn ==
  ASSUME IInv, worker.mode # "idle", NEW row \in Row, SameTask(row, Current),
         row.status = "running", task' = [task EXCEPT ![worker.task] = row]
  PROVE  /\ task' \in [TaskIds -> Row \cup {NoRow}] /\ RowsKept /\ NoneStarts
         /\ task'[worker.task] = row /\ task'[worker.task].status = "running"
         /\ \A s \in TaskIds \ {worker.task} : task'[s] = task[s]
<1>1. worker.task \in TaskIds /\ Exists(worker.task) /\ Current.status = "running"
  BY Busy
<1>2. /\ row.kind = task[worker.task].kind /\ row.retry = task[worker.task].retry
      /\ row.prev = task[worker.task].prev
  BY Zenon DEF SameTask, Current
<1>3. row.status \in Pending /\ task[worker.task].status \in Pending
  BY <1>1 DEF Pending, Current
<1>4. /\ task' \in [TaskIds -> Row \cup {NoRow}] /\ RowsKept /\ NoneStarts
      /\ task'[worker.task] = row
      /\ \A s \in TaskIds \ {worker.task} : task'[s] = task[s]
  BY <1>1, <1>2, <1>3, RowReplaced
<1>5. QED
  BY <1>4

\* The worker leaves the table alone.
LEMMA BusyTableKept ==
  ASSUME IInv, worker.mode # "idle", UNCHANGED task
  PROVE  /\ task' \in [TaskIds -> Row \cup {NoRow}] /\ RowsKept /\ NoneStarts
         /\ task'[worker.task].status = "running"
<1>1. task' \in [TaskIds -> Row \cup {NoRow}]
  BY DEF IInv, TypeOK
<1>2. QED
  BY <1>1, Busy, SameTable DEF Current

--------------------------------------------------------------------------------
(* The worker *)

LEMMA InstTyped == ASSUME IInv PROVE inst \in InstRow
BY DEF IInv, TypeOK, InstRow, InstStatuses, Desires

LEMMA WorkStepCloses ==
  ASSUME IInv, RowsKept, NoneStarts, WorkerHolds', Position',
         task' \in [TaskIds -> Row \cup {NoRow}],
         worker' \in [task : TaskIds \cup {0}, mode : {"idle", "run", "recover", "finish"},
                      step : 1..9, prev : States, result : Ended \cup {"none"}],
         inst' \in InstRow, files' \in BOOLEAN, box' \in Boxes, faults' \in 0..MaxFaults,
         UNCHANGED <<up, request, plan, poll>>,
         inst'.status = "absent" => inst.status = "absent"
  PROVE  IInv'
<1>1. OneActive' /\ CreatedFirst' /\ PlanValid' /\ RequestValid'
  BY TableParts
<1>2. TypeOK'
  BY DEF IInv, TypeOK, InstRow, InstStatuses, Desires
<1>3. QED
  BY <1>1, <1>2 DEF IInv

LEMMA RunAt ==
  ASSUME NEW step, At(step)
  PROVE  worker.mode = "run" /\ Program[Current.kind][worker.step] = step
BY DEF At

LEMMA HostTyped == ASSUME IInv PROVE box \in Boxes /\ files \in BOOLEAN /\ faults \in 0..MaxFaults
BY DEF IInv, TypeOK

\* What a command on the containers leaves is a state of them.
LEMMA EffectBoxes ==
  ASSUME NEW e \in ContainerEffects, box \in Boxes
  PROVE  Done(e) \subseteq Boxes /\ Partly(e) \subseteq Boxes
BY DEF ContainerEffects, Done, Partly, Boxes, Alive

LEMMA ClaimStep ==
  ASSUME IInv, NEW t \in TaskIds, Claim(t)
  PROVE  IInv'
<1> DEFINE row == MovedRow(task[t], "running", TRUE)
<1>1. /\ up = "up" /\ worker.mode = "idle" /\ task[t].status = "queued"
      /\ task' = [task EXCEPT ![t] = row]
      /\ worker' = [Idle EXCEPT !.task = t, !.mode = "run"]
      /\ UNCHANGED <<inst, files, box, up, request, plan, poll, faults>>
  BY DEF Claim, Is, MovedRow, Remote
<1>2. Exists(t) /\ task[t] \in Row
  BY <1>1, ExistingRow DEF Exists
<1>3. row \in Row /\ row.status = "running" /\ SameTask(row, task[t])
  BY <1>2, MovedFields
<1> HIDE DEF row
<1>4. row.kind = task[t].kind /\ row.retry = task[t].retry /\ row.prev = task[t].prev
  BY <1>3, Zenon DEF SameTask
<1>5. /\ task' \in [TaskIds -> Row \cup {NoRow}] /\ task'[t] = row /\ RowsKept
      /\ row.status \in Pending => (task[t].status \in Pending => NoneStarts)
  BY <1>1, <1>2, <1>3, <1>4, RowReplaced
<1>6. NoneStarts
  BY <1>1, <1>3, <1>5 DEF Pending
<1>7. /\ worker'.task = t /\ worker'.mode = "run" /\ worker'.step = 1
      /\ worker' \in [task : TaskIds \cup {0}, mode : {"idle", "run", "recover", "finish"},
                      step : 1..9, prev : States, result : Ended \cup {"none"}]
  <2>1. worker' = [task |-> t, mode |-> "run", step |-> 1, prev |-> NoState, result |-> "none"]
    BY <1>1 DEF Idle
  <2>2. 1 \in 1..9 /\ t \in TaskIds \cup {0} /\ NoState \in States
    BY NoStates
  <2>3. QED
    BY <2>1, <2>2
<1>8. WorkerHolds'
  BY <1>1, <1>3, <1>5, <1>7 DEF WorkerHolds, Is
<1>9. 1 \in 1..Len(Program[row.kind])
  <2>1. row.kind \in Kinds
    BY <1>3 DEF Row
  <2>2. QED
    BY <2>1, KindNames DEF Program
<1>10. Position'
  <2>1. Current' = row
    BY <1>5, <1>7 DEF Current
  <2>2. QED
    BY <1>7, <1>9, <2>1 DEF Position
<1>11. QED
  BY <1>1, <1>5, <1>6, <1>7, <1>8, <1>10, InstTyped, HostTyped, WorkStepCloses

LEMMA LoadStep ==
  ASSUME IInv, Load
  PROVE  IInv'
<1> DEFINE prev == CurrentOrPrevious(Current, inst)
<1>1. /\ worker.mode = "run" /\ Program[Current.kind][worker.step] = "load"
      /\ worker' = [worker EXCEPT !.step = 2, !.prev = prev]
      /\ UNCHANGED <<inst, files, box, task, up, request, plan, poll, faults>>
  BY RunAt DEF Load, Remote
<1>2. prev \in States /\ prev.status \in Stable
  BY <1>1, Busy, InstTyped, PreviousStable
<1> HIDE DEF prev
<1>3. worker'.task = worker.task /\ worker'.mode = "run" /\ worker'.step = 2 /\ worker'.prev = prev
  BY <1>1, WorkerTypes
<1>4. worker' \in [task : TaskIds \cup {0}, mode : {"idle", "run", "recover", "finish"},
                   step : 1..9, prev : States, result : Ended \cup {"none"}]
  <2>1. 2 \in 1..9
    OBVIOUS
  <2>2. QED
    BY <1>1, <1>2, <2>1, WorkerTypes
<1>5. worker.mode # "idle"
  BY <1>1
<1>6. WorkerHolds'
  BY <1>1, <1>3, <1>5, Busy DEF WorkerHolds, Is, Current
<1>7. 2 \in 1..Len(Program[Current.kind])
  <2>1. Current.kind \in Kinds
    BY <1>5, Busy
  <2>2. QED
    BY <2>1, KindNames, SMTT(40) DEF Program
<1>8. Position'
  <2>1. Current' = Current
    BY <1>1, <1>3 DEF Current
  <2>2. QED
    BY <1>2, <1>3, <1>7, <2>1 DEF Position
<1>9. QED
  BY <1>1, <1>4, <1>5, <1>6, <1>8, BusyTableKept, InstTyped, HostTyped, WorkStepCloses

\* mark shows the operation of the running task.
LEMMA MarkWrites ==
  ASSUME IInv, Mark
  PROVE  /\ worker.mode = "run" /\ Program[Current.kind][worker.step] = "mark" /\ Advance
         /\ UNCHANGED <<files, box, task, up, request, plan, poll, faults>>
         /\ inst' \in InstRow /\ inst'.status = OpStatus[Current.kind]
         /\ inst'.status \in Operating
<1> DEFINE s == OpStatus[Current.kind]
           d == worker.prev.desired
<1>1. /\ worker.mode = "run" /\ Program[Current.kind][worker.step] = "mark"
      /\ inst' = WithState(inst, State(s, d)) /\ Advance
      /\ UNCHANGED <<files, box, task, up, request, plan, poll, faults>>
  BY RunAt DEF Mark, UpdateState, Remote
<1>2. worker.mode # "idle"
  BY <1>1
<1>3. s \in Operating /\ s \in InstStatuses
  BY <1>2, Busy, OpStatuses DEF InstStatuses
<1>4. d \in Desires \cup {""}
  BY WorkerTypes DEF States, Desires
<1> HIDE DEF s, d
<1>5. WithState(inst, State(s, d)) \in InstRow /\ WithState(inst, State(s, d)).status = s
  BY <1>3, <1>4, InstTyped, WithStateRow
<1>6. inst' \in InstRow /\ inst'.status = s
  BY <1>1, <1>5
<1>7. QED
  BY <1>1, <1>3, <1>6 DEF s

LEMMA MarkStep ==
  ASSUME IInv, Mark
  PROVE  IInv'
<1>1. worker.mode # "idle" /\ Program[Current.kind][worker.step] \notin {"load", "commit"}
  BY MarkWrites
<1>2. inst'.status # "absent"
  BY MarkWrites DEF Operating
<1>3. QED
  BY <1>1, <1>2, MarkWrites, BusyTableKept, WorkerAdvances, HostTyped, WorkStepCloses

LEMMA StageStep ==
  ASSUME IInv, Stage
  PROVE  IInv'
<1> DEFINE row == StagedRow(Current, At("check"))
<1>1. /\ worker.mode = "run" /\ Program[Current.kind][worker.step] \in {"check", "seal"}
      /\ task' = [task EXCEPT ![worker.task] = row] /\ Advance
      /\ UNCHANGED <<inst, files, box, up, request, plan, poll, faults>>
  BY RunAt DEF Stage, StagedRow, Remote, Current
<1>2. worker.mode # "idle" /\ Program[Current.kind][worker.step] \notin {"load", "commit"}
  BY <1>1
<1>3. At("check") \in BOOLEAN
  BY DEF At
<1>4. row \in Row /\ row.status = "running" /\ SameTask(row, Current)
  BY <1>2, <1>3, Busy, StagedFields
<1> HIDE DEF row
<1>5. QED
  BY <1>1, <1>2, <1>4, RowGoesOn, WorkerAdvances, InstTyped, HostTyped, WorkStepCloses

LEMMA StageCanceledStep ==
  ASSUME IInv, StageCanceled
  PROVE  IInv'
<1>1. /\ worker.mode = "run" /\ Throw("canceled")
      /\ UNCHANGED <<inst, files, box, task, up, request, plan, poll, faults>>
  BY RunAt DEF StageCanceled, Remote
<1>2. worker.mode # "idle" /\ "canceled" \in Retryable
  BY <1>1 DEF Retryable
<1>3. QED
  BY <1>1, <1>2, BusyTableKept, WorkerThrows, InstTyped, HostTyped, WorkStepCloses

\* A command is reached by a handler that has begun and not come to its end.
LEMMA EffectAt ==
  ASSUME IInv, NEW e \in Effects, At(e)
  PROVE  worker.mode = "run" /\ Program[Current.kind][worker.step] \notin {"load", "commit"}
BY DEF At, Effects

LEMMA RunEffectStep ==
  ASSUME IInv, RunEffect
  PROVE  IInv'
<1> DEFINE row == TouchedRow(Current)
<1>1. PICK e \in ContainerEffects : At(e) /\ box' \in Done(e)
  BY DEF RunEffect
<1>2. /\ task' = [task EXCEPT ![worker.task] = row] /\ Advance
      /\ UNCHANGED <<inst, files, up, request, plan, poll, faults>>
  BY DEF RunEffect, Touch, TouchedRow, Current
<1>3. e \in Effects
  BY DEF ContainerEffects, Effects
<1>4. /\ worker.mode = "run" /\ worker.mode # "idle"
      /\ Program[Current.kind][worker.step] \notin {"load", "commit"}
  BY <1>1, <1>3, EffectAt
<1>5. row \in Row /\ row.status = "running" /\ SameTask(row, Current)
  BY <1>4, Busy, TouchedFields
<1> HIDE DEF row
<1>6. box' \in Boxes
  BY <1>1, EffectBoxes, HostTyped
<1>7. QED
  BY <1>2, <1>4, <1>5, <1>6, RowGoesOn, WorkerAdvances, InstTyped, HostTyped, WorkStepCloses

LEMMA ProjectStep ==
  ASSUME IInv, WriteProject \/ RemoveProject \/ Verify
  PROVE  IInv'
<1>1. /\ \E e \in {"write", "remove", "verify"} : At(e)
      /\ files' \in BOOLEAN /\ Advance
      /\ UNCHANGED <<inst, box, task, up, request, plan, poll, faults>>
  BY HostTyped DEF WriteProject, RemoveProject, Verify, Remote
<1>2. /\ worker.mode = "run" /\ worker.mode # "idle"
      /\ Program[Current.kind][worker.step] \notin {"load", "commit"}
  BY <1>1 DEF At
<1>3. QED
  BY <1>1, <1>2, BusyTableKept, WorkerAdvances, InstTyped, HostTyped, WorkStepCloses

\* What a handler writes at its end is no operation status.
LEMMA GoalStates ==
  ASSUME NEW k
  PROVE  \E s \in {"running", "stopped", "deleted"} : Goal(k) = State(s, s)
BY DEF Goal

LEMMA CommitWrites ==
  ASSUME IInv, Commit
  PROVE  /\ worker.mode = "run" /\ Program[Current.kind][worker.step] = "commit"
         /\ worker' = [worker EXCEPT !.mode = "finish", !.result = "succeeded"]
         /\ UNCHANGED <<files, box, task, up, request, plan, poll, faults>>
         /\ inst' \in InstRow /\ inst'.status = Goal(Current.kind).status
         /\ inst'.status \in {"running", "stopped", "deleted"}
<1>1. /\ worker.mode = "run" /\ Program[Current.kind][worker.step] = "commit"
      /\ worker' = [worker EXCEPT !.mode = "finish", !.result = "succeeded"]
      /\ UNCHANGED <<files, box, task, up, request, plan, poll, faults>>
      /\ inst' = WithState(inst, Goal(Current.kind))
  BY RunAt DEF Commit, UpdateState, Remote
<1>2. PICK s \in {"running", "stopped", "deleted"} : Goal(Current.kind) = State(s, s)
  BY GoalStates
<1>3. s \in InstStatuses /\ s \in Desires \cup {""}
  BY DEF InstStatuses, Desires, Stable
<1>4. WithState(inst, State(s, s)) \in InstRow /\ WithState(inst, State(s, s)).status = s
  BY <1>3, InstTyped, WithStateRow
<1>5. Goal(Current.kind).status = s
  BY <1>2 DEF State
<1>6. QED
  BY <1>1, <1>2, <1>4, <1>5

LEMMA CommitStep ==
  ASSUME IInv, Commit
  PROVE  IInv'
<1>1. worker.mode # "idle"
  BY CommitWrites
<1>2. /\ worker' \in [task : TaskIds \cup {0}, mode : {"idle", "run", "recover", "finish"},
                      step : 1..9, prev : States, result : Ended \cup {"none"}]
      /\ worker'.task = worker.task /\ worker'.mode = "finish" /\ worker'.result = "succeeded"
  BY CommitWrites, WorkerTypes DEF Ended
<1>3. WorkerHolds'
  BY <1>1, <1>2, Busy, CommitWrites DEF WorkerHolds, Is, Current
<1>4. Position' /\ (inst'.status = "absent" => inst.status = "absent")
  BY <1>2, CommitWrites DEF Position, Ended, Operating
<1>5. QED
  BY <1>1, <1>2, <1>3, <1>4, CommitWrites, BusyTableKept, HostTyped, WorkStepCloses

\* How a handler fails, and what its command may have done.
LEMMA FailsParts ==
  ASSUME IInv, StepFails
  PROVE  /\ worker.mode = "run" /\ worker.mode # "idle"
         /\ \E result \in {"failed", "interrupted"} : Throw(result)
         /\ UNCHANGED <<inst, up, request, plan, poll, faults>>
         /\ files' \in BOOLEAN /\ box' \in Boxes
         /\ UNCHANGED task \/ task' = [task EXCEPT ![worker.task] = TouchedRow(Current)]
<1>1. /\ worker.mode = "run" /\ worker.mode # "idle"
      /\ \E result \in {"failed", "interrupted"} : Throw(result)
      /\ UNCHANGED <<inst, up, request, plan, poll, faults>>
  BY DEF StepFails
<1>2. CASE \E e \in ContainerEffects :
             At(e) /\ box' \in (IF files THEN Partly(e) ELSE {box}) /\ UNCHANGED files /\ Touch
  BY <1>1, <1>2, EffectBoxes, HostTyped DEF Touch, TouchedRow, Current
<1>3. CASE files' \in {files, At("write")} /\ UNCHANGED <<box, task>>
  BY <1>1, <1>3, HostTyped DEF At
<1>4. CASE UNCHANGED <<Remote, task>>
  BY <1>1, <1>4, HostTyped DEF Remote
<1>5. QED
  BY <1>2, <1>3, <1>4 DEF StepFails

LEMMA StepFailsStep ==
  ASSUME IInv, StepFails
  PROVE  IInv'
<1>1. /\ worker.mode = "run" /\ worker.mode # "idle"
      /\ UNCHANGED <<inst, up, request, plan, poll, faults>>
      /\ files' \in BOOLEAN /\ box' \in Boxes
  BY FailsParts
<1>2. PICK result \in Retryable : Throw(result)
  BY FailsParts DEF Retryable
<1>3. /\ TouchedRow(Current) \in Row /\ TouchedRow(Current).status = "running"
      /\ SameTask(TouchedRow(Current), Current)
  BY <1>1, Busy, TouchedFields
<1>4. /\ task' \in [TaskIds -> Row \cup {NoRow}] /\ RowsKept /\ NoneStarts
      /\ task'[worker.task].status = "running"
  BY <1>1, <1>3, FailsParts, BusyTableKept, RowGoesOn
<1>5. QED
  BY <1>1, <1>2, <1>4, WorkerThrows, InstTyped, HostTyped, WorkStepCloses

LEMMA RecoveryState ==
  ASSUME IInv, worker.mode = "recover"
  PROVE  \E s \in Stable, d \in Desires \cup {""} :
           Recovery(Current.kind, worker.prev, worker.result) = State(s, d)
<1>1. worker.prev \in States /\ worker.prev.status \in Stable
  BY DEF IInv, TypeOK, Position
<1>2. worker.prev.desired \in Desires \cup {""}
  BY <1>1 DEF States, Desires
<1>3. worker.prev = State(worker.prev.status, worker.prev.desired)
  BY <1>1, StatePair
<1>4. "failed" \in Stable /\ "degraded" \in Stable /\ "" \in Desires \cup {""}
  BY DEF Stable
<1>5. QED
  BY <1>1, <1>2, <1>3, <1>4 DEF Recovery

\* The deferred recovery leaves a stable status.
LEMMA RecoverWrites ==
  ASSUME IInv, Recover
  PROVE  /\ worker.mode = "recover" /\ worker' = [worker EXCEPT !.mode = "finish"]
         /\ UNCHANGED <<files, box, task, up, request, plan, poll, faults>>
         /\ inst' \in InstRow /\ inst'.status \in Stable
<1>1. /\ worker.mode = "recover" /\ worker' = [worker EXCEPT !.mode = "finish"]
      /\ UNCHANGED <<files, box, task, up, request, plan, poll, faults>>
      /\ inst' = WithState(inst, Recovery(Current.kind, worker.prev, worker.result))
  BY DEF Recover, UpdateState, Remote
<1>2. PICK s \in Stable, d \in Desires \cup {""} :
        Recovery(Current.kind, worker.prev, worker.result) = State(s, d)
  BY <1>1, RecoveryState
<1>3. s \in InstStatuses
  BY DEF InstStatuses
<1>4. WithState(inst, State(s, d)) \in InstRow /\ WithState(inst, State(s, d)).status = s
  BY <1>3, InstTyped, WithStateRow
<1>5. QED
  BY <1>1, <1>2, <1>4

\* The worker's mode, set to the end of a task that did not succeed.
LEMMA EndsRecovery ==
  ASSUME IInv, worker.mode = "recover", worker' = [worker EXCEPT !.mode = "finish"],
         UNCHANGED <<task, up>>
  PROVE  /\ worker' \in [task : TaskIds \cup {0}, mode : {"idle", "run", "recover", "finish"},
                         step : 1..9, prev : States, result : Ended \cup {"none"}]
         /\ WorkerHolds' /\ Position'
<1>1. /\ worker' \in [task : TaskIds \cup {0}, mode : {"idle", "run", "recover", "finish"},
                      step : 1..9, prev : States, result : Ended \cup {"none"}]
      /\ worker'.task = worker.task /\ worker'.mode = "finish" /\ worker'.result = worker.result
  BY WorkerTypes
<1>2. worker.mode # "idle" /\ worker.result \in Retryable
  BY DEF IInv, Position
<1>3. WorkerHolds'
  BY <1>1, <1>2, Busy DEF WorkerHolds, Is, Current
<1>4. Position'
  BY <1>1, <1>2 DEF Position, Retryable, Ended
<1>5. QED
  BY <1>1, <1>3, <1>4

LEMMA RecoverStep ==
  ASSUME IInv, Recover
  PROVE  IInv'
<1>1. worker.mode # "idle" /\ inst'.status # "absent"
  BY RecoverWrites DEF Stable
<1>2. QED
  BY <1>1, RecoverWrites, EndsRecovery, BusyTableKept, HostTyped, WorkStepCloses

LEMMA RecoveryLostStep ==
  ASSUME IInv, RecoveryLost
  PROVE  IInv'
<1>1. /\ worker.mode = "recover" /\ worker.mode # "idle"
      /\ worker' = [worker EXCEPT !.mode = "finish"]
      /\ UNCHANGED <<inst, files, box, task, up, request, plan, poll>>
  BY DEF RecoveryLost, Remote
<1>2. faults' \in 0..MaxFaults
  BY HostTyped, InstanceConstants DEF RecoveryLost, Fault, InstanceConstants
<1>3. QED
  BY <1>1, <1>2, EndsRecovery, BusyTableKept, InstTyped, HostTyped, WorkStepCloses

\* The end of a task: its row takes the result, and the worker is free.
LEMMA FinishWrites ==
  ASSUME IInv, Finish
  PROVE  /\ worker.mode = "finish" /\ worker.mode # "idle" /\ worker.result \in Ended
         /\ worker' = Idle
         /\ UNCHANGED <<inst, files, box, up, request, plan, poll, faults>>
         /\ task' \in [TaskIds -> Row \cup {NoRow}] /\ RowsKept /\ NoneStarts
         /\ task'[worker.task] = MovedRow(Current, worker.result, FALSE)
         /\ \A s \in TaskIds \ {worker.task} : task'[s] = task[s]
<1> DEFINE row == MovedRow(Current, worker.result, FALSE)
<1>1. /\ worker.mode = "finish" /\ worker.mode # "idle" /\ worker' = Idle
      /\ task' = [task EXCEPT ![worker.task] = row]
      /\ UNCHANGED <<inst, files, box, up, request, plan, poll, faults>>
  BY DEF Finish, MovedRow, Current, Remote
<1>2. worker.result \in Ended
  BY <1>1 DEF IInv, Position
<1>3. row \in Row /\ row.status = worker.result /\ SameTask(row, Current)
  BY <1>1, <1>2, Busy, MovedFields
<1> HIDE DEF row
<1>4. /\ row.kind = task[worker.task].kind /\ row.retry = task[worker.task].retry
      /\ row.prev = task[worker.task].prev
  BY <1>3, Zenon DEF SameTask, Current
<1>5. row.status \notin Pending
  BY <1>2, <1>3 DEF Ended, Pending
<1>6. /\ task' \in [TaskIds -> Row \cup {NoRow}] /\ RowsKept /\ NoneStarts
      /\ task'[worker.task] = row
      /\ \A s \in TaskIds \ {worker.task} : task'[s] = task[s]
  BY <1>1, <1>3, <1>4, <1>5, Busy, RowReplaced
<1>7. QED
  BY <1>1, <1>2, <1>6 DEF row

LEMMA IdleTypes ==
  /\ Idle \in [task : TaskIds \cup {0}, mode : {"idle", "run", "recover", "finish"},
               step : 1..9, prev : States, result : Ended \cup {"none"}]
  /\ Idle.mode = "idle"
<1>1. 1 \in 1..9 /\ 0 \in TaskIds \cup {0} /\ NoState \in States
  BY NoStates
<1>2. QED
  BY <1>1 DEF Idle

LEMMA FinishStep ==
  ASSUME IInv, Finish
  PROVE  IInv'
<1>1. WorkerHolds' /\ Position'
  BY FinishWrites, IdleTypes DEF WorkerHolds, Position
<1>2. QED
  BY <1>1, FinishWrites, IdleTypes, InstTyped, HostTyped, WorkStepCloses

LEMMA WorkStep ==
  ASSUME IInv, Work \/ RecoveryLost
  PROVE  IInv'
BY ClaimStep, LoadStep, MarkStep, StageStep, StageCanceledStep, RunEffectStep, ProjectStep,
   CommitStep, StepFailsStep, RecoverStep, RecoveryLostStep, FinishStep DEF Work

--------------------------------------------------------------------------------
(* The requests *)

LEMMA NewRowTyped ==
  ASSUME NEW k \in Kinds, NEW retry \in BOOLEAN, NEW prev \in States
  PROVE  NewRow(k, retry, prev) \in Row /\ NewRow(k, retry, prev).status = "queued"
BY DEF NewRow, Row

\* A task is queued: the others stay as they are, and it is the only one active.
LEMMA InsertStep ==
  ASSUME IInv, ~Active, NEW row \in Row, Insert(row), row.status = "queued",
         inst'.status # "absent", UNCHANGED <<worker, up, plan>>
  PROVE  /\ task' \in [TaskIds -> Row \cup {NoRow}]
         /\ \E t \in TaskIds : /\ ~Exists(t) /\ task'[t] = row
                               /\ \A s \in TaskIds \ {t} : task'[s] = task[s]
         /\ worker.mode = "idle"
         /\ OneActive' /\ CreatedFirst' /\ WorkerHolds' /\ Position' /\ PlanValid'
<1>1. task \in [TaskIds -> Row \cup {NoRow}]
  BY DEF IInv, TypeOK
<1>2. PICK t \in TaskIds : ~Exists(t) /\ task' = [task EXCEPT ![t] = row]
  BY DEF Insert
<1>3. /\ task' \in [TaskIds -> Row \cup {NoRow}]
      /\ task'[t] = row /\ \A s \in TaskIds \ {t} : task'[s] = task[s]
  BY <1>1, <1>2
<1>4. worker.mode = "idle"
  <2> SUFFICES ASSUME worker.mode # "idle" PROVE FALSE
    OBVIOUS
  <2>1. worker.task \in TaskIds /\ task[worker.task].status = "running"
    BY Busy DEF Current
  <2>2. QED
    BY <2>1 DEF Active
<1>5. OneActive'
  BY <1>3 DEF OneActive, Active, Pending
<1>6. CreatedFirst'
  BY DEF CreatedFirst
<1>7. WorkerHolds' /\ Position'
  BY <1>4 DEF WorkerHolds, Position
<1>8. PlanValid'
  <2> SUFFICES ASSUME plan # NoPlan
               PROVE  PlanValid'
    BY DEF PlanValid
  <2>1. /\ plan.task \in TaskIds /\ Exists(plan.task) /\ plan.preserve = task[plan.task].retry
        /\ plan.state.status \in Stable
    BY DEF IInv, PlanValid
  <2>2. plan.task # t
    BY <1>2, <2>1
  <2>3. task'[plan.task] = task[plan.task]
    BY <1>3, <2>1, <2>2
  <2>4. QED
    BY <2>1, <2>3, Zenon DEF PlanValid, Exists
<1>9. QED
  BY <1>2, <1>3, <1>4, <1>5, <1>6, <1>7, <1>8

LEMMA CreateInstanceStep ==
  ASSUME IInv, CreateInstance
  PROVE  IInv'
<1> DEFINE row == NewRow("create", FALSE, NoState)
<1>1. /\ inst.status = "absent" /\ inst' = [inst EXCEPT !.status = "provisioning"] /\ Insert(row)
      /\ UNCHANGED <<files, box, up, worker, request, plan, poll, faults>>
  BY DEF CreateInstance, Remote
<1>2. row \in Row /\ row.status = "queued"
  <2>1. "create" \in Kinds /\ FALSE \in BOOLEAN /\ NoState \in States
    BY KindNames, NoStates
  <2>2. QED
    BY <2>1, NewRowTyped
<1> HIDE DEF row
<1>3. ~Active
  BY <1>1 DEF IInv, CreatedFirst, Active, Exists
<1>4. inst' \in InstRow /\ inst'.status = "provisioning"
  <2>1. "provisioning" \in InstStatuses
    BY DEF InstStatuses, Operating
  <2>2. QED
    BY <1>1, <2>1, InstTyped DEF InstRow
<1>5. /\ task' \in [TaskIds -> Row \cup {NoRow}]
      /\ OneActive' /\ CreatedFirst' /\ WorkerHolds' /\ Position' /\ PlanValid'
  BY <1>1, <1>2, <1>3, <1>4, InsertStep
<1>6. TypeOK'
  BY <1>1, <1>4, <1>5 DEF IInv, TypeOK, InstRow, InstStatuses, Desires
<1>7. QED
  BY <1>1, <1>5, <1>6, RequestKept DEF IInv

LEMMA QueueActionStep ==
  ASSUME IInv, NEW c \in Clients, QueueAction(c)
  PROVE  IInv'
<1> DEFINE k == request[c].kind
           seen == request[c].seen
           row == NewRow(k, FALSE, seen)
<1>1. /\ request[c] # NoRequest /\ ~Active /\ Insert(row)
      /\ inst' = [inst EXCEPT !.status = OpStatus[k]]
      /\ request' = [request EXCEPT ![c] = NoRequest]
      /\ UNCHANGED <<files, box, up, worker, plan, poll, faults>>
  BY DEF QueueAction, Remote
<1>2. k \in Actions /\ seen \in States
  BY <1>1 DEF IInv, RequestValid, TypeOK
<1>3. row \in Row /\ row.status = "queued"
  <2>1. k \in Kinds /\ FALSE \in BOOLEAN
    BY <1>2, ActionKinds
  <2>2. QED
    BY <1>2, <2>1, NewRowTyped, Zenon
<1>4. OpStatus[k] \in Operating
  BY <1>2, ActionKinds
<1> HIDE DEF row, k, seen
<1>5. inst' \in InstRow /\ inst'.status # "absent"
  <2>1. OpStatus[k] \in InstStatuses /\ OpStatus[k] # "absent"
    BY <1>4 DEF InstStatuses, Operating
  <2>2. QED
    BY <1>1, <2>1, InstTyped DEF InstRow
<1>6. /\ task' \in [TaskIds -> Row \cup {NoRow}]
      /\ OneActive' /\ CreatedFirst' /\ WorkerHolds' /\ Position' /\ PlanValid'
  BY <1>1, <1>3, <1>5, InsertStep
<1>7. request' \in [Clients -> [kind : Actions \cup {"none"}, seen : States]]
  BY <1>1, NoStates DEF IInv, TypeOK, NoRequest
<1>8. TypeOK'
  BY <1>1, <1>5, <1>6, <1>7 DEF IInv, TypeOK, InstRow, InstStatuses, Desires
<1>9. RequestValid'
  BY <1>1, RequestKept DEF IInv, TypeOK
<1>10. QED
  BY <1>6, <1>8, <1>9 DEF IInv

LEMMA RetryStep ==
  ASSUME IInv, NEW t \in TaskIds, Retry(t)
  PROVE  IInv'
<1> DEFINE row == NewRow(task[t].kind, TRUE, task[t].prev)
<1>1. /\ task[t].status \in Retryable /\ ~Active /\ Insert(row)
      /\ UNCHANGED <<inst, files, box, up, worker, request, plan, poll, faults>>
  BY DEF Retry, Remote
<1>2. Exists(t) /\ task[t] \in Row
  BY <1>1, ExistingRow DEF Exists, Retryable
<1>3. row \in Row /\ row.status = "queued"
  <2>1. task[t].kind \in Kinds /\ task[t].prev \in States /\ TRUE \in BOOLEAN
    BY <1>2 DEF Row
  <2>2. QED
    BY <2>1, NewRowTyped, Zenon
<1> HIDE DEF row
<1>4. inst'.status # "absent"
  BY <1>1, <1>2 DEF IInv, CreatedFirst
<1>5. /\ task' \in [TaskIds -> Row \cup {NoRow}]
      /\ OneActive' /\ CreatedFirst' /\ WorkerHolds' /\ Position' /\ PlanValid'
  BY <1>1, <1>3, <1>4, InsertStep
<1>6. TypeOK'
  BY <1>1, <1>5 DEF IInv, TypeOK
<1>7. QED
  BY <1>1, <1>5, <1>6, RequestKept DEF IInv

--------------------------------------------------------------------------------
(* The cancellations *)

\* A task that waits is canceled, or the running one is asked to be.
LEMMA AskStep ==
  ASSUME IInv, NEW t \in TaskIds, task[t].status = "running", AskCancel(t)
  PROVE  /\ task' \in [TaskIds -> Row \cup {NoRow}] /\ RowsKept /\ NoneStarts
         /\ task'[t] = AskedRow(task[t])
         /\ \A s \in TaskIds \ {t} : task'[s] = task[s]
         /\ \A s \in TaskIds : task'[s].status = task[s].status
<1> DEFINE row == AskedRow(task[t])
<1>1. Exists(t) /\ task[t] \in Row
  BY ExistingRow DEF Exists
<1>2. task' = [task EXCEPT ![t] = row]
  BY DEF AskCancel, AskedRow
<1>3. row \in Row /\ row.status = "running" /\ SameTask(row, task[t])
  BY <1>1, AskedFields
<1> HIDE DEF row
<1>4. row.kind = task[t].kind /\ row.retry = task[t].retry /\ row.prev = task[t].prev
  BY <1>3, Zenon DEF SameTask
<1>5. row.status \in Pending /\ task[t].status \in Pending
  BY <1>3 DEF Pending
<1>6. /\ task' \in [TaskIds -> Row \cup {NoRow}] /\ RowsKept /\ NoneStarts
      /\ task'[t] = row /\ \A s \in TaskIds \ {t} : task'[s] = task[s]
  BY <1>1, <1>2, <1>3, <1>4, <1>5, RowReplaced
<1>7. \A s \in TaskIds : task'[s].status = task[s].status
  BY <1>3, <1>6
<1>8. QED
  BY <1>6, <1>7 DEF row

LEMMA CancelQueuedStep ==
  ASSUME IInv, NEW t \in TaskIds, task[t].status = "queued", CancelQueued(t)
  PROVE  /\ task' \in [TaskIds -> Row \cup {NoRow}] /\ RowsKept /\ NoneStarts
         /\ task'[t] = CanceledRow(task[t])
         /\ \A s \in TaskIds \ {t} : task'[s] = task[s]
         /\ \A s \in TaskIds : task[s].status = "running" => task'[s].status = "running"
<1> DEFINE row == CanceledRow(task[t])
<1>1. Exists(t) /\ task[t] \in Row
  BY ExistingRow DEF Exists
<1>2. task' = [task EXCEPT ![t] = row]
  BY DEF CancelQueued, CanceledRow
<1>3. row \in Row /\ row.status = "canceled" /\ SameTask(row, task[t])
  BY <1>1, CanceledFields
<1> HIDE DEF row
<1>4. row.kind = task[t].kind /\ row.retry = task[t].retry /\ row.prev = task[t].prev
  BY <1>3, Zenon DEF SameTask
<1>5. row.status \notin Pending
  BY <1>3 DEF Pending
<1>6. /\ task' \in [TaskIds -> Row \cup {NoRow}] /\ RowsKept /\ NoneStarts
      /\ task'[t] = row /\ \A s \in TaskIds \ {t} : task'[s] = task[s]
  BY <1>1, <1>2, <1>3, <1>4, <1>5, RowReplaced
<1>7. \A s \in TaskIds : task[s].status = "running" => task'[s].status = "running"
  BY <1>6
<1>8. QED
  BY <1>6, <1>7 DEF row

\* The plan's state, as it is written.
LEMMA PlanWritten ==
  ASSUME IInv, plan # NoPlan
  PROVE  /\ plan.task \in TaskIds
         /\ WithState(inst, plan.state) \in InstRow
         /\ WithState(inst, plan.state).status \in Stable
<1>1. plan.task \in TaskIds /\ plan.state \in States /\ plan.state.status \in Stable
  BY DEF IInv, TypeOK, PlanValid
<1>2. plan.state = State(plan.state.status, plan.state.desired)
  BY <1>1, StatePair
<1> DEFINE s == plan.state.status
           d == plan.state.desired
<1>3. d \in Desires \cup {""} /\ s \in InstStatuses
  BY <1>1 DEF States, Desires, InstStatuses
<1>4. plan.state = State(s, d) /\ s \in Stable
  BY <1>1, <1>2
<1> HIDE DEF s, d
<1>5. WithState(inst, State(s, d)) \in InstRow /\ WithState(inst, State(s, d)).status = s
  BY <1>3, InstTyped, WithStateRow
<1>6. QED
  BY <1>1, <1>4, <1>5

LEMMA CancelStepCloses ==
  ASSUME IInv, RowsKept, NoneStarts, task' \in [TaskIds -> Row \cup {NoRow}],
         \A s \in TaskIds : task[s].status = "running" => task'[s].status = "running",
         inst' \in InstRow, inst'.status # inst.status => inst'.status \in Stable,
         plan' \in {plan, NoPlan}, UNCHANGED <<files, box, up, worker, request, poll, faults>>
  PROVE  IInv'
<1>1. NoPlan \in [task : TaskIds \cup {0}, preserve : BOOLEAN, state : States]
  BY NoStates DEF NoPlan
<1>2. plan' \in [task : TaskIds \cup {0}, preserve : BOOLEAN, state : States]
  BY <1>1 DEF IInv, TypeOK
<1>3. TypeOK'
  BY <1>2 DEF IInv, TypeOK, InstRow, InstStatuses, Desires
<1>4. inst'.status = "absent" => inst.status = "absent"
  BY DEF Stable
<1>5. OneActive' /\ CreatedFirst' /\ PlanValid' /\ RequestValid'
  BY <1>4, TableParts
<1>6. worker.mode # "idle" => task'[worker.task].status = "running"
  BY Busy DEF Current
<1>7. inst'.status \in Operating => inst.status \in Operating
  BY DEF Stable, Operating
<1>8. WorkerHolds' /\ Position'
  BY <1>6, <1>7, WorkerWaits
<1>9. QED
  BY <1>3, <1>5, <1>8 DEF IInv

LEMMA CancelingStep ==
  ASSUME IInv, ConfirmCancel \/ \E t \in TaskIds : CancelRunning(t)
  PROVE  IInv'
<1>1. CASE ConfirmCancel
  <2> DEFINE t == plan.task
  <2>1. /\ plan # NoPlan /\ plan' = NoPlan
        /\ UNCHANGED <<files, box, up, worker, request, poll, faults>>
    BY <1>1 DEF ConfirmCancel, Remote
  <2>2. t \in TaskIds
    BY <2>1, PlanWritten
  <2> HIDE DEF t
  <2>3. CASE /\ task[t].status = "queued" /\ CancelQueued(t)
             /\ inst' = IF plan.preserve THEN inst ELSE WithState(inst, plan.state)
    <3>1. inst' \in InstRow /\ (inst'.status # inst.status => inst'.status \in Stable)
      BY <2>1, <2>3, PlanWritten, InstTyped
    <3>2. QED
      BY <2>1, <2>2, <2>3, <3>1, CancelQueuedStep, CancelStepCloses
  <2>4. CASE task[t].status = "running" /\ AskCancel(t) /\ UNCHANGED inst
    BY <2>1, <2>2, <2>4, AskStep, InstTyped, CancelStepCloses
  <2>5. CASE UNCHANGED <<task, inst>>
    <3>1. task' \in [TaskIds -> Row \cup {NoRow}]
      BY <2>5 DEF IInv, TypeOK
    <3>2. QED
      BY <2>1, <2>5, <3>1, SameTable, InstTyped, CancelStepCloses
  <2>6. QED
    BY <1>1, <2>3, <2>4, <2>5 DEF ConfirmCancel, Is, t
<1>2. CASE \E t \in TaskIds : CancelRunning(t)
  <2>1. PICK t \in TaskIds : CancelRunning(t)
    BY <1>2
  <2>2. /\ task[t].status = "running" /\ AskCancel(t)
        /\ UNCHANGED <<inst, files, box, up, worker, request, plan, poll, faults>>
    BY <2>1 DEF CancelRunning, Is, Remote
  <2>3. QED
    BY <2>2, AskStep, InstTyped, CancelStepCloses
<1>3. QED
  BY <1>1, <1>2

LEMMA ApiStep ==
  ASSUME IInv, Api
  PROVE  IInv'
<1>1. CASE CreateInstance \/ ConfirmCancel \/ \E t \in TaskIds : CancelRunning(t)
  BY <1>1, CreateInstanceStep, CancelingStep
<1>2. CASE \E c \in Clients : \/ \E k \in Actions : ReadForAction(c, k)
                              \/ QueueAction(c) \/ RejectAction(c)
  BY <1>2, ReadForActionStep, QueueActionStep, RejectActionStep
<1>3. CASE \E t \in TaskIds : Retry(t) \/ PrepareCancel(t)
  BY <1>3, RetryStep, PrepareCancelStep
<1>4. QED
  BY <1>1, <1>2, <1>3 DEF Api

--------------------------------------------------------------------------------
(* The process *)

\* What a process that stops leaves behind.
LEMMA Forgotten ==
  ASSUME IInv, Forget
  PROVE  /\ request' \in [Clients -> [kind : Actions \cup {"none"}, seen : States]]
         /\ plan' \in [task : TaskIds \cup {0}, preserve : BOOLEAN, state : States]
         /\ poll' \in [mode : {"idle", "observed", "read", "restart", "start", "giveUp"},
                       box : Boxes, seen : States, failures : Nat]
         /\ worker' \in [task : TaskIds \cup {0}, mode : {"idle", "run", "recover", "finish"},
                         step : 1..9, prev : States, result : Ended \cup {"none"}]
         /\ plan' = NoPlan /\ \A c \in Clients : request'[c] = NoRequest
         /\ WorkerHolds' /\ Position'
<1>1. /\ request' = [c \in Clients |-> NoRequest] /\ plan' = NoPlan /\ poll' = NoPoll
      /\ worker' = Idle
  BY DEF Forget
<1>2. request' \in [Clients -> [kind : Actions \cup {"none"}, seen : States]]
  BY <1>1, NoStates DEF NoRequest
<1>3. plan' \in [task : TaskIds \cup {0}, preserve : BOOLEAN, state : States]
  BY <1>1, NoStates DEF NoPlan
<1>4. \A c \in Clients : request'[c] = NoRequest
  BY <1>1
<1>5. WorkerHolds' /\ Position'
  BY <1>1, IdleTypes DEF WorkerHolds, Position
<1>6. QED
  BY <1>1, <1>2, <1>3, <1>4, <1>5, IdleTypes, PollTypes

\* The host and the table after a crash.
LEMMA CrashLeaves ==
  ASSUME IInv, Crash
  PROVE  /\ Forget /\ up' = "down" /\ UNCHANGED inst /\ faults' \in 0..MaxFaults
         /\ files' \in BOOLEAN /\ box' \in Boxes
         /\ \/ UNCHANGED task
            \/ worker.mode # "idle" /\ task' = [task EXCEPT ![worker.task] = TouchedRow(Current)]
<1>1. Forget /\ up' = "down" /\ UNCHANGED inst /\ faults' \in 0..MaxFaults
  BY HostTyped, InstanceConstants DEF Crash, Fault, InstanceConstants
<1>2. CASE \E e \in ContainerEffects :
             At(e) /\ box' \in Partly(e) \cup Done(e) /\ Touch /\ UNCHANGED files
  BY <1>1, <1>2, EffectBoxes, HostTyped DEF At, Touch, TouchedRow, Current
<1>3. CASE files' = At("write") /\ UNCHANGED <<box, task>>
  BY <1>1, <1>3, HostTyped DEF At
<1>4. CASE UNCHANGED <<Remote, task>>
  BY <1>1, <1>4, HostTyped DEF Remote
<1>5. QED
  BY <1>2, <1>3, <1>4 DEF Crash

LEMMA StopStep ==
  ASSUME IInv, ProcessExits \/ Crash
  PROVE  IInv'
<1>1. /\ Forget /\ up' = "down" /\ UNCHANGED inst /\ faults' \in 0..MaxFaults
      /\ files' \in BOOLEAN /\ box' \in Boxes
      /\ \/ UNCHANGED task
         \/ worker.mode # "idle" /\ task' = [task EXCEPT ![worker.task] = TouchedRow(Current)]
  BY CrashLeaves, HostTyped DEF ProcessExits, Remote
<1>2. task' \in [TaskIds -> Row \cup {NoRow}] /\ RowsKept /\ NoneStarts
  <2>1. CASE UNCHANGED task
    BY <2>1, SameTable DEF IInv, TypeOK
  <2>2. CASE worker.mode # "idle" /\ task' = [task EXCEPT ![worker.task] = TouchedRow(Current)]
    <3>1. /\ TouchedRow(Current) \in Row /\ TouchedRow(Current).status = "running"
          /\ SameTask(TouchedRow(Current), Current)
      BY <2>2, Busy, TouchedFields
    <3>2. QED
      BY <2>2, <3>1, RowGoesOn
  <2>3. QED
    BY <1>1, <2>1, <2>2
<1>3. TypeOK'
  BY <1>1, <1>2, Forgotten DEF IInv, TypeOK
<1>4. OneActive' /\ CreatedFirst' /\ PlanValid' /\ RequestValid'
  BY <1>1, <1>2, Forgotten, TableParts
<1>5. QED
  BY <1>1, <1>3, <1>4, Forgotten DEF IInv

\* A restart interrupts what ran, and leaves the other rows alone.
LEMMA RestartRows ==
  ASSUME IInv, Restart
  PROVE  /\ task' \in [TaskIds -> Row \cup {NoRow}] /\ RowsKept /\ NoneStarts
         /\ \A t \in TaskIds : task'[t] = IF task[t].status = "running"
                                            THEN MovedRow(task[t], "interrupted", FALSE)
                                            ELSE task[t]
<1>1. task' = [t \in TaskIds |-> IF task[t].status = "running"
                                   THEN MovedRow(task[t], "interrupted", FALSE) ELSE task[t]]
  BY DEF Restart, MovedRow, Is
<1>2. ASSUME NEW t \in TaskIds, task[t].status = "running"
      PROVE  /\ MovedRow(task[t], "interrupted", FALSE) \in Row
             /\ SameTask(MovedRow(task[t], "interrupted", FALSE), task[t])
             /\ MovedRow(task[t], "interrupted", FALSE).status = "interrupted"
  <2>1. task[t] \in Row
    BY <1>2, ExistingRow DEF Exists
  <2>2. "interrupted" \in {"queued", "running"} \cup Ended /\ FALSE \in BOOLEAN
    BY DEF Ended
  <2>3. QED
    BY <2>1, <2>2, MovedFields, Zenon
<1>3. \A t \in TaskIds : task'[t] = IF task[t].status = "running"
                                      THEN MovedRow(task[t], "interrupted", FALSE)
                                      ELSE task[t]
  BY <1>1
<1>4. task' \in [TaskIds -> Row \cup {NoRow}]
  BY <1>1, <1>2 DEF IInv, TypeOK
<1>5. RowsKept
  <2> SUFFICES ASSUME NEW t \in TaskIds
               PROVE  /\ task'[t].status # "absent" <=> task[t].status # "absent"
                      /\ Exists(t) => /\ task'[t].kind = task[t].kind
                                      /\ task'[t].retry = task[t].retry
                                      /\ task'[t].prev = task[t].prev
    BY DEF RowsKept
  <2>1. CASE task[t].status = "running"
    <3>1. task'[t] = MovedRow(task[t], "interrupted", FALSE)
      BY <1>3, <2>1
    <3>2. SameTask(task'[t], task[t]) /\ task'[t].status = "interrupted"
      BY <1>2, <2>1, <3>1
    <3>3. task'[t].status # "absent" /\ task[t].status # "absent"
      BY <2>1, <3>2
    <3>4. QED
      BY <3>2, <3>3, Zenon DEF SameTask
  <2>2. CASE task[t].status # "running"
    <3>1. task'[t] = task[t]
      BY <1>3, <2>2
    <3>2. QED
      BY <3>1, Zenon
  <2>3. QED
    BY <2>1, <2>2
<1>6. NoneStarts
  BY <1>2, <1>3 DEF NoneStarts, Pending
<1>7. QED
  BY <1>3, <1>4, <1>5, <1>6

LEMMA RestartStep ==
  ASSUME IInv, Restart
  PROVE  IInv'
<1>1. up = "down" /\ up' = "up"
      /\ UNCHANGED <<inst, files, box, worker, request, plan, poll, faults>>
  BY DEF Restart, Remote
<1>2. worker.mode = "idle"
  BY <1>1, Busy
<1>3. WorkerHolds' /\ Position'
  BY <1>1, <1>2 DEF WorkerHolds, Position
<1>4. TypeOK'
  <2>1. task' \in [TaskIds -> Row \cup {NoRow}]
    BY RestartRows
  <2>2. QED
    BY <1>1, <2>1 DEF IInv, TypeOK
<1>5. OneActive' /\ CreatedFirst' /\ PlanValid' /\ RequestValid'
  BY <1>1, RestartRows, TableParts
<1>6. QED
  BY <1>3, <1>4, <1>5 DEF IInv

--------------------------------------------------------------------------------

LEMMA InitIInv == Init => IInv
<1> SUFFICES ASSUME Init PROVE IInv
  OBVIOUS
<1>1. TypeOK
  <2>1. inst \in [status : Stable \cup Operating \cup {"absent", "deleted"},
                 desired : {"running", "stopped", "deleted"}, failures : Nat]
    BY DEF Init
  <2>2. task \in [TaskIds -> Row \cup {NoRow}]
    BY DEF Init
  <2>3. request \in [Clients -> [kind : Actions \cup {"none"}, seen : States]]
    BY NoStates DEF Init, NoRequest
  <2>4. plan \in [task : TaskIds \cup {0}, preserve : BOOLEAN, state : States]
    BY NoStates DEF Init, NoPlan
  <2>5. /\ box \in Boxes /\ up \in {"up", "stopping", "down"}
        /\ faults \in 0..MaxFaults
    BY InstanceConstants DEF Init, Boxes, InstanceConstants
  <2>6. worker = Idle /\ poll = NoPoll /\ files \in BOOLEAN
    BY DEF Init
  <2>7. QED
    BY <2>1, <2>2, <2>3, <2>4, <2>5, <2>6, IdleTypes, PollTypes DEF TypeOK
<1>2. \A t \in TaskIds : task[t].status = "absent"
  BY DEF Init, NoRow
<1>3. OneActive /\ CreatedFirst
  BY <1>2 DEF OneActive, CreatedFirst, Exists, Pending
<1>4. WorkerHolds /\ Position
  BY IdleTypes DEF Init, WorkerHolds, Position
<1>5. RequestValid /\ PlanValid
  BY DEF Init, RequestValid, PlanValid
<1>6. QED
  BY <1>1, <1>3, <1>4, <1>5 DEF IInv

LEMMA NextIInv == IInv /\ [Next]_vars => IInv'
<1> SUFFICES ASSUME IInv, [Next]_vars PROVE IInv'
  OBVIOUS
<1>1. CASE UNCHANGED vars
  <2>1. UNCHANGED <<inst, files, box, task, up, worker, request, plan, poll, faults>>
    BY <1>1 DEF vars
  <2>2. TypeOK'
    BY <2>1 DEF IInv, TypeOK
  <2>3. QED
    BY <2>1, <2>2, PlanKept, RequestKept, TableAndWorkerKept
<1>2. CASE Next
  BY <1>2, ApiStep, WorkStep, MonitorStep, EnvironmentStep, StopStep, RestartStep DEF Next
<1>3. QED
  BY <1>1, <1>2

\* The inductive invariant holds in every reachable state.
THEOREM Invariance == Spec => []IInv
BY InitIInv, NextIInv, PTL DEF Spec

\* Every variable has its type in every reachable state, for any number of
\* clients, tasks and faults.
THEOREM TypeCorrect == Spec => []TypeOK
<1>1. IInv => TypeOK
  BY DEF IInv
<1>2. QED
  BY <1>1, Invariance, PTL
================================================================================
