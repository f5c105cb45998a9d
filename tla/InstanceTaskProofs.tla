--------------------------- MODULE InstanceTaskProofs ---------------------------
(***************************************************************************)
(* What the steps of InstanceLifecycle do to the tasks of an instance and  *)
(* to its row, and what follows for any number of clients, tasks and       *)
(* faults: operation statuses are explained, canceled tasks touched        *)
(* nothing, automatic restarts are capped, actions were admitted, the      *)
(* tasks implement TaskTable, canceling restores what the monitor did not  *)
(* overwrite, and only its restarts disturb a deletion.                    *)
(***************************************************************************)
EXTENDS InstanceLifecycleProofs

(* The ways a step can write the statuses of the tasks. *)

Still == RowsKept /\ \A t \in TaskIds : task'[t].status = task[t].status

Enters(t) ==
  /\ ~Exists(t) /\ ~Active
  /\ \E row \in Row : /\ row.status = "queued" /\ ~row.touched
                      /\ task' = [task EXCEPT ![t] = row]

Moves(t, status) ==
  /\ RowsKept
  /\ task'[t].status = status
  /\ \A s \in TaskIds \ {t} : task'[s].status = task[s].status

Interrupts ==
  /\ RowsKept
  /\ \A t \in TaskIds :
       task'[t].status = IF task[t].status = "running" THEN "interrupted" ELSE task[t].status

KeepsRows ==
  \/ Still
  \/ \E t \in TaskIds : Is(t, "queued") /\ (Moves(t, "running") \/ Moves(t, "canceled"))
  \/ \E t \in TaskIds, outcome \in Ended :
       /\ Is(t, "running") /\ Moves(t, outcome)
       /\ UNCHANGED inst
       /\ outcome = "succeeded" => inst.status \notin Operating
  \/ Interrupts

Inserts == \/ CreateInstance
           \/ \E c \in Clients : QueueAction(c)
           \/ \E t \in TaskIds : Retry(t)

LEMMA SameTableStill ==
  ASSUME UNCHANGED task
  PROVE  Still
BY SameTable DEF Still

\* The worker's row goes on running.
LEMMA RowGoesOnStill ==
  ASSUME IInv, worker.mode # "idle", NEW row \in Row, SameTask(row, Current),
         row.status = "running", task' = [task EXCEPT ![worker.task] = row]
  PROVE  Still
<1>1. Current.status = "running" /\ worker.task \in TaskIds
  BY Busy
<1>2. /\ RowsKept /\ task'[worker.task].status = "running"
      /\ \A s \in TaskIds \ {worker.task} : task'[s] = task[s]
  BY RowGoesOn
<1>3. \A s \in TaskIds : task'[s].status = task[s].status
  BY <1>1, <1>2 DEF Current
<1>4. QED
  BY <1>2, <1>3 DEF Still

LEMMA TouchStill ==
  ASSUME IInv, worker.mode # "idle", task' = [task EXCEPT ![worker.task] = TouchedRow(Current)]
  PROVE  Still
<1>1. /\ TouchedRow(Current) \in Row /\ TouchedRow(Current).status = "running"
      /\ SameTask(TouchedRow(Current), Current)
  BY Busy, TouchedFields
<1>2. QED
  BY <1>1, RowGoesOnStill

LEMMA StageStill ==
  ASSUME IInv, Stage
  PROVE  Still
<1>1. /\ worker.mode # "idle" /\ At("check") \in BOOLEAN
      /\ task' = [task EXCEPT ![worker.task] = StagedRow(Current, At("check"))]
  BY DEF Stage, At, StagedRow, Current
<1>2. /\ StagedRow(Current, At("check")) \in Row
      /\ StagedRow(Current, At("check")).status = "running"
      /\ SameTask(StagedRow(Current, At("check")), Current)
  BY <1>1, Busy, StagedFields
<1>3. QED
  BY <1>1, <1>2, RowGoesOnStill

\* The steps of the worker within a task leave the statuses alone.
LEMMA WithinStill ==
  ASSUME IInv, \/ Load \/ Mark \/ Stage \/ StageCanceled \/ RunEffect \/ WriteProject
               \/ RemoveProject \/ Verify \/ Commit \/ StepFails \/ Recover \/ RecoveryLost
               \/ ProcessExits \/ Crash
  PROVE  Still
<1>1. CASE \/ Load \/ Mark \/ StageCanceled \/ WriteProject \/ RemoveProject \/ Verify \/ Commit
           \/ Recover \/ RecoveryLost \/ ProcessExits
  BY <1>1, SameTableStill
     DEF Load, Mark, StageCanceled, WriteProject, RemoveProject, Verify, Commit, Recover,
         RecoveryLost, ProcessExits
<1>2. CASE Stage
  BY <1>2, StageStill
<1>3. CASE RunEffect
  BY <1>3, TouchStill DEF RunEffect, At, Touch, TouchedRow, Current
<1>4. CASE StepFails
  BY <1>4, FailsParts, TouchStill, SameTableStill
<1>5. CASE Crash
  BY <1>5, CrashLeaves, TouchStill, SameTableStill
<1>6. QED
  BY <1>1, <1>2, <1>3, <1>4, <1>5

LEMMA ClaimRows ==
  ASSUME IInv, NEW t \in TaskIds, Claim(t)
  PROVE  /\ task[t].status = "queued" /\ task'[t] = MovedRow(task[t], "running", TRUE)
         /\ \A s \in TaskIds \ {t} : task'[s] = task[s]
         /\ Moves(t, "running")
<1> DEFINE row == MovedRow(task[t], "running", TRUE)
<1>1. task[t].status = "queued" /\ task' = [task EXCEPT ![t] = row]
  BY DEF Claim, Is, MovedRow
<1>2. Exists(t) /\ task[t] \in Row
  BY <1>1, ExistingRow DEF Exists
<1>3. row \in Row /\ row.status = "running" /\ SameTask(row, task[t])
  BY <1>2, MovedFields
<1>4. row.kind = task[t].kind /\ row.retry = task[t].retry /\ row.prev = task[t].prev
  BY <1>3, Zenon DEF SameTask
<1> HIDE DEF row
<1>5. task'[t] = row /\ RowsKept /\ \A s \in TaskIds \ {t} : task'[s] = task[s]
  BY <1>1, <1>2, <1>3, <1>4, RowReplaced
<1>6. Moves(t, "running")
  BY <1>3, <1>5 DEF Moves
<1>7. QED
  BY <1>1, <1>5, <1>6 DEF row

\* What a request queues has not been touched.
LEMMA InsertEnters ==
  ASSUME ~Active, NEW row \in Row, row.status = "queued", ~row.touched, Insert(row)
  PROVE  \E t \in TaskIds : Enters(t)
<1>1. PICK t \in TaskIds : ~Exists(t) /\ task' = [task EXCEPT ![t] = row]
  BY DEF Insert
<1>2. Enters(t)
  BY <1>1, Zenon DEF Enters
<1>3. QED
  BY <1>2

LEMMA NewRowUntouched ==
  ASSUME NEW k \in Kinds, NEW retry \in BOOLEAN, NEW prev \in States
  PROVE  /\ NewRow(k, retry, prev) \in Row /\ NewRow(k, retry, prev).status = "queued"
         /\ ~NewRow(k, retry, prev).touched
<1>1. NewRow(k, retry, prev) \in Row /\ NewRow(k, retry, prev).status = "queued"
  BY NewRowTyped
<1>2. ~NewRow(k, retry, prev).touched
  BY Zenon DEF NewRow
<1>3. QED
  BY <1>1, <1>2

\* The steps that queue a task, and how the instance is marked for it.
LEMMA CreateEnters ==
  ASSUME IInv, CreateInstance
  PROVE  /\ \E t \in TaskIds : Enters(t)
         /\ inst'.status = OpStatus["create"]
         /\ \E t \in TaskIds : task'[t].status = "queued" /\ task'[t].kind = "create"
<1> DEFINE row == NewRow("create", FALSE, NoState)
<1>1. inst.status = "absent" /\ inst' = [inst EXCEPT !.status = "provisioning"] /\ Insert(row)
  BY DEF CreateInstance
<1>2. row.kind = "create"
  BY DEF NewRow
<1>3. row \in Row /\ row.status = "queued" /\ ~row.touched
  <2>1. "create" \in Kinds /\ FALSE \in BOOLEAN /\ NoState \in States
    BY KindNames, NoStates
  <2>2. QED
    BY <2>1, NewRowUntouched, Zenon
<1> HIDE DEF row
<1>4. ~Active
  BY <1>1 DEF IInv, CreatedFirst, Active, Exists
<1>5. inst'.status = OpStatus["create"]
  BY <1>1, InstTyped DEF InstRow, OpStatus
<1>6. \E t \in TaskIds : task'[t] = row
  BY <1>1 DEF Insert, IInv, TypeOK
<1>7. QED
  BY <1>1, <1>2, <1>3, <1>4, <1>5, <1>6, InsertEnters

LEMMA QueueEnters ==
  ASSUME IInv, NEW c \in Clients, QueueAction(c)
  PROVE  /\ \E t \in TaskIds : Enters(t)
         /\ request[c].kind \in Actions
         /\ inst'.status = OpStatus[request[c].kind]
         /\ \E t \in TaskIds : task'[t].status = "queued" /\ task'[t].kind = request[c].kind
<1> DEFINE k == request[c].kind
           seen == request[c].seen
           row == NewRow(k, FALSE, seen)
<1>1. /\ request[c] # NoRequest /\ ~Active /\ Insert(row)
      /\ inst' = [inst EXCEPT !.status = OpStatus[k]]
  BY DEF QueueAction
<1>2. k \in Actions /\ seen \in States
  BY <1>1 DEF IInv, RequestValid, TypeOK
<1>3. row.kind = k
  BY DEF NewRow
<1>4. row \in Row /\ row.status = "queued" /\ ~row.touched
  <2>1. k \in Kinds /\ FALSE \in BOOLEAN
    BY <1>2, ActionKinds
  <2>2. QED
    BY <1>2, <2>1, NewRowUntouched, Zenon
<1>5. inst'.status = OpStatus[k]
  BY <1>1, InstTyped DEF InstRow
<1> HIDE DEF row, k, seen
<1>6. \E t \in TaskIds : task'[t] = row
  BY <1>1 DEF Insert, IInv, TypeOK
<1>7. /\ \E t \in TaskIds : Enters(t)
      /\ \E t \in TaskIds : task'[t].status = "queued" /\ task'[t].kind = k
  BY <1>1, <1>3, <1>4, <1>6, InsertEnters
<1>8. QED
  BY <1>2, <1>5, <1>7 DEF k

LEMMA RetryEnters ==
  ASSUME IInv, NEW t \in TaskIds, Retry(t)
  PROVE  \E s \in TaskIds : Enters(s)
<1> DEFINE row == NewRow(task[t].kind, TRUE, task[t].prev)
<1>1. task[t].status \in Retryable /\ ~Active /\ Insert(row)
  BY DEF Retry
<1>2. Exists(t) /\ task[t] \in Row
  BY <1>1, ExistingRow DEF Exists, Retryable
<1>3. row \in Row /\ row.status = "queued" /\ ~row.touched
  <2>1. task[t].kind \in Kinds /\ task[t].prev \in States /\ TRUE \in BOOLEAN
    BY <1>2 DEF Row
  <2>2. QED
    BY <2>1, NewRowUntouched, Zenon
<1> HIDE DEF row
<1>4. QED
  BY <1>1, <1>3, InsertEnters

LEMMA CancelSteps ==
  ASSUME IInv, ConfirmCancel \/ \E t \in TaskIds : CancelRunning(t)
  PROVE  \/ Still
         \/ \E t \in TaskIds : Is(t, "queued") /\ Moves(t, "canceled")
<1>1. ASSUME NEW t \in TaskIds, task[t].status = "queued", CancelQueued(t)
      PROVE  Is(t, "queued") /\ Moves(t, "canceled")
  <2>1. CanceledRow(task[t]).status = "canceled"
    BY <1>1, ExistingRow, CanceledFields DEF Exists
  <2>2. /\ RowsKept /\ task'[t] = CanceledRow(task[t])
        /\ \A s \in TaskIds \ {t} : task'[s] = task[s]
    BY <1>1, CancelQueuedStep
  <2>3. QED
    BY <1>1, <2>1, <2>2 DEF Moves, Is
<1>2. ASSUME NEW t \in TaskIds, task[t].status = "running", AskCancel(t)
      PROVE  Still
  BY <1>2, AskStep DEF Still
<1>3. CASE ConfirmCancel
  <2>1. plan.task \in TaskIds
    BY <1>3, PlanWritten DEF ConfirmCancel
  <2>2. \/ task[plan.task].status = "queued" /\ CancelQueued(plan.task)
        \/ task[plan.task].status = "running" /\ AskCancel(plan.task)
        \/ UNCHANGED task
    BY <1>3 DEF ConfirmCancel, Is
  <2>3. QED
    BY <1>1, <1>2, <2>1, <2>2, SameTableStill
<1>4. CASE \E t \in TaskIds : CancelRunning(t)
  BY <1>2, <1>4 DEF CancelRunning, Is
<1>5. QED
  BY <1>3, <1>4

LEMMA FinishMoves ==
  ASSUME IInv, Finish
  PROVE  /\ worker.task \in TaskIds /\ worker.result \in Ended
         /\ Is(worker.task, "running") /\ Moves(worker.task, worker.result)
         /\ UNCHANGED inst
         /\ worker.result = "succeeded" => inst.status \notin Operating
<1>1. /\ worker.mode = "finish" /\ worker.mode # "idle" /\ worker.result \in Ended
      /\ UNCHANGED inst /\ RowsKept
      /\ task'[worker.task] = MovedRow(Current, worker.result, FALSE)
      /\ \A s \in TaskIds \ {worker.task} : task'[s] = task[s]
  BY FinishWrites
<1>2. worker.task \in TaskIds /\ Current \in Row /\ Current.status = "running"
  BY <1>1, Busy
<1>3. MovedRow(Current, worker.result, FALSE).status = worker.result
  <2>1. worker.result \in {"queued", "running"} \cup Ended /\ FALSE \in BOOLEAN
    BY <1>1
  <2>2. QED
    BY <1>2, <2>1, MovedFields, Zenon
<1>4. Moves(worker.task, worker.result)
  BY <1>1, <1>3 DEF Moves
<1>5. worker.result = "succeeded" => inst.status \notin Operating
  BY <1>1 DEF IInv, Position
<1>6. QED
  BY <1>1, <1>2, <1>4, <1>5 DEF Is, Current

LEMMA RestartInterrupts ==
  ASSUME IInv, Restart
  PROVE  Interrupts
<1>1. ASSUME NEW t \in TaskIds, task[t].status = "running"
      PROVE  MovedRow(task[t], "interrupted", FALSE).status = "interrupted"
  <2>1. task[t] \in Row
    BY <1>1, ExistingRow DEF Exists
  <2>2. "interrupted" \in {"queued", "running"} \cup Ended /\ FALSE \in BOOLEAN
    BY DEF Ended
  <2>3. QED
    BY <2>1, <2>2, MovedFields, Zenon
<1>2. QED
  BY <1>1, RestartRows DEF Interrupts

LEMMA TableSteps ==
  ASSUME IInv, [Next]_vars
  PROVE  KeepsRows \/ Inserts
<1>1. CASE UNCHANGED vars
  BY <1>1, SameTableStill DEF vars, KeepsRows
<1>2. CASE Api
  <2>1. CASE \/ CreateInstance \/ \E t \in TaskIds : Retry(t)
             \/ \E c \in Clients : QueueAction(c)
    BY <2>1 DEF Inserts
  <2>2. CASE ConfirmCancel \/ \E t \in TaskIds : CancelRunning(t)
    BY <2>2, CancelSteps DEF KeepsRows
  <2>3. CASE \/ \E c \in Clients : (\E k \in Actions : ReadForAction(c, k)) \/ RejectAction(c)
             \/ \E t \in TaskIds : PrepareCancel(t)
    BY <2>3, SameTableStill DEF ReadForAction, RejectAction, PrepareCancel, KeepsRows
  <2>4. QED
    BY <1>2, <2>1, <2>2, <2>3 DEF Api
<1>3. CASE Work \/ RecoveryLost \/ ProcessExits \/ Crash
  <2>1. CASE \E t \in TaskIds : Claim(t)
    BY <2>1, ClaimRows DEF KeepsRows, Is
  <2>2. CASE Finish
    BY <2>2, FinishMoves DEF KeepsRows
  <2>3. QED
    BY <1>3, <2>1, <2>2, WithinStill DEF Work, KeepsRows
<1>4. CASE Check \/ PollStopped \/ ContainersFail \/ ContainersBoot \/ ContainersHeal \/ Shutdown
  BY <1>4, SameTableStill
     DEF Check, Observe, ReadRow, Reconcile, CountRestart, AutoStart, AutoStartFails, GiveUp,
         PollStopped, ContainersFail, ContainersBoot, ContainersHeal, Shutdown, KeepsRows
<1>5. CASE Restart
  BY <1>5, RestartInterrupts DEF KeepsRows
<1>6. QED
  BY <1>1, <1>2, <1>3, <1>4, <1>5 DEF Next

LEMMA InsertsEnter ==
  ASSUME IInv, Inserts
  PROVE  \E t \in TaskIds : Enters(t)
BY CreateEnters, QueueEnters, RetryEnters DEF Inserts

LEMMA KeepsRowsKept ==
  ASSUME KeepsRows
  PROVE  RowsKept
BY DEF KeepsRows, Still, Moves, Interrupts

--------------------------------------------------------------------------------
(* The status of the instance *)

\* The steps that write the row of the instance.
LEMMA InstWriters ==
  ASSUME [Next]_vars
  PROVE  \/ UNCHANGED inst
         \/ CreateInstance \/ (\E c \in Clients : QueueAction(c)) \/ ConfirmCancel
         \/ Mark \/ Commit \/ Recover
         \/ Check \/ PollStopped
<1>1. CASE Api
  BY <1>1 DEF Api, ReadForAction, RejectAction, Retry, PrepareCancel, CancelRunning
<1>2. CASE Work \/ RecoveryLost
  BY <1>2 DEF Work, RecoveryLost, Claim, Load, Stage, StageCanceled, RunEffect, WriteProject,
              RemoveProject, Verify, StepFails, Finish
<1>3. CASE \/ ContainersFail \/ ContainersBoot \/ ContainersHeal \/ Shutdown \/ ProcessExits
           \/ Crash \/ Restart \/ UNCHANGED vars
  BY <1>3 DEF ContainersFail, ContainersBoot, ContainersHeal, Shutdown, ProcessExits, Crash,
              Restart, vars
<1>4. QED
  BY <1>1, <1>2, <1>3 DEF Next

LEMMA InstanceSteps ==
  ASSUME IInv, [Next]_vars
  PROVE  \/ inst'.status = inst.status
         \/ inst'.status \notin Operating
         \/ \E k \in Kinds : /\ inst'.status = OpStatus[k]
                             /\ \E t \in TaskIds : /\ task'[t].status \in {"queued", "running"}
                                                   /\ task'[t].kind = k
<1>1. CASE UNCHANGED inst
  BY <1>1
<1>2. CASE CreateInstance
  BY <1>2, CreateEnters, KindNames
<1>3. CASE \E c \in Clients : QueueAction(c)
  BY <1>3, QueueEnters, ActionKinds
<1>4. CASE Mark
  <2>1. inst'.status = OpStatus[Current.kind] /\ worker.mode # "idle" /\ UNCHANGED task
    BY <1>4, MarkWrites
  <2>2. worker.task \in TaskIds /\ Current.kind \in Kinds /\ Current.status = "running"
    BY <2>1, Busy
  <2>3. QED
    BY <2>1, <2>2 DEF Current
<1>5. CASE Commit
  BY <1>5, CommitWrites DEF Operating
<1>6. CASE Recover
  BY <1>6, RecoverWrites DEF Operating, Stable
<1>7. CASE ConfirmCancel
  <2>1. plan # NoPlan /\ inst' \in {inst, WithState(inst, plan.state)}
    BY <1>7 DEF ConfirmCancel
  <2>2. QED
    BY <2>1, PlanWritten DEF Operating, Stable
<1>8. CASE Check \/ PollStopped
  BY <1>8, CheckWrites DEF Operating, Stable
<1>9. QED
  BY <1>1, <1>2, <1>3, <1>4, <1>5, <1>6, <1>7, <1>8, InstWriters

\* A task that can explain an operation status.
Explaining == {"queued", "running"} \cup Retryable

\* Until its task succeeds, what explains a status goes on explaining it.
LEMMA ExplainingStays ==
  ASSUME IInv, [Next]_vars, inst'.status \in Operating,
         NEW t \in TaskIds, Exists(t), task[t].status \in Explaining
  PROVE  Exists(t)' /\ task'[t].kind = task[t].kind /\ task'[t].status \in Explaining
<1>1. CASE Still
  BY <1>1 DEF Still, RowsKept, Exists
<1>2. CASE \E s \in TaskIds : Enters(s)
  <2>1. PICK s \in TaskIds, row \in Row : ~Exists(s) /\ task' = [task EXCEPT ![s] = row]
    BY <1>2 DEF Enters
  <2>2. task'[t] = task[t]
    BY <2>1 DEF IInv, TypeOK
  <2>3. QED
    BY <2>2 DEF Exists
<1>3. CASE \E s \in TaskIds : Is(s, "queued") /\ (Moves(s, "running") \/ Moves(s, "canceled"))
  BY <1>3 DEF Moves, RowsKept, Exists, Explaining, Retryable
<1>4. CASE \E s \in TaskIds, outcome \in Ended :
             /\ Is(s, "running") /\ Moves(s, outcome)
             /\ UNCHANGED inst
             /\ outcome = "succeeded" => inst.status \notin Operating
  BY <1>4 DEF Moves, RowsKept, Exists, Explaining, Retryable, Ended
<1>5. CASE Interrupts
  BY <1>5 DEF Interrupts, RowsKept, Exists, Explaining, Retryable
<1>6. QED
  BY <1>1, <1>2, <1>3, <1>4, <1>5, TableSteps, InsertsEnter DEF KeepsRows

\* OpStatusExplained: an operation status has an active or a retryable task of
\* its kind, although the status and the task are written by different steps.
THEOREM OperationsExplained == Spec => []OpStatusExplained
<1>1. Init => OpStatusExplained
  BY KindNames, OpStatuses DEF Init, OpStatusExplained, Operating
<1>2. IInv /\ [Next]_vars /\ OpStatusExplained => OpStatusExplained'
  <2> SUFFICES ASSUME IInv, [Next]_vars, OpStatusExplained,
                      NEW k \in Kinds, inst'.status = OpStatus[k]
               PROVE  \E t \in TaskIds : /\ Exists(t)' /\ task'[t].kind = k
                                         /\ task'[t].status \in Explaining
    BY DEF OpStatusExplained, Explaining, Exists
  <2>1. inst'.status \in Operating
    BY OpStatuses
  <2>2. CASE inst'.status = inst.status
    <3>1. PICK t \in TaskIds : Exists(t) /\ task[t].kind = k /\ task[t].status \in Explaining
      BY <2>2 DEF OpStatusExplained, Explaining
    <3>2. QED
      BY <2>1, <3>1, ExplainingStays
  <2>3. CASE \E j \in Kinds : /\ inst'.status = OpStatus[j]
                              /\ \E t \in TaskIds : /\ task'[t].status \in {"queued", "running"}
                                                    /\ task'[t].kind = j
    <3>1. PICK j \in Kinds, t \in TaskIds :
            /\ OpStatus[j] = OpStatus[k]
            /\ task'[t].status \in {"queued", "running"} /\ task'[t].kind = j
      BY <2>3
    <3>2. j = k
      BY <3>1, KindNames DEF OpStatus
    <3>3. QED
      BY <3>1, <3>2 DEF Exists, Explaining
  <2>4. QED
    BY <2>1, <2>2, <2>3, InstanceSteps
<1>3. QED
  BY <1>1, <1>2, Invariance, PTL DEF Spec

--------------------------------------------------------------------------------
(* The automatic restarts *)

\* What the monitor knows of the failures while it decides: the row has no more
\* of them than it read, and three stop the restarts.
Counted ==
  /\ inst.failures <= 3
  /\ poll.mode = "read" => inst.failures <= poll.failures
  /\ poll.mode = "restart" => inst.failures < 3

LEMMA WithStateFailures ==
  ASSUME NEW i, NEW st
  PROVE  WithState(i, st).failures = 0 \/ WithState(i, st).failures = i.failures
BY DEF WithState

\* Only the monitor counts; the others keep the failures or forget them.
LEMMA FailuresSteps ==
  ASSUME IInv, [Next]_vars, ~CountRestart
  PROVE  inst'.failures = 0 \/ inst'.failures = inst.failures
<1>1. CASE UNCHANGED inst
  BY <1>1
<1>2. CASE \E st : inst' = WithState(inst, st)
  BY <1>2, WithStateFailures
<1>3. CASE \E s : inst' = [inst EXCEPT !.status = s]
  BY <1>3, InstTyped DEF InstRow
<1>4. CASE CreateInstance \/ \E c \in Clients : QueueAction(c)
  BY <1>3, <1>4 DEF CreateInstance, QueueAction
<1>5. CASE ConfirmCancel \/ Mark \/ Commit \/ Recover \/ Reconcile \/ GiveUp
  BY <1>1, <1>2, <1>5 DEF ConfirmCancel, Mark, Commit, Recover, Reconcile, GiveUp, UpdateState
<1>6. CASE Observe \/ ReadRow \/ AutoStart \/ AutoStartFails \/ PollStopped
  BY <1>1, <1>6 DEF Observe, ReadRow, AutoStart, AutoStartFails, PollStopped
<1>7. QED
  BY <1>1, <1>4, <1>5, <1>6, InstWriters DEF Check

LEMMA PollSteps ==
  ASSUME IInv, [Next]_vars
  PROVE  Check \/ UNCHANGED poll \/ poll' = NoPoll
<1>1. CASE Api
  BY <1>1 DEF Api, CreateInstance, ReadForAction, QueueAction, RejectAction, Retry, PrepareCancel,
              ConfirmCancel, CancelRunning
<1>2. CASE Work \/ RecoveryLost
  BY <1>2 DEF Work, RecoveryLost, Claim, Load, Mark, Stage, StageCanceled, RunEffect, WriteProject,
              RemoveProject, Verify, Commit, StepFails, Recover, Finish
<1>3. CASE \/ PollStopped \/ ContainersFail \/ ContainersBoot \/ ContainersHeal \/ Shutdown
           \/ ProcessExits \/ Crash \/ Restart \/ UNCHANGED vars
  BY <1>3 DEF PollStopped, ContainersFail, ContainersBoot, ContainersHeal, Shutdown, ProcessExits,
              Crash, Restart, Forget, vars
<1>4. QED
  BY <1>1, <1>2, <1>3 DEF Next

LEMMA PollTyped ==
  ASSUME IInv
  PROVE  poll \in [mode : {"idle", "observed", "read", "restart", "start", "giveUp"},
                  box : Boxes, seen : States, failures : Nat]
BY DEF IInv, TypeOK

LEMMA CountedStep ==
  ASSUME IInv, Counted, [Next]_vars
  PROVE  Counted'
<1>1. inst.failures \in Nat /\ poll.failures \in Nat
  BY DEF IInv, TypeOK
<1>2. CASE CountRestart
  <2>1. poll.mode = "restart" /\ inst' = [inst EXCEPT !.failures = inst.failures + 1]
    BY <1>2 DEF CountRestart
  <2>2. poll' = [poll EXCEPT !.mode = "start", !.failures = inst.failures + 1]
    BY <1>2 DEF CountRestart
  <2>3. inst'.failures = inst.failures + 1
    BY <2>1, InstTyped DEF InstRow
  <2>4. poll'.mode = "start"
    BY <2>2 DEF IInv, TypeOK
  <2>5. inst.failures < 3
    BY <2>1 DEF Counted
  <2>6. QED
    BY <1>1, <2>3, <2>4, <2>5 DEF Counted
<1>3. CASE ~CountRestart
  <2>1. inst'.failures <= inst.failures /\ inst'.failures \in Nat
    BY <1>1, <1>3, FailuresSteps
  <2>2. inst'.failures <= 3
    BY <1>1, <2>1 DEF Counted
  <2>3. CASE UNCHANGED poll
    BY <1>1, <2>1, <2>2, <2>3 DEF Counted
  <2>4. CASE poll'.mode \notin {"read", "restart"}
    BY <2>2, <2>4 DEF Counted
  <2>5. CASE ReadRow
    <3>1. \/ poll' = NoPoll
          \/ poll' = [poll EXCEPT !.mode = "read", !.seen = StateOf(inst), !.failures = inst.failures]
      BY <2>5 DEF ReadRow
    <3>2. CASE poll' = NoPoll
      BY <2>4, <3>2 DEF NoPoll
    <3>3. CASE poll' = [poll EXCEPT !.mode = "read", !.seen = StateOf(inst),
                                    !.failures = inst.failures]
      <4>1. poll'.mode = "read" /\ poll'.failures = inst.failures
        BY <3>3, PollTyped
      <4>2. QED
        BY <2>1, <2>2, <4>1 DEF Counted
    <3>4. QED
      BY <3>1, <3>2, <3>3
  <2>6. CASE Reconcile
    <3>1. poll.mode = "read" /\ poll' = IF MayRestart(poll) THEN [poll EXCEPT !.mode = "restart"]
                                                            ELSE NoPoll
      BY <2>6 DEF Reconcile
    <3>2. inst.failures <= poll.failures
      BY <3>1 DEF Counted
    <3>3. CASE MayRestart(poll)
      <4>1. poll.failures < 3
        BY <3>3 DEF MayRestart
      <4>2. poll'.mode = "restart"
        BY <3>1, <3>3 DEF IInv, TypeOK
      <4>3. inst'.failures < 3
        BY <1>1, <2>1, <3>2, <4>1
      <4>4. QED
        BY <2>2, <4>2, <4>3 DEF Counted
    <3>4. CASE ~MayRestart(poll)
      BY <2>4, <3>1, <3>4 DEF NoPoll
    <3>5. QED
      BY <3>3, <3>4
  <2>7. CASE Observe \/ AutoStart \/ AutoStartFails \/ GiveUp \/ poll' = NoPoll
    <3>1. \/ poll' \in {NoPoll, [NoPoll EXCEPT !.mode = "observed", !.box = box]}
          \/ poll' = [poll EXCEPT !.mode = "giveUp"]
      BY <2>7 DEF Observe, AutoStart, AutoStartFails, GiveUp
    <3>2. NoPoll.mode = "idle" /\ [NoPoll EXCEPT !.mode = "observed", !.box = box].mode = "observed"
      BY DEF NoPoll
    <3>3. [poll EXCEPT !.mode = "giveUp"].mode = "giveUp"
      BY PollTyped
    <3>4. poll'.mode \notin {"read", "restart"}
      BY <3>1, <3>2, <3>3
    <3>5. QED
      BY <2>4, <3>4
  <2>8. QED
    BY <1>3, <2>3, <2>5, <2>6, <2>7, PollSteps DEF Check
<1>4. QED
  BY <1>2, <1>3

\* RestartCap: the monitor never counts more than three automatic restarts,
\* although tasks reset the failures between its reading and its counting.
THEOREM RestartsCapped == Spec => []RestartCap
<1>1. Init => Counted
  BY DEF Init, Counted, NoPoll
<1>2. IInv /\ [Next]_vars /\ Counted => Counted'
  BY CountedStep
<1>3. Counted => RestartCap
  BY DEF Counted, RestartCap
<1>4. QED
  BY <1>1, <1>2, <1>3, Invariance, PTL DEF Spec

--------------------------------------------------------------------------------
(* Canceled tasks *)

\* The step of a handler that closes the cancellation window first.
FirstSeal == [k \in Kinds |-> IF k = "create" THEN 5 ELSE 3]

\* Nothing is touched before that step, and no cancellation is asked for or
\* possible after it; so a task that ends canceled was canceled before it.
RowsUntouched ==
  \A t \in TaskIds : task[t].status \in {"queued", "canceled"} => ~task[t].touched

WorkerUntouched ==
  /\ worker.mode = "run" /\ worker.step <= FirstSeal[Current.kind] => ~Current.touched
  /\ worker.mode = "run" /\ ~(worker.step <= FirstSeal[Current.kind])
       => ~Current.cancelable /\ ~Current.cancelAsked
  /\ worker.mode \in {"recover", "finish"} /\ worker.result = "canceled" => ~Current.touched

\* Where the steps of a handler lie around its first seal.
LEMMA ProgramSeals ==
  ASSUME NEW k \in Kinds, NEW s \in 1..Len(Program[k])
  PROVE  /\ FirstSeal[k] \in Nat /\ s \in Nat /\ s + 1 \in Nat /\ 1 <= FirstSeal[k]
         /\ Program[k][s] \in {"load", "mark", "check", "write"}
              => s <= FirstSeal[k] /\ s + 1 <= FirstSeal[k]
         /\ Program[k][s] \in ContainerEffects \cup {"remove", "verify"}
              => ~(s <= FirstSeal[k]) /\ ~(s + 1 <= FirstSeal[k])
         /\ Program[k][s] = "seal" => ~(s + 1 <= FirstSeal[k])
<1>1. FirstSeal[k] = IF k = "create" THEN 5 ELSE 3
  BY DEF FirstSeal
<1>2. CASE k = "create"
  BY <1>1, <1>2 DEF Program, ContainerEffects
<1>3. CASE k = "start"
  BY <1>1, <1>3 DEF Program, ContainerEffects
<1>4. CASE k = "stop"
  BY <1>1, <1>4 DEF Program, ContainerEffects
<1>5. CASE k = "restart"
  BY <1>1, <1>5 DEF Program, ContainerEffects
<1>6. CASE k = "delete"
  BY <1>1, <1>6 DEF Program, ContainerEffects
<1>7. QED
  BY <1>2, <1>3, <1>4, <1>5, <1>6, KindNames

\* What a step makes of one row.
RowStep(t) ==
  \/ task'[t] = task[t]
  \/ task'[t].status = "queued" /\ ~task'[t].touched
  \/ task'[t].status \in {"running", "interrupted"}
  \/ task[t].status = "queued" /\ task'[t].touched = task[t].touched
  \/ Finish /\ t = worker.task

LEMMA WorkerRowStep ==
  ASSUME IInv, worker.mode # "idle", NEW row \in Row, SameTask(row, Current),
         row.status = "running", task' = [task EXCEPT ![worker.task] = row], NEW t \in TaskIds
  PROVE  RowStep(t)
<1>1. /\ task'[worker.task].status = "running"
      /\ \A s \in TaskIds \ {worker.task} : task'[s] = task[s]
  BY RowGoesOn
<1>2. QED
  BY <1>1 DEF RowStep

LEMMA TouchRowStep ==
  ASSUME IInv, worker.mode # "idle", task' = [task EXCEPT ![worker.task] = TouchedRow(Current)],
         NEW t \in TaskIds
  PROVE  RowStep(t)
<1>1. /\ TouchedRow(Current) \in Row /\ TouchedRow(Current).status = "running"
      /\ SameTask(TouchedRow(Current), Current)
  BY Busy, TouchedFields
<1>2. QED
  BY <1>1, WorkerRowStep

LEMMA CancelRowStep ==
  ASSUME IInv, ConfirmCancel \/ \E s \in TaskIds : CancelRunning(s), NEW t \in TaskIds
  PROVE  RowStep(t)
<1>1. ASSUME NEW s \in TaskIds, task[s].status = "queued", CancelQueued(s)
      PROVE  RowStep(t)
  <2>1. CanceledRow(task[s]).touched = task[s].touched
    BY <1>1, ExistingRow, CanceledFields DEF Exists
  <2>2. task'[s] = CanceledRow(task[s]) /\ \A r \in TaskIds \ {s} : task'[r] = task[r]
    BY <1>1, CancelQueuedStep
  <2>3. CASE t = s
    <3>1. task'[t].touched = task[t].touched
      BY <2>1, <2>2, <2>3, Zenon
    <3>2. QED
      BY <1>1, <2>3, <3>1 DEF RowStep
  <2>4. QED
    BY <2>2, <2>3 DEF RowStep
<1>2. ASSUME NEW s \in TaskIds, task[s].status = "running", AskCancel(s)
      PROVE  RowStep(t)
  <2>1. /\ \A r \in TaskIds \ {s} : task'[r] = task[r]
        /\ \A r \in TaskIds : task'[r].status = task[r].status
    BY <1>2, AskStep
  <2>2. QED
    BY <1>2, <2>1 DEF RowStep
<1>3. CASE ConfirmCancel
  <2>1. plan.task \in TaskIds
    BY <1>3, PlanWritten DEF ConfirmCancel
  <2>2. \/ task[plan.task].status = "queued" /\ CancelQueued(plan.task)
        \/ task[plan.task].status = "running" /\ AskCancel(plan.task)
        \/ UNCHANGED task
    BY <1>3 DEF ConfirmCancel, Is
  <2>3. QED
    BY <1>1, <1>2, <2>1, <2>2 DEF RowStep
<1>4. CASE \E s \in TaskIds : CancelRunning(s)
  BY <1>2, <1>4 DEF CancelRunning, Is
<1>5. QED
  BY <1>3, <1>4

LEMMA EnterRowStep ==
  ASSUME IInv, \E s \in TaskIds : Enters(s), NEW t \in TaskIds
  PROVE  RowStep(t)
<1>1. PICK s \in TaskIds, row \in Row :
        row.status = "queued" /\ ~row.touched /\ task' = [task EXCEPT ![s] = row]
  BY DEF Enters
<1>2. task'[s] = row /\ \A r \in TaskIds \ {s} : task'[r] = task[r]
  BY <1>1 DEF IInv, TypeOK
<1>3. CASE t = s
  BY <1>1, <1>2, <1>3, Zenon DEF RowStep
<1>4. CASE t # s
  BY <1>2, <1>4 DEF RowStep
<1>5. QED
  BY <1>3, <1>4

LEMMA RowSteps ==
  ASSUME IInv, [Next]_vars, NEW t \in TaskIds
  PROVE  RowStep(t)
<1>1. CASE UNCHANGED task
  BY <1>1 DEF RowStep
<1>2. CASE Api
  <2>1. CASE \/ CreateInstance \/ \E s \in TaskIds : Retry(s)
             \/ \E c \in Clients : QueueAction(c)
    BY <2>1, CreateEnters, QueueEnters, RetryEnters, EnterRowStep
  <2>2. CASE ConfirmCancel \/ \E s \in TaskIds : CancelRunning(s)
    BY <2>2, CancelRowStep
  <2>3. CASE \/ \E c \in Clients : (\E k \in Actions : ReadForAction(c, k)) \/ RejectAction(c)
             \/ \E s \in TaskIds : PrepareCancel(s)
    BY <1>1, <2>3 DEF ReadForAction, RejectAction, PrepareCancel
  <2>4. QED
    BY <1>2, <2>1, <2>2, <2>3 DEF Api
<1>3. CASE Work \/ RecoveryLost
  <2>1. CASE \E s \in TaskIds : Claim(s)
    <3>1. PICK s \in TaskIds : Claim(s)
      BY <2>1
    <3>2. task'[s].status = "running" /\ \A r \in TaskIds \ {s} : task'[r] = task[r]
      BY <3>1, ClaimRows DEF Moves
    <3>3. QED
      BY <3>2 DEF RowStep
  <2>2. CASE Stage
    <3>1. /\ worker.mode # "idle" /\ At("check") \in BOOLEAN
          /\ task' = [task EXCEPT ![worker.task] = StagedRow(Current, At("check"))]
      BY <2>2 DEF Stage, At, StagedRow, Current
    <3>2. /\ StagedRow(Current, At("check")) \in Row
          /\ StagedRow(Current, At("check")).status = "running"
          /\ SameTask(StagedRow(Current, At("check")), Current)
      BY <3>1, Busy, StagedFields
    <3>3. QED
      BY <3>1, <3>2, WorkerRowStep
  <2>3. CASE RunEffect
    BY <2>3, TouchRowStep DEF RunEffect, At, Touch, TouchedRow, Current
  <2>4. CASE StepFails
    BY <1>1, <2>4, FailsParts, TouchRowStep
  <2>5. CASE Finish
    <3>1. \A r \in TaskIds \ {worker.task} : task'[r] = task[r]
      BY <2>5, FinishWrites
    <3>2. QED
      BY <2>5, <3>1 DEF RowStep
  <2>6. QED
    BY <1>1, <1>3, <2>1, <2>2, <2>3, <2>4, <2>5
       DEF Work, RecoveryLost, Load, Mark, StageCanceled, WriteProject, RemoveProject, Verify,
           Commit, Recover
<1>4. CASE \/ Check \/ PollStopped \/ ContainersFail \/ ContainersBoot \/ ContainersHeal
           \/ Shutdown \/ ProcessExits
  BY <1>1, <1>4
     DEF Check, Observe, ReadRow, Reconcile, CountRestart, AutoStart, AutoStartFails, GiveUp,
         PollStopped, ContainersFail, ContainersBoot, ContainersHeal, Shutdown, ProcessExits
<1>5. CASE Crash
  BY <1>1, <1>5, CrashLeaves, TouchRowStep
<1>6. CASE Restart
  <2>1. task[t].status = "running" => task'[t].status = "interrupted"
    BY <1>6, RestartInterrupts DEF Interrupts
  <2>2. task[t].status # "running" => task'[t] = task[t]
    BY <1>6, RestartRows
  <2>3. QED
    BY <2>1, <2>2 DEF RowStep
<1>7. QED
  BY <1>1, <1>2, <1>3, <1>4, <1>5, <1>6 DEF Next, vars

LEMMA RowsUntouchedStep ==
  ASSUME IInv, RowsUntouched, WorkerUntouched, [Next]_vars
  PROVE  RowsUntouched'
<1> SUFFICES ASSUME NEW t \in TaskIds, task'[t].status \in {"queued", "canceled"}
             PROVE  ~task'[t].touched
  BY DEF RowsUntouched
<1>1. CASE task'[t] = task[t]
  <2>1. task[t].status \in {"queued", "canceled"}
    BY <1>1
  <2>2. ~task[t].touched
    BY <2>1 DEF RowsUntouched
  <2>3. QED
    BY <1>1, <2>2, Zenon
<1>2. CASE task[t].status = "queued" /\ task'[t].touched = task[t].touched
  <2>1. ~task[t].touched
    BY <1>2 DEF RowsUntouched
  <2>2. QED
    BY <1>2, <2>1, Zenon
<1>3. CASE Finish /\ t = worker.task
  <2>1. /\ worker.mode = "finish" /\ worker.mode # "idle" /\ worker.result \in Ended
        /\ task'[t] = MovedRow(Current, worker.result, FALSE)
    BY <1>3, FinishWrites
  <2>2. Current \in Row /\ worker.result \in {"queued", "running"} \cup Ended /\ FALSE \in BOOLEAN
    BY <2>1, Busy
  <2>3. /\ MovedRow(Current, worker.result, FALSE).status = worker.result
        /\ MovedRow(Current, worker.result, FALSE).touched = Current.touched
    BY <2>2, MovedFields, Zenon
  <2>4. worker.result = "canceled"
    BY <2>1, <2>3 DEF Ended
  <2>5. ~Current.touched
    BY <2>1, <2>4 DEF WorkerUntouched
  <2>6. QED
    BY <2>1, <2>3, <2>5, Zenon
<1>4. QED
  BY <1>1, <1>2, <1>3, RowSteps DEF RowStep

\* The part of the handler before its first seal, in the next state.
LEMMA EarlyStep ==
  ASSUME worker'.mode = "run",
         worker'.step <= FirstSeal[task'[worker'.task].kind], ~task'[worker'.task].touched
  PROVE  WorkerUntouched'
BY DEF WorkerUntouched, Current

\* The part after it.
LEMMA LateStep ==
  ASSUME worker'.mode = "run",
         ~(worker'.step <= FirstSeal[task'[worker'.task].kind]),
         ~task'[worker'.task].cancelable, ~task'[worker'.task].cancelAsked
  PROVE  WorkerUntouched'
BY DEF WorkerUntouched, Current

LEMMA RunningHandler ==
  ASSUME IInv, worker.mode = "run"
  PROVE  /\ worker.mode # "idle" /\ Current.kind \in Kinds
         /\ worker.step \in 1..Len(Program[Current.kind])
         /\ worker.task \in TaskIds
BY Busy, WorkerTypes

LEMMA AdvanceFields ==
  ASSUME IInv, Advance
  PROVE  /\ worker'.task = worker.task /\ worker'.mode = worker.mode
         /\ worker'.step = worker.step + 1
BY WorkerTypes DEF Advance

\* Steps of a handler that leave its row alone.
LEMMA QuietAdvance ==
  ASSUME IInv, WorkerUntouched, worker.mode = "run", Advance, UNCHANGED task,
         Program[Current.kind][worker.step]
           \in {"mark", "write", "verify", "remove"}
  PROVE  WorkerUntouched'
<1> DEFINE k == Current.kind
           first == FirstSeal[k]
<1>1. task'[worker'.task] = Current /\ worker'.mode = "run" /\ worker'.step = worker.step + 1
  BY AdvanceFields DEF Current
<1>2. CASE Program[k][worker.step] \in {"mark", "write"}
  <2>1. worker.step <= first /\ worker.step + 1 <= first
    BY <1>2, RunningHandler, ProgramSeals
  <2>2. ~Current.touched
    BY <2>1 DEF WorkerUntouched
  <2>3. ~task'[worker'.task].touched
    BY <1>1, <2>2, Zenon
  <2>4. worker'.step <= FirstSeal[task'[worker'.task].kind]
    BY <1>1, <2>1
  <2>5. QED
    BY <1>1, <2>3, <2>4, EarlyStep
<1>3. CASE Program[k][worker.step] \in {"verify", "remove"}
  <2>1. ~(worker.step <= first) /\ ~(worker.step + 1 <= first)
    BY <1>3, RunningHandler, ProgramSeals
  <2>2. ~Current.cancelable /\ ~Current.cancelAsked
    BY <2>1 DEF WorkerUntouched
  <2>3. ~task'[worker'.task].cancelable /\ ~task'[worker'.task].cancelAsked
    BY <1>1, <2>2, Zenon
  <2>4. ~(worker'.step <= FirstSeal[task'[worker'.task].kind])
    BY <1>1, <2>1
  <2>5. QED
    BY <1>1, <2>3, <2>4, LateStep
<1>4. QED
  BY <1>2, <1>3

LEMMA StageUntouched ==
  ASSUME IInv, WorkerUntouched, Stage
  PROVE  WorkerUntouched'
<1> DEFINE k == Current.kind
           first == FirstSeal[k]
           open == At("check")
           row == StagedRow(Current, open)
<1>1. /\ worker.mode = "run" /\ worker.mode # "idle" /\ open \in BOOLEAN
      /\ Program[k][worker.step] \in {"check", "seal"}
      /\ open <=> Program[k][worker.step] = "check"
      /\ task' = [task EXCEPT ![worker.task] = row] /\ Advance
  BY DEF Stage, At, StagedRow, Current
<1>2. ~Current.cancelAsked
  BY DEF Stage
<1>3. Current \in Row
  BY <1>1, Busy
<1>4. /\ row \in Row /\ SameTask(row, Current) /\ row.cancelable = open
      /\ row.cancelAsked = Current.cancelAsked /\ row.touched = Current.touched
      /\ row.status = Current.status
  BY <1>1, <1>3, StagedFields, Zenon
<1>5. row.kind = k
  BY <1>4, Zenon DEF SameTask
<1>6. /\ worker'.task = worker.task /\ worker'.mode = "run" /\ worker'.step = worker.step + 1
  BY <1>1, AdvanceFields
<1>7. task'[worker'.task] = row
  BY <1>1, <1>6, Busy DEF IInv, TypeOK
<1>8. CASE Program[k][worker.step] = "check"
  <2>1. worker.step <= first /\ worker.step + 1 <= first
    BY <1>1, <1>8, RunningHandler, ProgramSeals
  <2>2. ~Current.touched
    BY <1>1, <2>1 DEF WorkerUntouched
  <2>3. ~task'[worker'.task].touched
    BY <1>4, <1>7, <2>2, Zenon
  <2>4. worker'.step <= FirstSeal[task'[worker'.task].kind]
    BY <1>5, <1>6, <1>7, <2>1
  <2>5. QED
    BY <1>6, <2>3, <2>4, EarlyStep
<1>9. CASE Program[k][worker.step] = "seal"
  <2>1. ~(worker.step + 1 <= first)
    BY <1>1, <1>9, RunningHandler, ProgramSeals
  <2>2. ~open
    BY <1>1, <1>9
  <2>3. ~task'[worker'.task].cancelable /\ ~task'[worker'.task].cancelAsked
    BY <1>2, <1>4, <1>7, <2>2, Zenon
  <2>4. ~(worker'.step <= FirstSeal[task'[worker'.task].kind])
    BY <1>5, <1>6, <1>7, <2>1
  <2>5. QED
    BY <1>6, <2>3, <2>4, LateStep
<1>10. QED
  BY <1>1, <1>8, <1>9

LEMMA EffectUntouched ==
  ASSUME IInv, WorkerUntouched, RunEffect
  PROVE  WorkerUntouched'
<1> DEFINE k == Current.kind
           first == FirstSeal[k]
           row == TouchedRow(Current)
<1>1. /\ worker.mode = "run" /\ worker.mode # "idle"
      /\ Program[k][worker.step] \in ContainerEffects
      /\ task' = [task EXCEPT ![worker.task] = row] /\ Advance
  BY DEF RunEffect, At, Touch, TouchedRow, Current
<1>2. Current \in Row
  BY <1>1, Busy
<1>3. /\ SameTask(row, Current)
      /\ row.cancelable = Current.cancelable /\ row.cancelAsked = Current.cancelAsked
  BY <1>2, TouchedFields, Zenon
<1>4. row.kind = k
  BY <1>3, Zenon DEF SameTask
<1>5. /\ worker'.task = worker.task /\ worker'.mode = "run" /\ worker'.step = worker.step + 1
  BY <1>1, AdvanceFields
<1>6. task'[worker'.task] = row
  BY <1>1, <1>5, Busy DEF IInv, TypeOK
<1>7. ~(worker.step <= first) /\ ~(worker.step + 1 <= first)
  BY <1>1, RunningHandler, ProgramSeals
<1>8. ~Current.cancelable /\ ~Current.cancelAsked
  BY <1>1, <1>7 DEF WorkerUntouched
<1>9. ~task'[worker'.task].cancelable /\ ~task'[worker'.task].cancelAsked
  BY <1>3, <1>6, <1>8, Zenon
<1>10. ~(worker'.step <= FirstSeal[task'[worker'.task].kind])
  BY <1>4, <1>5, <1>6, <1>7
<1>11. QED
  BY <1>5, <1>9, <1>10, LateStep

LEMMA LoadUntouched ==
  ASSUME IInv, WorkerUntouched, Load
  PROVE  WorkerUntouched'
<1>1. /\ worker.mode = "run" /\ Program[Current.kind][worker.step] = "load" /\ UNCHANGED task
      /\ worker' = [worker EXCEPT !.step = 2, !.prev = CurrentOrPrevious(Current, inst)]
  BY RunAt DEF Load
<1>2. worker'.task = worker.task /\ worker'.mode = "run" /\ worker'.step = 2
  BY <1>1, WorkerTypes
<1>3. task'[worker'.task] = Current
  BY <1>1, <1>2 DEF Current
<1>4. worker.step = 1
  BY <1>1, RunningHandler, ProgramSteps
<1>5. worker.step <= FirstSeal[Current.kind] /\ worker.step + 1 <= FirstSeal[Current.kind]
  BY <1>1, RunningHandler, ProgramSeals
<1>6. ~Current.touched
  BY <1>1, <1>5 DEF WorkerUntouched
<1>7. ~task'[worker'.task].touched
  BY <1>3, <1>6, Zenon
<1>8. worker'.step <= FirstSeal[task'[worker'.task].kind]
  BY <1>2, <1>3, <1>4, <1>5
<1>9. QED
  BY <1>2, <1>7, <1>8, EarlyStep

LEMMA ClaimUntouched ==
  ASSUME IInv, RowsUntouched, NEW t \in TaskIds, Claim(t)
  PROVE  WorkerUntouched'
<1> DEFINE row == MovedRow(task[t], "running", TRUE)
<1>1. task[t].status = "queued" /\ task'[t] = row
  BY ClaimRows
<1>2. worker'.task = t /\ worker'.mode = "run" /\ worker'.step = 1
  BY DEF Claim, Idle
<1>3. task[t] \in Row /\ TRUE \in BOOLEAN
  BY <1>1, ExistingRow DEF Exists
<1>4. row \in Row /\ row.touched = task[t].touched
  <2>1. "running" \in {"queued", "running"} \cup Ended
    OBVIOUS
  <2>2. QED
    BY <1>3, <2>1, MovedFields, Zenon
<1>5. ~task[t].touched
  BY <1>1 DEF RowsUntouched
<1>6. ~task'[worker'.task].touched
  BY <1>1, <1>2, <1>4, <1>5, Zenon
<1>7. worker'.step <= FirstSeal[task'[worker'.task].kind]
  <2>1. row.kind \in Kinds
    BY <1>4 DEF Row
  <2>2. task'[worker'.task] = row
    BY <1>1, <1>2
  <2> HIDE DEF row
  <2>3. 1 <= FirstSeal[row.kind]
    BY <2>1 DEF FirstSeal
  <2>4. QED
    BY <1>2, <2>2, <2>3
<1>8. QED
  BY <1>2, <1>6, <1>7, EarlyStep

\* A task that ends as canceled was asked to before the first seal.
LEMMA StageCanceledUntouched ==
  ASSUME IInv, WorkerUntouched, StageCanceled
  PROVE  WorkerUntouched'
<1>1. worker.mode = "run" /\ Throw("canceled") /\ UNCHANGED task
  BY RunAt DEF StageCanceled
<1>2. Current.cancelAsked
  BY DEF StageCanceled
<1>3. worker.step <= FirstSeal[Current.kind]
  <2> SUFFICES ASSUME ~(worker.step <= FirstSeal[Current.kind])
               PROVE  FALSE
    OBVIOUS
  <2>1. ~Current.cancelAsked
    BY <1>1 DEF WorkerUntouched
  <2>2. QED
    BY <1>2, <2>1
<1>4. ~Current.touched
  BY <1>1, <1>3 DEF WorkerUntouched
<1>5. worker'.task = worker.task /\ worker'.mode # "run"
  BY <1>1, WorkerTypes DEF Throw
<1>6. ~task'[worker'.task].touched
  BY <1>1, <1>4, <1>5, Zenon DEF Current
<1>7. QED
  BY <1>5, <1>6 DEF WorkerUntouched, Current

LEMMA EndUntouched ==
  ASSUME IInv, WorkerUntouched,
         StepFails \/ Commit \/ Recover \/ RecoveryLost \/ Finish \/ ProcessExits \/ Crash
  PROVE  WorkerUntouched'
<1>1. CASE StepFails
  <2>1. PICK result \in {"failed", "interrupted"} : Throw(result)
    BY <1>1, FailsParts
  <2>2. worker'.result = result /\ worker'.mode # "run"
    BY <2>1, WorkerTypes DEF Throw
  <2>3. QED
    BY <2>2 DEF WorkerUntouched
<1>2. CASE Commit
  <2>1. worker'.mode = "finish" /\ worker'.result = "succeeded"
    BY <1>2, CommitWrites, WorkerTypes
  <2>2. QED
    BY <2>1 DEF WorkerUntouched
<1>3. CASE Recover \/ RecoveryLost
  <2>1. /\ worker.mode = "recover" /\ worker' = [worker EXCEPT !.mode = "finish"]
        /\ UNCHANGED task
    BY <1>3 DEF Recover, RecoveryLost
  <2>2. worker'.task = worker.task /\ worker'.mode = "finish" /\ worker'.result = worker.result
    BY <2>1, WorkerTypes
  <2>3. Current' = Current
    BY <2>1, <2>2 DEF Current
  <2>4. worker.result = "canceled" => ~Current.touched
    BY <2>1 DEF WorkerUntouched
  <2>5. worker'.result = "canceled" => ~Current'.touched
    BY <2>2, <2>3, <2>4, Zenon
  <2>6. QED
    BY <2>2, <2>5 DEF WorkerUntouched
<1>4. CASE Finish \/ ProcessExits \/ Crash
  <2>1. worker'.mode = "idle"
    BY <1>4, IdleTypes DEF Finish, ProcessExits, Crash, Forget
  <2>2. QED
    BY <2>1 DEF WorkerUntouched
<1>5. QED
  BY <1>1, <1>2, <1>3, <1>4

\* The others leave the worker's row alone, or ask it to cancel while it may.
LEMMA OthersUntouched ==
  ASSUME IInv, WorkerUntouched, UNCHANGED worker, worker.mode # "idle",
         \/ task'[worker.task] = Current
         \/ Current.cancelable /\ task'[worker.task] = AskedRow(Current)
  PROVE  WorkerUntouched'
<1>1. CASE task'[worker.task] = Current
  <2>1. Current' = Current
    BY <1>1 DEF Current
  <2>2. QED
    BY <2>1, Zenon DEF WorkerUntouched
<1>2. CASE Current.cancelable /\ task'[worker.task] = AskedRow(Current)
  <2>1. Current \in Row
    BY Busy
  <2>2. /\ AskedRow(Current).touched = Current.touched
        /\ SameTask(AskedRow(Current), Current)
    BY <2>1, AskedFields, Zenon
  <2>3. Current'.kind = Current.kind /\ Current'.touched = Current.touched
    BY <1>2, <2>2, Zenon DEF SameTask, Current
  <2>4. worker.mode = "run" => worker.step <= FirstSeal[Current.kind]
    BY <1>2, Zenon DEF WorkerUntouched
  <2>5. QED
    BY <2>3, <2>4, Zenon DEF WorkerUntouched
<1>3. QED
  BY <1>1, <1>2

LEMMA CancelUntouched ==
  ASSUME IInv, WorkerUntouched, ConfirmCancel \/ \E t \in TaskIds : CancelRunning(t)
  PROVE  WorkerUntouched'
<1>1. UNCHANGED worker
  BY DEF ConfirmCancel, CancelRunning
<1>2. CASE worker.mode = "idle"
  BY <1>1, <1>2 DEF WorkerUntouched
<1>3. CASE worker.mode # "idle"
  <2>1. worker.task \in TaskIds /\ Current.status = "running"
    BY <1>3, Busy
  <2>2. ASSUME NEW t \in TaskIds, task[t].status = "queued", CancelQueued(t)
        PROVE  WorkerUntouched'
    <3>1. t # worker.task
      BY <2>1, <2>2 DEF Current
    <3>2. task'[worker.task] = Current
      BY <2>1, <2>2, <3>1, CancelQueuedStep DEF Current
    <3>3. QED
      BY <1>1, <1>3, <3>2, OthersUntouched
  <2>3. ASSUME NEW t \in TaskIds, task[t].status = "running", task[t].cancelable, AskCancel(t)
        PROVE  WorkerUntouched'
    <3>1. task'[t] = AskedRow(task[t]) /\ \A s \in TaskIds \ {t} : task'[s] = task[s]
      BY <2>3, AskStep
    <3>2. CASE t = worker.task
      <4>1. Current.cancelable /\ task'[worker.task] = AskedRow(Current)
        BY <2>3, <3>1, <3>2, Zenon DEF Current
      <4>2. QED
        BY <1>1, <1>3, <4>1, OthersUntouched
    <3>3. CASE t # worker.task
      <4>1. task'[worker.task] = Current
        BY <2>1, <3>1, <3>3 DEF Current
      <4>2. QED
        BY <1>1, <1>3, <4>1, OthersUntouched
    <3>4. QED
      BY <3>2, <3>3
  <2>4. CASE UNCHANGED task
    BY <1>1, <1>3, <2>4, OthersUntouched DEF Current
  <2>5. CASE ConfirmCancel
    <3>1. plan.task \in TaskIds
      BY <2>5, PlanWritten DEF ConfirmCancel
    <3>2. \/ task[plan.task].status = "queued" /\ CancelQueued(plan.task)
          \/ task[plan.task].status = "running" /\ task[plan.task].cancelable /\ AskCancel(plan.task)
          \/ UNCHANGED task
      BY <2>5 DEF ConfirmCancel, Is
    <3>3. QED
      BY <2>2, <2>3, <2>4, <3>1, <3>2
  <2>6. CASE \E t \in TaskIds : CancelRunning(t)
    BY <2>3, <2>6 DEF CancelRunning, Is
  <2>7. QED
    BY <2>5, <2>6
<1>4. QED
  BY <1>2, <1>3

\* Nothing runs when a task is queued.
LEMMA EnteringIdle ==
  ASSUME IInv, ~Active
  PROVE  worker.mode = "idle"
<1> SUFFICES ASSUME worker.mode # "idle" PROVE FALSE
  OBVIOUS
<1>1. worker.task \in TaskIds /\ task[worker.task].status = "running"
  BY Busy DEF Current
<1>2. QED
  BY <1>1 DEF Active

LEMMA WorkerUntouchedStep ==
  ASSUME IInv, RowsUntouched, WorkerUntouched, [Next]_vars
  PROVE  WorkerUntouched'
<1>1. ASSUME UNCHANGED worker, UNCHANGED task
      PROVE  WorkerUntouched'
  <2>1. Current' = Current
    BY <1>1 DEF Current
  <2>2. QED
    BY <1>1, <2>1, Zenon DEF WorkerUntouched
<1>2. ASSUME UNCHANGED worker, worker.mode = "idle"
      PROVE  WorkerUntouched'
  BY <1>2 DEF WorkerUntouched
<1>3. CASE Api
  <2>1. CASE CreateInstance
    BY <1>2, <2>1, EnteringIdle DEF CreateInstance, IInv, CreatedFirst, Active, Exists
  <2>2. CASE \E c \in Clients : QueueAction(c)
    BY <1>2, <2>2, EnteringIdle DEF QueueAction
  <2>3. CASE \E t \in TaskIds : Retry(t)
    BY <1>2, <2>3, EnteringIdle DEF Retry
  <2>4. CASE ConfirmCancel \/ \E t \in TaskIds : CancelRunning(t)
    BY <2>4, CancelUntouched
  <2>5. QED
    BY <1>1, <1>3, <2>1, <2>2, <2>3, <2>4 DEF Api, ReadForAction, RejectAction, PrepareCancel
<1>4. CASE Work \/ RecoveryLost
  <2>1. CASE Mark \/ WriteProject \/ RemoveProject \/ Verify
    <3>1. /\ worker.mode = "run" /\ Advance /\ UNCHANGED task
          /\ Program[Current.kind][worker.step] \in {"mark", "write", "verify", "remove"}
      BY <2>1 DEF Mark, WriteProject, RemoveProject, Verify, At
    <3>2. QED
      BY <3>1, QuietAdvance
  <2>2. QED
    BY <1>4, <2>1, ClaimUntouched, LoadUntouched, StageUntouched, StageCanceledUntouched,
       EffectUntouched, EndUntouched DEF Work
<1>5. CASE ProcessExits \/ Crash
  BY <1>5, EndUntouched
<1>6. CASE Restart
  BY <1>2, <1>6, Busy DEF Restart
<1>7. CASE \/ Check \/ PollStopped \/ ContainersFail \/ ContainersBoot \/ ContainersHeal
           \/ Shutdown \/ UNCHANGED vars
  BY <1>1, <1>7
     DEF Check, Observe, ReadRow, Reconcile, CountRestart, AutoStart, AutoStartFails, GiveUp,
         PollStopped, ContainersFail, ContainersBoot, ContainersHeal, Shutdown, vars
<1>8. QED
  BY <1>3, <1>4, <1>5, <1>6, <1>7 DEF Next

\* CanceledUntouched: whatever the order of the cancellation and of the stages
\* of a handler, a task that is reported as canceled ran no command.
THEOREM CanceledTouchedNothing == Spec => []CanceledUntouched
<1>1. Init => RowsUntouched /\ WorkerUntouched
  BY IdleTypes DEF Init, RowsUntouched, WorkerUntouched, NoRow
<1>2. IInv /\ [Next]_vars /\ RowsUntouched /\ WorkerUntouched => RowsUntouched' /\ WorkerUntouched'
  BY RowsUntouchedStep, WorkerUntouchedStep
<1>3. RowsUntouched => CanceledUntouched
  BY DEF RowsUntouched, CanceledUntouched, Is
<1>4. QED
  BY <1>1, <1>2, <1>3, Invariance, PTL DEF Spec

--------------------------------------------------------------------------------
(* Admission *)

\* AdmittedOnly: an action is queued only on a status that admits it, although
\* the status is validated by an earlier step than the one that queues it.
THEOREM ActionsAdmitted == Spec => AdmittedOnly
<1> DEFINE Admitted ==
      \A t \in TaskIds :
        ~Exists(t) /\ task'[t].status = "queued" /\ ~task'[t].retry /\ task'[t].kind # "create"
          => inst.status \in Admits[task'[t].kind]
<1>1. IInv /\ [Next]_vars => Admitted
  <2> SUFFICES ASSUME IInv, [Next]_vars,
                      NEW t \in TaskIds, ~Exists(t), task'[t].status = "queued",
                      ~task'[t].retry, task'[t].kind # "create"
               PROVE  inst.status \in Admits[task'[t].kind]
    OBVIOUS
  <2>1. CASE KeepsRows
    BY <2>1, KeepsRowsKept DEF RowsKept, Exists
  <2>2. ASSUME NEW row, Insert(row)
        PROVE  task'[t] = row
    BY <2>2 DEF Insert, IInv, TypeOK, Exists
  <2>3. CASE CreateInstance
    <3>1. task'[t] = NewRow("create", FALSE, NoState)
      BY <2>2, <2>3 DEF CreateInstance
    <3>2. QED
      BY <3>1 DEF NewRow
  <2>4. CASE \E s \in TaskIds : Retry(s)
    <3>1. PICK s \in TaskIds : task'[t] = NewRow(task[s].kind, TRUE, task[s].prev)
      BY <2>2, <2>4 DEF Retry
    <3>2. NewRow(task[s].kind, TRUE, task[s].prev).retry = TRUE
      BY Zenon DEF NewRow
    <3>3. QED
      BY <3>1, <3>2, Zenon
  <2>5. CASE \E c \in Clients : QueueAction(c)
    <3>1. PICK c \in Clients : QueueAction(c)
      BY <2>5
    <3>2. task'[t] = NewRow(request[c].kind, FALSE, request[c].seen)
      BY <2>2, <3>1 DEF QueueAction
    <3>3. task'[t].kind = request[c].kind
      BY <3>2 DEF NewRow
    <3>4. request[c].seen.status \in Admits[request[c].kind]
      BY <3>1 DEF QueueAction, IInv, RequestValid
    <3>5. inst.status = request[c].seen.status
      BY <3>1 DEF QueueAction
    <3>6. QED
      BY <3>3, <3>4, <3>5
  <2>6. QED
    BY <2>1, <2>3, <2>4, <2>5, TableSteps DEF Inserts
<1>2. IInv /\ [Next]_vars => [Admitted]_vars
  BY <1>1
<1>3. QED
  BY <1>2, Invariance, PTL DEF Spec, AdmittedOnly

--------------------------------------------------------------------------------
(* The tasks of the instance implement the abstract table *)

statusBar == [t \in TaskIds |-> task[t].status]
resourceBar == [t \in TaskIds |-> IF Exists(t) THEN "instance" ELSE "none"]
hostBar == [t \in TaskIds |-> IF Exists(t) THEN "host" ELSE "none"]

LEMMA InitMaps ==
  ASSUME Init
  PROVE  Table!TableInit
<1>1. \A t \in TaskIds : task[t].status = "absent"
  BY DEF Init, NoRow
<1>2. /\ statusBar \in [TaskIds -> {"absent", "queued", "running"} \cup Ended]
      /\ resourceBar \in [TaskIds -> {"instance"} \cup {"none"}]
      /\ hostBar \in [TaskIds -> {"host"} \cup {"none"}]
      /\ \A t \in TaskIds : statusBar[t] = "absent"
  BY <1>1 DEF statusBar, resourceBar, hostBar
<1>3. QED
  BY <1>2 DEF Table!TableInit, Table!Ended, Ended, statusBar, resourceBar, hostBar

\* Steps that keep the rows keep what they act on.
LEMMA ColumnsKept ==
  ASSUME RowsKept
  PROVE  UNCHANGED <<resourceBar, hostBar>>
BY DEF RowsKept, resourceBar, hostBar, Exists

LEMMA EntersMaps ==
  ASSUME IInv, NEW t \in TaskIds, Enters(t)
  PROVE  Table!Enter(t, "instance", "host")
<1>1. PICK row \in Row : row.status = "queued" /\ task' = [task EXCEPT ![t] = row]
  BY DEF Enters
<1>2. ~Exists(t) /\ task'[t].status = "queued" /\ \A s \in TaskIds \ {t} : task'[s] = task[s]
  BY <1>1 DEF Enters, IInv, TypeOK
<1>3. statusBar[t] = "absent"
  BY <1>2 DEF statusBar, Exists
<1>4. ~\E s \in TaskIds : resourceBar[s] = "instance" /\ statusBar[s] \in {"queued", "running"}
  BY DEF Enters, Active, statusBar
<1>5. statusBar' = [statusBar EXCEPT ![t] = "queued"]
  BY <1>2 DEF statusBar
<1>6. resourceBar' = [resourceBar EXCEPT ![t] = "instance"]
  BY <1>2 DEF resourceBar, Exists
<1>7. hostBar' = [hostBar EXCEPT ![t] = "host"]
  BY <1>2 DEF hostBar, Exists
<1>8. QED
  BY <1>3, <1>4, <1>5, <1>6, <1>7
     DEF Table!Enter, Table!ActiveOn, statusBar, resourceBar, hostBar

LEMMA MovesMaps ==
  ASSUME NEW t \in TaskIds, NEW s, Moves(t, s)
  PROVE  /\ statusBar' = [statusBar EXCEPT ![t] = s]
         /\ UNCHANGED <<resourceBar, hostBar>>
BY ColumnsKept DEF Moves, statusBar

\* No other task runs on the host when one begins.
LEMMA BeginMaps ==
  ASSUME IInv, NEW t \in TaskIds, Is(t, "queued"), Moves(t, "running")
  PROVE  Table!Begin(t)
<1>1. statusBar[t] = "queued"
  BY DEF Is, statusBar
<1>2. ~\E s \in TaskIds : hostBar[s] = hostBar[t] /\ statusBar[s] = "running"
  BY DEF IInv, OneActive, Pending, Is, statusBar
<1>3. QED
  BY <1>1, <1>2, MovesMaps
     DEF Table!Begin, Table!BusyHost, statusBar, resourceBar, hostBar

LEMMA WithdrawMaps ==
  ASSUME NEW t \in TaskIds, Is(t, "queued"), Moves(t, "canceled")
  PROVE  Table!Withdraw(t)
<1>1. statusBar[t] = "queued"
  BY DEF Is, statusBar
<1>2. QED
  BY <1>1, MovesMaps DEF Table!Withdraw, statusBar, resourceBar, hostBar

LEMMA EndMaps ==
  ASSUME NEW t \in TaskIds, NEW outcome \in Ended, Is(t, "running"), Moves(t, outcome)
  PROVE  Table!End(t, outcome)
<1>1. statusBar[t] = "running"
  BY DEF Is, statusBar
<1>2. QED
  BY <1>1, MovesMaps DEF Table!End, statusBar, resourceBar, hostBar

LEMMA InterruptMaps ==
  ASSUME Interrupts
  PROVE  Table!InterruptAll
<1>1. statusBar' = [t \in TaskIds |-> IF statusBar[t] = "running" THEN "interrupted"
                                                                  ELSE statusBar[t]]
  BY DEF Interrupts, statusBar
<1>2. QED
  BY <1>1, ColumnsKept DEF Interrupts, Table!InterruptAll, statusBar, resourceBar, hostBar

\* ImplementsTable: the tasks of one instance are a queue in which at most one
\* task of the instance waits or runs, and each begins and ends once.
THEOREM Implementation == Spec => ImplementsTable
<1>1. Init => Table!TableInit
  BY InitMaps
<1>2. IInv /\ [Next]_vars => [Table!TableNext]_(Table!tableVars)
  <2> SUFFICES ASSUME IInv, [Next]_vars
               PROVE  Table!TableNext \/ UNCHANGED <<statusBar, resourceBar, hostBar>>
    BY DEF Table!tableVars, statusBar, resourceBar, hostBar
  <2>1. CASE Still
    BY <2>1, ColumnsKept DEF Still, statusBar
  <2>2. CASE Inserts
    BY <2>2, InsertsEnter, EntersMaps DEF Table!TableNext
  <2>3. CASE \E t \in TaskIds : Is(t, "queued") /\ (Moves(t, "running") \/ Moves(t, "canceled"))
    BY <2>3, BeginMaps, WithdrawMaps DEF Table!TableNext
  <2>4. CASE \E t \in TaskIds, outcome \in Ended : Is(t, "running") /\ Moves(t, outcome)
    BY <2>4, EndMaps DEF Table!TableNext, Table!Ended, Ended
  <2>5. CASE Interrupts
    BY <2>5, InterruptMaps DEF Table!TableNext
  <2>6. QED
    BY <2>1, <2>2, <2>3, <2>4, <2>5, TableSteps DEF KeepsRows
<1>3. QED
  BY <1>1, <1>2, Invariance, PTL DEF Spec, ImplementsTable, Table!TableSpec

--------------------------------------------------------------------------------
(* Cancellation and deletion beside the monitor, which reads the row and    *)
(* acts on it in two steps with no lock in between: its check may begin      *)
(* before a task is queued and write while the task waits or runs.           *)

\* Every action carries the stable state it was asked in; a queued task shows
\* its operation until a verdict of the monitor overwrites it; and the recovery
\* prepared for a queued action is the state before it, or such a verdict.
PrevStable ==
  \A t \in TaskIds : Exists(t) /\ task[t].kind # "create" =>
    task[t].prev.status \in Stable /\ task[t].prev.desired # ""

Shown(t) == inst.status = OpStatus[task[t].kind]

WaitingShown ==
  \A t \in TaskIds : Is(t, "queued") /\ ~task[t].retry => Shown(t) \/ StateOf(inst) \in Verdicts

RestoresTo(t, st) ==
  IF task[t].kind = "create" THEN st.status = "failed"
  ELSE st = task[t].prev \/ (st \in Verdicts /\ ~Shown(t))

PlanRestores ==
  plan # NoPlan /\ Is(plan.task, "queued") /\ ~plan.preserve => RestoresTo(plan.task, plan.state)

\* The monitor decides with the desired state of a row.
SeenDesired == poll.mode \in {"read", "restart", "start", "giveUp"} => poll.seen.desired \in Desires

LEMMA VerdictFields ==
  ASSUME NEW st \in Verdicts
  PROVE  st \in States /\ st.status \in Stable /\ st.status \notin Operating /\ st.desired # ""
<1>1. PICK d \in {"running", "stopped", "deleted"}, b \in Boxes : st = State(Decide(d, b), d)
  BY DEF Verdicts
<1>2. Decide(d, b) \in {"running", "stopped", "degraded"}
  BY DEF Decide
<1>3. st.status = Decide(d, b) /\ st.desired = d
  BY <1>1 DEF State
<1>4. st \in States
  BY <1>1, <1>2 DEF State, States, Stable
<1>5. QED
  BY <1>2, <1>3, <1>4 DEF Stable, Operating

LEMMA VerdictsOf ==
  ASSUME NEW d \in Desires, NEW b \in Boxes
  PROVE  State(Decide(d, b), d) \in Verdicts
<1>1. d \in {"running", "stopped", "deleted"}
  BY DEF Desires
<1> DEFINE v(e, c) == State(Decide(e, c), e)
<1>2. Verdicts = {v(e, c) : e \in {"running", "stopped", "deleted"}, c \in Boxes}
  BY DEF Verdicts
<1> HIDE DEF v
<1>3. v(d, b) \in Verdicts
  BY <1>1, <1>2
<1>4. QED
  BY <1>3 DEF v

LEMMA WithStatePair ==
  ASSUME NEW i, NEW st, st.desired # ""
  PROVE  StateOf(WithState(i, st)) = State(st.status, st.desired)
BY DEF WithState, StateOf, State

\* Whatever the monitor writes to the status is a verdict.
LEMMA MonitorWritesVerdict ==
  ASSUME IInv, SeenDesired, Reconcile \/ GiveUp
  PROVE  StateOf(inst') \in Verdicts
<1> DEFINE d == poll.seen.desired
<1>1. d \in Desires /\ d # ""
  BY DEF SeenDesired, Desires, Reconcile, GiveUp
<1>2. CASE Reconcile
  <2>1. inst' = WithState(inst, State(Decide(d, poll.box), d))
    BY <1>2 DEF Reconcile, UpdateState
  <2>2. StateOf(inst') = State(Decide(d, poll.box), d)
    BY <1>1, <2>1 DEF WithState, StateOf, State
  <2>3. poll.box \in Boxes
    BY PollTyped
  <2>4. QED
    BY <1>1, <2>2, <2>3, VerdictsOf
<1>3. CASE GiveUp
  <2>1. inst' = WithState(inst, State("degraded", d))
    BY <1>3 DEF GiveUp, UpdateState
  <2>2. StateOf(inst') = State("degraded", d)
    BY <1>1, <2>1 DEF WithState, StateOf, State
  <2>3. Decide(d, IF d = "stopped" THEN "running" ELSE "none") = "degraded"
    BY DEF Decide
  <2>4. (IF d = "stopped" THEN "running" ELSE "none") \in Boxes
    BY DEF Boxes, Alive
  <2>5. QED
    <3>1. State(Decide(d, IF d = "stopped" THEN "running" ELSE "none"), d) \in Verdicts
      BY <1>1, <2>4, VerdictsOf
    <3>2. QED
      BY <2>2, <2>3, <3>1
<1>4. QED
  BY <1>2, <1>3

LEMMA SeenDesiredStep ==
  ASSUME IInv, SeenDesired, [Next]_vars
  PROVE  SeenDesired'
<1>1. CASE UNCHANGED poll \/ poll' = NoPoll
  BY <1>1 DEF SeenDesired, NoPoll
<1>2. CASE Observe
  <2>1. poll'.mode = "observed"
    BY <1>2 DEF Observe, NoPoll
  <2>2. QED
    BY <2>1 DEF SeenDesired
<1>3. CASE ReadRow /\ poll' # NoPoll
  <2>1. poll' = [poll EXCEPT !.mode = "read", !.seen = StateOf(inst), !.failures = inst.failures]
    BY <1>3 DEF ReadRow
  <2>2. poll'.seen.desired = inst.desired
    BY <2>1, PollTyped DEF StateOf, State
  <2>3. QED
    BY <2>2, InstTyped DEF SeenDesired, InstRow
<1>4. CASE (Reconcile \/ CountRestart \/ AutoStart \/ AutoStartFails \/ GiveUp) /\ poll' # NoPoll
  <2>1. /\ poll.mode \in {"read", "restart", "start"}
        /\ poll'.seen = poll.seen
    BY <1>4, PollTyped DEF Reconcile, CountRestart, AutoStart, AutoStartFails, GiveUp
  <2>2. QED
    BY <2>1 DEF SeenDesired
<1>5. QED
  BY <1>1, <1>2, <1>3, <1>4, PollSteps DEF Check

\* The row an insert adds, and the rows that were there.
LEMMA Inserted ==
  ASSUME IInv, Inserts, NEW t \in TaskIds
  PROVE  \/ Exists(t) /\ task[t].status \notin Pending /\ task'[t] = task[t]
         \/ ~Exists(t) /\ task'[t] = task[t]
         \/ CreateInstance /\ task'[t] = NewRow("create", FALSE, NoState)
         \/ \E c \in Clients : /\ QueueAction(c)
                               /\ task'[t] = NewRow(request[c].kind, FALSE, request[c].seen)
         \/ \E s \in TaskIds : /\ Retry(s) /\ Exists(s)
                               /\ task'[t] = NewRow(task[s].kind, TRUE, task[s].prev)
<1>1. ASSUME NEW row, Insert(row)
      PROVE  task'[t] = row \/ task'[t] = task[t]
  BY <1>1 DEF Insert, IInv, TypeOK
<1>2. Exists(t) => task[t].status \notin Pending /\ task'[t] = task[t]
  <2>1. PICK s \in TaskIds : Enters(s)
    BY InsertsEnter
  <2>2. QED
    BY <2>1 DEF Enters, Active, Pending, IInv, TypeOK
<1>3. CASE CreateInstance
  BY <1>1, <1>2, <1>3 DEF CreateInstance
<1>4. CASE \E c \in Clients : QueueAction(c)
  BY <1>1, <1>2, <1>4 DEF QueueAction
<1>5. CASE \E s \in TaskIds : Retry(s)
  BY <1>1, <1>2, <1>5 DEF Retry, Retryable, Exists
<1>6. QED
  BY <1>3, <1>4, <1>5 DEF Inserts

LEMMA PrevStableStep ==
  ASSUME IInv, PrevStable, [Next]_vars
  PROVE  PrevStable'
<1> SUFFICES ASSUME NEW t \in TaskIds, task'[t].status # "absent", task'[t].kind # "create"
             PROVE  task'[t].prev.status \in Stable /\ task'[t].prev.desired # ""
  BY DEF PrevStable, Exists
<1>1. CASE KeepsRows
  <2>1. /\ Exists(t) /\ task'[t].kind = task[t].kind /\ task'[t].prev = task[t].prev
    BY <1>1, KeepsRowsKept DEF RowsKept, Exists
  <2>2. QED
    BY <2>1 DEF PrevStable
<1>2. CASE task'[t] = task[t]
  BY <1>2 DEF PrevStable, Exists
<1>3. CASE task'[t] = NewRow("create", FALSE, NoState)
  <2>1. task'[t].kind = "create"
    BY <1>3 DEF NewRow
  <2>2. QED
    BY <2>1
<1>4. CASE \E c \in Clients : /\ QueueAction(c)
                              /\ task'[t] = NewRow(request[c].kind, FALSE, request[c].seen)
  <2>1. PICK c \in Clients : /\ QueueAction(c)
                             /\ task'[t] = NewRow(request[c].kind, FALSE, request[c].seen)
    BY <1>4
  <2>2. /\ request[c].kind \in Actions /\ request[c].seen.status \in Admits[request[c].kind]
        /\ request[c].seen.desired # ""
    BY <2>1 DEF QueueAction, IInv, RequestValid
  <2>3. request[c].seen.status \in Stable
    BY <2>2, ActionKinds
  <2>4. task'[t].prev = request[c].seen
    BY <2>1 DEF NewRow
  <2>5. QED
    BY <2>2, <2>3, <2>4
<1>5. CASE \E s \in TaskIds : /\ Retry(s) /\ Exists(s)
                              /\ task'[t] = NewRow(task[s].kind, TRUE, task[s].prev)
  <2>1. PICK s \in TaskIds :
          Exists(s) /\ task'[t] = NewRow(task[s].kind, TRUE, task[s].prev)
    BY <1>5
  <2>2. task'[t].kind = task[s].kind /\ task'[t].prev = task[s].prev
    BY <2>1 DEF NewRow
  <2>3. QED
    BY <2>1, <2>2 DEF PrevStable
<1>6. QED
  BY <1>1, <1>2, <1>3, <1>4, <1>5, Inserted, TableSteps

\* A task waits only because it was queued; so it waited before, or is new.
LEMMA WaitedBefore ==
  ASSUME IInv, KeepsRows, NEW t \in TaskIds, task'[t].status = "queued"
  PROVE  /\ task[t].status = "queued"
         /\ task'[t].kind = task[t].kind /\ task'[t].retry = task[t].retry
         /\ task'[t].prev = task[t].prev
<1>1. task[t].status = "queued"
  BY DEF KeepsRows, Still, Moves, Interrupts, Ended
<1>2. QED
  BY <1>1, KeepsRowsKept DEF RowsKept, Exists

\* While a task waits, only its cancellation and the monitor write the row.
LEMMA WaitingKeepsState ==
  ASSUME IInv, SeenDesired, KeepsRows, [Next]_vars,
         NEW t \in TaskIds, task[t].status = "queued", task'[t].status = "queued"
  PROVE  \/ inst'.status = inst.status /\ inst'.desired = inst.desired
         \/ StateOf(inst') \in Verdicts
<1>1. worker.mode = "idle"
  <2> SUFFICES ASSUME worker.mode # "idle" PROVE FALSE
    OBVIOUS
  <2>1. worker.task \in TaskIds /\ task[worker.task].status = "running"
    BY Busy DEF Current
  <2>2. QED
    BY <2>1 DEF IInv, OneActive, Pending
<1>2. Active
  BY DEF Active
<1>3. CASE UNCHANGED inst \/ UNCHANGED vars
  BY <1>3 DEF vars
<1>4. CASE CreateInstance \/ \E c \in Clients : QueueAction(c)
  BY <1>2, <1>4 DEF CreateInstance, QueueAction, IInv, CreatedFirst, Exists
<1>5. CASE ConfirmCancel
  <2>1. plan # NoPlan /\ plan.task \in TaskIds
    BY <1>5, PlanWritten DEF ConfirmCancel
  <2>2. CASE UNCHANGED inst
    BY <2>2
  <2>3. CASE task[plan.task].status = "queued" /\ CancelQueued(plan.task)
    <3>1. plan.task = t
      BY <2>1, <2>3 DEF IInv, OneActive, Pending
    <3>2. task'[t].status = "canceled"
      <4>1. task'[t] = CanceledRow(task[t]) /\ task[t] \in Row
        BY <2>3, <3>1, CancelQueuedStep, ExistingRow DEF Exists
      <4>2. QED
        BY <4>1, CanceledFields
    <3>3. QED
      BY <3>2
  <2>4. QED
    BY <1>5, <2>2, <2>3 DEF ConfirmCancel, Is
<1>6. CASE Mark \/ Commit \/ Recover
  BY <1>1, <1>6, MarkWrites, CommitWrites, RecoverWrites
<1>7. CASE CountRestart
  BY <1>7, InstTyped DEF CountRestart, InstRow
<1>8. CASE Observe \/ ReadRow \/ AutoStart \/ AutoStartFails \/ PollStopped
  BY <1>8 DEF Observe, ReadRow, AutoStart, AutoStartFails, PollStopped
<1>9. CASE Reconcile \/ GiveUp
  BY <1>9, MonitorWritesVerdict
<1>10. QED
  BY <1>3, <1>4, <1>5, <1>6, <1>7, <1>8, <1>9, InstWriters DEF Check

LEMMA WaitingShownStep ==
  ASSUME IInv, SeenDesired, WaitingShown, [Next]_vars
  PROVE  WaitingShown'
<1> SUFFICES ASSUME NEW t \in TaskIds, task'[t].status = "queued", ~task'[t].retry
             PROVE  inst'.status = OpStatus[task'[t].kind] \/ StateOf(inst') \in Verdicts
  <2>1. StateOf(inst)' = StateOf(inst')
    BY DEF StateOf
  <2>2. QED
    BY <2>1 DEF WaitingShown, Shown, Is
<1>1. CASE KeepsRows
  <2>1. /\ task[t].status = "queued" /\ task'[t].kind = task[t].kind
        /\ task'[t].retry = task[t].retry
    BY <1>1, WaitedBefore
  <2>2. ~task[t].retry
    BY <2>1, Zenon
  <2>3. inst.status = OpStatus[task[t].kind] \/ StateOf(inst) \in Verdicts
    BY <2>1, <2>2, Zenon DEF WaitingShown, Shown, Is
  <2>4. \/ inst'.status = inst.status /\ inst'.desired = inst.desired
        \/ StateOf(inst') \in Verdicts
    BY <1>1, <2>1, WaitingKeepsState
  <2>5. inst'.status = inst.status /\ inst'.desired = inst.desired => StateOf(inst') = StateOf(inst)
    BY DEF StateOf
  <2>6. QED
    BY <2>1, <2>3, <2>4, <2>5
<1>2. CASE Exists(t) /\ task[t].status \notin Pending /\ task'[t] = task[t]
  BY <1>2 DEF Pending
<1>3. CASE ~Exists(t) /\ task'[t] = task[t]
  BY <1>3 DEF Exists
<1>4. CASE CreateInstance /\ task'[t] = NewRow("create", FALSE, NoState)
  <2>1. inst'.status = OpStatus["create"]
    BY <1>4, CreateEnters
  <2>2. task'[t].kind = "create"
    BY <1>4 DEF NewRow
  <2>3. QED
    BY <2>1, <2>2
<1>5. CASE \E c \in Clients : /\ QueueAction(c)
                              /\ task'[t] = NewRow(request[c].kind, FALSE, request[c].seen)
  <2>1. PICK c \in Clients : /\ QueueAction(c)
                             /\ task'[t] = NewRow(request[c].kind, FALSE, request[c].seen)
    BY <1>5
  <2>2. inst'.status = OpStatus[request[c].kind]
    BY <2>1, QueueEnters
  <2>3. task'[t].kind = request[c].kind
    BY <2>1 DEF NewRow
  <2>4. QED
    BY <2>2, <2>3
<1>6. CASE \E s \in TaskIds : /\ Retry(s) /\ Exists(s)
                              /\ task'[t] = NewRow(task[s].kind, TRUE, task[s].prev)
  <2>1. PICK s \in TaskIds : task'[t] = NewRow(task[s].kind, TRUE, task[s].prev)
    BY <1>6
  <2>2. NewRow(task[s].kind, TRUE, task[s].prev).retry = TRUE
    BY Zenon DEF NewRow
  <2>3. QED
    BY <2>1, <2>2, Zenon
<1>7. QED
  BY <1>1, <1>2, <1>3, <1>4, <1>5, <1>6, Inserted, TableSteps

LEMMA PlanSteps ==
  ASSUME [Next]_vars
  PROVE  (\E t \in TaskIds : PrepareCancel(t)) \/ UNCHANGED plan \/ plan' = NoPlan
<1>1. CASE Api
  BY <1>1 DEF Api, CreateInstance, ReadForAction, QueueAction, RejectAction, Retry,
              ConfirmCancel, CancelRunning
<1>2. CASE Work \/ RecoveryLost
  BY <1>2 DEF Work, RecoveryLost, Claim, Load, Mark, Stage, StageCanceled, RunEffect, WriteProject,
              RemoveProject, Verify, Commit, StepFails, Recover, Finish
<1>3. CASE \/ Check \/ PollStopped \/ ContainersFail \/ ContainersBoot \/ ContainersHeal
           \/ Shutdown \/ ProcessExits \/ Crash \/ Restart \/ UNCHANGED vars
  BY <1>3 DEF Check, Observe, ReadRow, Reconcile, CountRestart, AutoStart, AutoStartFails, GiveUp,
              PollStopped, ContainersFail, ContainersBoot, ContainersHeal, Shutdown, ProcessExits,
              Crash, Restart, Forget, vars
<1>4. QED
  BY <1>1, <1>2, <1>3 DEF Next

\* The recovery of a queued action is prepared as the state in its payload while
\* the row shows its operation, and else as the verdict that the row shows.
LEMMA PreparedRestores ==
  ASSUME IInv, PrevStable, WaitingShown, NEW t \in TaskIds, PrepareCancel(t), ~task[t].retry
  PROVE  plan'.task = t /\ RestoresTo(t, plan'.state)
<1> DEFINE st == QueuedRecovery(task[t], inst)
<1>1. /\ task[t].status = "queued"
      /\ plan' = [task |-> t, preserve |-> task[t].retry, state |-> st]
  BY DEF PrepareCancel, Is
<1>2. Exists(t) /\ task[t] \in Row
  BY <1>1, ExistingRow DEF Exists
<1>3. task[t].kind \in Kinds
  BY <1>2 DEF Row
<1>4. CASE task[t].kind = "create"
  <2>1. st.status = "failed"
    BY <1>4 DEF QueuedRecovery, State
  <2>2. QED
    BY <1>1, <1>4, <2>1, Zenon DEF RestoresTo
<1>5. CASE task[t].kind # "create" /\ Shown(t)
  <2>1. inst.status \notin Stable
    BY <1>3, <1>5, OpStatuses DEF Shown, Operating, Stable
  <2>2. task[t].prev.status # "" /\ task[t].prev.desired # ""
    BY <1>2, <1>5 DEF PrevStable, Stable
  <2>3. CurrentOrPrevious(task[t], inst) = task[t].prev
    BY <1>2, <2>1, <2>2, InstTyped, PreviousStable
  <2>4. st = task[t].prev
    BY <1>5, <2>3 DEF QueuedRecovery
  <2>5. QED
    BY <1>1, <1>5, <2>4, Zenon DEF RestoresTo
<1>6. CASE task[t].kind # "create" /\ ~Shown(t)
  <2>1. StateOf(inst) \in Verdicts
    BY <1>1, <1>6, Zenon DEF WaitingShown, Is
  <2>2. inst.status = StateOf(inst).status
    BY DEF StateOf, State
  <2>3. inst.status \in Stable
    BY <2>1, <2>2, VerdictFields
  <2>4. st = StateOf(inst)
    BY <1>6, <2>3 DEF QueuedRecovery, CurrentOrPrevious
  <2>5. QED
    BY <1>1, <1>6, <2>1, <2>4, Zenon DEF RestoresTo
<1>7. QED
  BY <1>4, <1>5, <1>6

LEMMA PlanRestoresStep ==
  ASSUME IInv, SeenDesired, PrevStable, WaitingShown, PlanRestores, [Next]_vars
  PROVE  PlanRestores'
<1>1. CASE \E t \in TaskIds : PrepareCancel(t)
  <2>1. PICK t \in TaskIds : PrepareCancel(t)
    BY <1>1
  <2>2. plan'.preserve = task[t].retry /\ UNCHANGED <<task, inst>>
    BY <2>1, Zenon DEF PrepareCancel
  <2>3. ~plan'.preserve => RestoresTo(plan'.task, plan'.state)
    BY <2>1, <2>2, PreparedRestores, Zenon
  <2>4. QED
    BY <2>2, <2>3, Zenon DEF PlanRestores, RestoresTo, Shown
<1>2. CASE plan' = NoPlan
  BY <1>2 DEF PlanRestores
<1>3. CASE UNCHANGED plan
  <2> SUFFICES ASSUME plan # NoPlan, task'[plan.task].status = "queued", ~plan.preserve
               PROVE  RestoresTo(plan.task, plan.state)'
    BY <1>3, Zenon DEF PlanRestores, Is
  <2>1. plan.task \in TaskIds /\ Exists(plan.task)
    BY DEF IInv, PlanValid
  <2>2. KeepsRows
    <3> SUFFICES ASSUME Inserts PROVE FALSE
      BY TableSteps
    <3>1. PICK s \in TaskIds : Enters(s)
      BY InsertsEnter
    <3>2. task'[plan.task] = task[plan.task] /\ ~Active
      BY <2>1, <3>1 DEF Enters, IInv, TypeOK
    <3>3. QED
      BY <2>1, <3>2 DEF Active
  <2>3. /\ task[plan.task].status = "queued"
        /\ task'[plan.task].kind = task[plan.task].kind
        /\ task'[plan.task].prev = task[plan.task].prev
    BY <2>1, <2>2, WaitedBefore
  <2>4. RestoresTo(plan.task, plan.state)
    BY <2>3, Zenon DEF PlanRestores, Is
  <2>5. ~Shown(plan.task) => inst'.status # OpStatus[task[plan.task].kind]
    <3>1. CASE inst'.status = inst.status
      BY <3>1 DEF Shown
    <3>2. CASE StateOf(inst') \in Verdicts
      <4>1. inst'.status = StateOf(inst').status
        BY DEF StateOf, State
      <4>2. inst'.status \notin Operating
        BY <3>2, <4>1, VerdictFields
      <4>3. task[plan.task].kind \in Kinds
        BY <2>1, ExistingRow DEF Row, Exists
      <4>4. QED
        BY <4>2, <4>3, OpStatuses
    <3>3. QED
      BY <2>1, <2>2, <2>3, <3>1, <3>2, WaitingKeepsState
  <2>6. QED
    BY <1>3, <2>3, <2>4, <2>5, Zenon DEF RestoresTo, Shown
<1>4. QED
  BY <1>1, <1>2, <1>3, PlanSteps

\* A waiting task is canceled by the confirmation of its own cancellation only.
LEMMA QueuedStays ==
  ASSUME IInv, [Next]_vars, ~ConfirmCancel, NEW t \in TaskIds, task[t].status = "queued"
  PROVE  task'[t].status \in {"queued", "running"}
<1>1. CASE Still
  BY <1>1 DEF Still
<1>2. CASE Inserts
  <2>1. ~Active
    BY <1>2, InsertsEnter DEF Enters
  <2>2. QED
    BY <2>1 DEF Active
<1>3. CASE Interrupts
  BY <1>3 DEF Interrupts
<1>4. CASE Work \/ RecoveryLost
  <2>1. CASE \E s \in TaskIds : Claim(s)
    BY <2>1, ClaimRows DEF Moves
  <2>2. CASE Finish
    BY <2>2, FinishMoves DEF Moves, Is
  <2>3. QED
    BY <1>1, <1>4, <2>1, <2>2, WithinStill DEF Work
<1>5. CASE Api
  <2>1. CASE \E s \in TaskIds : CancelRunning(s)
    BY <2>1, AskStep DEF CancelRunning, Is
  <2>2. QED
    BY <1>1, <1>2, <1>5, <2>1, SameTableStill
       DEF Api, Inserts, ReadForAction, RejectAction, PrepareCancel
<1>6. CASE \/ Check \/ PollStopped \/ ContainersFail \/ ContainersBoot \/ ContainersHeal
           \/ Shutdown \/ UNCHANGED vars
  BY <1>1, <1>6, SameTableStill
     DEF Check, Observe, ReadRow, Reconcile, CountRestart, AutoStart, AutoStartFails, GiveUp,
         PollStopped, ContainersFail, ContainersBoot, ContainersHeal, Shutdown, vars
<1>7. CASE ProcessExits \/ Crash \/ Restart
  BY <1>1, <1>3, <1>7, WithinStill, RestartInterrupts
<1>8. QED
  BY <1>4, <1>5, <1>6, <1>7 DEF Next

\* The confirmation writes the recovery that was prepared.
LEMMA RestoreStep ==
  ASSUME IInv, PrevStable, PlanRestores, [Next]_vars,
         NEW t \in TaskIds, task[t].status = "queued", task'[t].status = "canceled", ~task[t].retry
  PROVE  IF task[t].kind = "create" THEN inst'.status = "failed"
         ELSE /\ StateOf(inst') \in {task[t].prev} \cup Verdicts
              /\ Shown(t) => StateOf(inst') = task[t].prev
<1>1. ConfirmCancel
  BY QueuedStays
<1>2. plan # NoPlan /\ plan.task \in TaskIds /\ plan.state \in States
  BY <1>1, PlanWritten DEF ConfirmCancel, IInv, TypeOK
<1>3. /\ plan.task = t
      /\ inst' = IF plan.preserve THEN inst ELSE WithState(inst, plan.state)
  <2>1. ~UNCHANGED task
    OBVIOUS
  <2>2. ~(task[plan.task].status = "running" /\ AskCancel(plan.task))
    BY <1>2, AskStep
  <2>3. /\ task[plan.task].status = "queued"
        /\ inst' = IF plan.preserve THEN inst ELSE WithState(inst, plan.state)
    BY <1>1, <2>1, <2>2 DEF ConfirmCancel, Is
  <2>4. QED
    BY <1>2, <2>3 DEF IInv, OneActive, Pending
<1>4. ~plan.preserve
  BY <1>2, <1>3, Zenon DEF IInv, PlanValid
<1>5. inst' = WithState(inst, plan.state)
  BY <1>3, <1>4, Zenon
<1>6. RestoresTo(t, plan.state)
  BY <1>2, <1>3, <1>4, Zenon DEF PlanRestores, Is
<1>7. CASE task[t].kind = "create"
  BY <1>5, <1>6, <1>7 DEF RestoresTo, WithState
<1>8. CASE task[t].kind # "create"
  <2>1. plan.state = task[t].prev \/ (plan.state \in Verdicts /\ ~Shown(t))
    BY <1>6, <1>8 DEF RestoresTo
  <2>2. task[t].prev.desired # ""
    BY <1>8 DEF PrevStable, Exists
  <2>3. plan.state.desired # ""
    BY <2>1, <2>2, VerdictFields
  <2>4. StateOf(inst') = State(plan.state.status, plan.state.desired)
    BY <1>5, <2>3, WithStatePair
  <2>5. StateOf(inst') = plan.state
    BY <1>2, <2>4, StatePair
  <2>6. QED
    BY <1>8, <2>1, <2>5
<1>9. QED
  BY <1>7, <1>8

\* CancelRestores: canceling a queued action gives the database the state it
\* had when the action was queued, or leaves it a verdict of the monitor that
\* overwrote the action's status meanwhile.
THEOREM CancellationRestores == Spec => CancelRestores
<1> DEFINE Restores == SeenDesired /\ PrevStable /\ WaitingShown /\ PlanRestores
           Restored ==
             \A t \in TaskIds : BecomesCanceled(t) /\ ~task[t].retry =>
               IF task[t].kind = "create" THEN inst'.status = "failed"
               ELSE /\ StateOf(inst') \in {task[t].prev} \cup Verdicts
                    /\ inst.status = OpStatus[task[t].kind] => StateOf(inst') = task[t].prev
<1>1. Init => Restores
  <2> SUFFICES ASSUME Init PROVE Restores
    OBVIOUS
  <2>1. \A t \in TaskIds : task[t].status = "absent"
    BY DEF Init, NoRow
  <2>2. PrevStable
    BY <2>1 DEF PrevStable, Exists
  <2>3. WaitingShown
    BY <2>1 DEF WaitingShown, Is
  <2>4. PlanRestores /\ SeenDesired
    BY DEF Init, PlanRestores, SeenDesired, NoPoll
  <2>5. QED
    BY <2>2, <2>3, <2>4
<1>2. IInv /\ Restores /\ [Next]_vars => Restores'
  BY SeenDesiredStep, PrevStableStep, WaitingShownStep, PlanRestoresStep
<1>3. IInv /\ Restores /\ [Next]_vars => [Restored]_vars
  BY RestoreStep DEF BecomesCanceled, Is, Shown
<1>4. QED
  BY <1>1, <1>2, <1>3, Invariance, PTL DEF Spec, CancelRestores

\* The directory is gone once the "remove" of a deletion has succeeded.
Removing == worker.mode = "run" /\ Current.kind = "delete" /\ worker.step > 6 => ~files

\* The steps of a deletion, by their names.
LEMMA DeleteProgram ==
  ASSUME NEW s \in 1..Len(Program["delete"])
  PROVE  /\ s \in 1..7
         /\ Program["delete"][s] = "load" <=> s = 1
         /\ Program["delete"][s] = "down" <=> s = 4
         /\ Program["delete"][s] = "remove" <=> s = 6
         /\ Program["delete"][s] = "commit" <=> s = 7
         /\ Program["delete"][s] \notin {"write", "up", "start", "stop", "restart"}
BY DEF Program

LEMMA RowKindKept ==
  ASSUME IInv, [Next]_vars, NEW t \in TaskIds, Exists(t)
  PROVE  task'[t].kind = task[t].kind
<1>1. CASE KeepsRows
  BY <1>1, KeepsRowsKept DEF RowsKept
<1>2. CASE Inserts
  <2>1. PICK s \in TaskIds : Enters(s)
    BY <1>2, InsertsEnter
  <2>2. task'[t] = task[t]
    BY <2>1 DEF Enters, IInv, TypeOK
  <2>3. QED
    BY <2>2
<1>3. QED
  BY <1>1, <1>2, TableSteps

\* What the other parties do while a handler runs: the directory is left alone,
\* and only the monitor brings containers back that are gone.
LEMMA HostWhileRunning ==
  ASSUME IInv, worker.mode = "run", [Next]_vars, ~Work, ~RecoveryLost, worker'.mode = "run"
  PROVE  /\ UNCHANGED <<worker, files>>
         /\ AutoStart \/ AutoStartFails \/ (box = "none" => box' = "none")
<1>1. CASE Api
  BY <1>1 DEF Api, CreateInstance, ReadForAction, QueueAction, RejectAction, Retry, PrepareCancel,
              ConfirmCancel, CancelRunning, Remote
<1>2. CASE UNCHANGED vars
  BY <1>2 DEF vars
<1>3. CASE Observe \/ ReadRow \/ Reconcile \/ CountRestart \/ GiveUp \/ PollStopped
  BY <1>3 DEF Observe, ReadRow, Reconcile, CountRestart, GiveUp, PollStopped, Remote
<1>4. CASE AutoStart \/ AutoStartFails
  BY <1>4 DEF AutoStart, AutoStartFails
<1>5. CASE ContainersFail \/ ContainersBoot \/ ContainersHeal \/ Shutdown \/ Restart
  BY <1>5 DEF ContainersFail, ContainersBoot, ContainersHeal, Shutdown, Restart, Remote, Alive
<1>6. CASE ProcessExits \/ Crash
  BY <1>6 DEF ProcessExits, Crash, Forget, Idle
<1>7. QED
  BY <1>1, <1>2, <1>3, <1>4, <1>5, <1>6 DEF Next, Check

\* A step of the handler of a deletion: it went one step further, and what the
\* step did to the host is known from its place in the program.
DeleteAdvances ==
  /\ worker.step \in 1..7 /\ worker'.step = worker.step + 1
  /\ worker.step = 4 => box' = "none"
  /\ IF worker.step = 6 THEN ~files' ELSE files' = files

\* A deletion past its first steps was running before, and advanced or waited.
LEMMA DeleteStep ==
  ASSUME IInv, [Next]_vars, worker'.mode = "run", task'[worker'.task].kind = "delete",
         worker'.step > 4
  PROVE  /\ worker.mode = "run" /\ Current.kind = "delete"
         /\ DeleteAdvances \/ UNCHANGED <<worker, files>>
<1>1. CASE \E t \in TaskIds : Claim(t)
  BY <1>1 DEF Claim, Idle
<1>2. CASE StageCanceled \/ StepFails \/ Commit \/ Recover \/ RecoveryLost \/ Finish
  <2>1. CASE StageCanceled \/ StepFails
    <3>1. PICK result : Throw(result)
      BY <2>1 DEF StageCanceled, StepFails
    <3>2. worker'.mode \in {"finish", "recover"}
      BY <3>1, WorkerTypes DEF Throw
    <3>3. QED
      BY <3>2
  <2>2. CASE Commit
    BY <2>2, WorkerTypes DEF Commit
  <2>3. CASE Recover \/ RecoveryLost
    BY <2>3, WorkerTypes DEF Recover, RecoveryLost
  <2>4. CASE Finish
    BY <2>4 DEF Finish, Idle
  <2>5. QED
    BY <1>2, <2>1, <2>2, <2>3, <2>4
<1>3. CASE Load
  BY <1>3, WorkerTypes DEF Load
<1>4. CASE Mark \/ Stage \/ RunEffect \/ WriteProject \/ RemoveProject \/ Verify
  <2> DEFINE n == worker.step
  <2>1. worker.mode = "run" /\ Advance
    BY <1>4 DEF Mark, Stage, RunEffect, WriteProject, RemoveProject, Verify, At
  <2>2. worker'.task = worker.task /\ worker'.step = n + 1
    BY <2>1, AdvanceFields
  <2>3. Current.kind = "delete"
    BY <2>1, <2>2, RunningHandler, RowKindKept, Busy DEF Current
  <2>4. n \in 1..Len(Program["delete"])
    BY <2>1, <2>3, RunningHandler
  <2>5. n \in 1..7
    BY <2>4, DeleteProgram
  <2>6. (n = 4 => box' = "none") /\ IF n = 6 THEN ~files' ELSE files' = files
    <3>1. CASE Mark \/ Stage \/ Verify
      <4>1. UNCHANGED files
        BY <3>1 DEF Mark, Stage, Verify, Remote
      <4>2. Program["delete"][n] \notin {"down", "remove"}
        BY <2>3, <3>1 DEF Mark, Stage, Verify, At
      <4>3. n # 4 /\ n # 6
        BY <2>4, <4>2, DeleteProgram
      <4>4. QED
        BY <4>1, <4>3
    <3>2. CASE RunEffect
      <4>1. PICK e \in ContainerEffects : At(e) /\ box' \in Done(e)
        BY <3>2 DEF RunEffect
      <4>2. e = "down" /\ n = 4
        BY <2>3, <2>4, <4>1, DeleteProgram DEF ContainerEffects, At
      <4>3. box' = "none" /\ UNCHANGED files
        BY <3>2, <4>1, <4>2 DEF Done, RunEffect
      <4>4. QED
        BY <4>2, <4>3
    <3>3. CASE WriteProject
      BY <2>3, <2>4, <3>3, DeleteProgram DEF WriteProject, At
    <3>4. CASE RemoveProject
      BY <2>3, <2>4, <3>4, DeleteProgram DEF RemoveProject, At
    <3>5. QED
      BY <1>4, <3>1, <3>2, <3>3, <3>4
  <2>7. QED
    BY <2>1, <2>2, <2>3, <2>5, <2>6 DEF DeleteAdvances
<1>5. CASE ~Work /\ ~RecoveryLost /\ worker.mode = "run"
  <2>1. UNCHANGED <<worker, files>>
    BY <1>5, HostWhileRunning
  <2>2. Current.kind = "delete"
    BY <1>5, <2>1, RunningHandler, RowKindKept, Busy DEF Current
  <2>3. QED
    BY <1>5, <2>1, <2>2
<1>6. CASE ~Work /\ ~RecoveryLost /\ worker.mode # "run"
  <2>1. CASE Api \/ UNCHANGED vars
    BY <1>6, <2>1 DEF Api, CreateInstance, ReadForAction, QueueAction, RejectAction, Retry,
                      PrepareCancel, ConfirmCancel, CancelRunning, vars
  <2>2. CASE Check \/ PollStopped
    BY <1>6, <2>2 DEF Check, Observe, ReadRow, Reconcile, CountRestart, AutoStart, AutoStartFails,
                      GiveUp, PollStopped
  <2>3. CASE ContainersFail \/ ContainersBoot \/ ContainersHeal \/ Shutdown \/ Restart
    BY <1>6, <2>3 DEF ContainersFail, ContainersBoot, ContainersHeal, Shutdown, Restart
  <2>4. CASE ProcessExits \/ Crash
    BY <2>4 DEF ProcessExits, Crash, Forget, Idle
  <2>5. QED
    BY <1>6, <2>1, <2>2, <2>3, <2>4 DEF Next
<1>7. QED
  BY <1>1, <1>2, <1>3, <1>4, <1>5, <1>6 DEF Work

LEMMA RemovingStep ==
  ASSUME IInv, Removing, [Next]_vars
  PROVE  Removing'
<1> SUFFICES ASSUME worker'.mode = "run", task'[worker'.task].kind = "delete", worker'.step > 6
             PROVE  ~files'
  BY DEF Removing, Current
<1>1. worker'.step \in 1..9
  BY NextIInv DEF IInv, TypeOK
<1>2. /\ worker.mode = "run" /\ Current.kind = "delete"
      /\ DeleteAdvances \/ UNCHANGED <<worker, files>>
  BY <1>1, DeleteStep
<1>3. QED
  BY <1>1, <1>2 DEF Removing, DeleteAdvances

\* The removal of the containers is what brings a deletion past its "down".
LEMMA PassesDown ==
  ASSUME IInv, [Next]_vars, ~PastDown, PastDown'
  PROVE  box' = "none"
<1>1. worker'.mode = "run" /\ task'[worker'.task].kind = "delete" /\ worker'.step > 4
  BY DEF PastDown, Current
<1>2. /\ worker.mode = "run" /\ Current.kind = "delete"
      /\ DeleteAdvances \/ UNCHANGED <<worker, files>>
  BY <1>1, DeleteStep
<1>3. DeleteAdvances /\ ~(worker.step > 4)
  BY <1>1, <1>2 DEF PastDown
<1>4. worker.step = 4
  BY <1>1, <1>3 DEF DeleteAdvances
<1>5. QED
  BY <1>3, <1>4 DEF DeleteAdvances

\* After it no command of the handler, whole or in part, touches containers.
LEMMA GoneAfterDown ==
  ASSUME IInv, [Next]_vars, PastDown, box = "none", box' # "none"
  PROVE  poll.mode = "start" /\ poll' # poll
<1>1. worker.mode = "run" /\ Current.kind = "delete" /\ worker.step > 4
  BY DEF PastDown
<1>2. worker.step \in 1..Len(Program["delete"])
  BY <1>1, RunningHandler
<1>3. \A e \in ContainerEffects : ~At(e)
  BY <1>1, <1>2, DeleteProgram DEF ContainerEffects, At
<1>4. ~(Api \/ UNCHANGED vars)
  BY DEF Api, CreateInstance, ReadForAction, QueueAction, RejectAction, Retry, PrepareCancel,
         ConfirmCancel, CancelRunning, Remote, vars
<1>5. ~(RunEffect \/ StepFails)
  BY <1>3 DEF RunEffect, StepFails, Remote
<1>6. ~(Work \/ RecoveryLost)
  BY <1>5 DEF Work, RecoveryLost, Claim, Load, Mark, Stage, StageCanceled, WriteProject,
              RemoveProject, Verify, Commit, Recover, Finish, Remote
<1>7. ~Crash
  BY <1>3 DEF Crash, Remote
<1>8. ~(ContainersFail \/ ContainersBoot \/ ContainersHeal \/ Shutdown \/ ProcessExits \/ Restart)
  BY DEF ContainersFail, ContainersBoot, ContainersHeal, Shutdown, ProcessExits, Restart, Remote,
         Alive
<1>9. ~(Observe \/ ReadRow \/ Reconcile \/ CountRestart \/ GiveUp \/ PollStopped)
  BY DEF Observe, ReadRow, Reconcile, CountRestart, GiveUp, PollStopped, Remote
<1>10. AutoStart \/ AutoStartFails
  BY <1>4, <1>6, <1>7, <1>8, <1>9 DEF Next, Check
<1>11. poll.mode = "start" /\ poll' \in {NoPoll, [poll EXCEPT !.mode = "giveUp"]}
  BY <1>10 DEF AutoStart, AutoStartFails
<1>12. poll'.mode \in {"idle", "giveUp"}
  BY <1>11, PollTyped DEF NoPoll
<1>13. QED
  BY <1>11, <1>12

\* Only the last step of a deletion marks the database deleted.
LEMMA DeletedByCommit ==
  ASSUME IInv, [Next]_vars, inst.status # "deleted", inst'.status = "deleted"
  PROVE  Commit /\ Current.kind = "delete"
<1>1. ~UNCHANGED inst
  OBVIOUS
<1>2. ~CreateInstance
  BY CreateEnters, KindNames DEF OpStatus
<1>3. ~\E c \in Clients : QueueAction(c)
  BY QueueEnters, ActionKinds DEF Operating
<1>4. ~ConfirmCancel
  <2> SUFFICES ASSUME ConfirmCancel PROVE FALSE
    OBVIOUS
  <2>1. plan # NoPlan /\ inst' \in {inst, WithState(inst, plan.state)}
    BY DEF ConfirmCancel
  <2>2. QED
    BY <2>1, PlanWritten DEF Stable
<1>5. ~Mark
  BY MarkWrites DEF Operating
<1>6. ~Recover
  BY RecoverWrites DEF Stable
<1>7. ~(Check \/ PollStopped)
  BY CheckWrites DEF Stable
<1>8. Commit
  BY <1>1, <1>2, <1>3, <1>4, <1>5, <1>6, <1>7, InstWriters
<1>9. Goal(Current.kind).status = "deleted"
  BY <1>8, CommitWrites
<1>10. QED
  BY <1>8, <1>9 DEF Goal, State

\* RemovedExceptRestarts: a database is marked deleted only when its directory
\* is gone; its containers are gone when the handler passes their removal, and
\* until it ends only an automatic restart of the monitor brings any back.
THEOREM RemovalRestartedOnly == Spec => RemovedExceptRestarts
<1> DEFINE Guaranteed ==
             /\ inst.status # "deleted" /\ inst'.status = "deleted" => ~files
             /\ ~PastDown /\ PastDown' => box' = "none"
             /\ PastDown /\ box = "none" /\ box' # "none" => poll.mode = "start" /\ poll' # poll
<1>1. Init => Removing
  BY DEF Init, Idle, Removing
<1>2. IInv /\ Removing /\ [Next]_vars => Removing'
  BY RemovingStep
<1>3. IInv /\ Removing /\ [Next]_vars => [Guaranteed]_vars
  <2> SUFFICES ASSUME IInv, Removing, [Next]_vars PROVE Guaranteed
    OBVIOUS
  <2>1. ASSUME inst.status # "deleted", inst'.status = "deleted" PROVE ~files
    <3>1. Commit /\ Current.kind = "delete"
      BY <2>1, DeletedByCommit
    <3>2. worker.mode = "run" /\ Program["delete"][worker.step] = "commit"
      BY <3>1 DEF Commit, At
    <3>3. worker.step \in 1..Len(Program["delete"])
      BY <3>1, <3>2, RunningHandler
    <3>4. worker.step = 7
      BY <3>2, <3>3, DeleteProgram
    <3>5. QED
      BY <3>1, <3>2, <3>4 DEF Removing
  <2>2. ~PastDown /\ PastDown' => box' = "none"
    BY PassesDown
  <2>3. PastDown /\ box = "none" /\ box' # "none" => poll.mode = "start" /\ poll' # poll
    BY GoneAfterDown
  <2>4. QED
    BY <2>1, <2>2, <2>3
<1>4. QED
  BY <1>1, <1>2, <1>3, Invariance, PTL DEF Spec, RemovedExceptRestarts
================================================================================
