---------------------------- MODULE TaskQueueProofs ----------------------------
(***************************************************************************)
(* Theorems about TaskQueue for every number of workers, hosts, resources, *)
(* kinds, tasks and failures: the claims and the hosts first, then the     *)
(* table.                                                                  *)
(***************************************************************************)
EXTENDS TaskQueue, TLAPS

(* The inductive invariant, in named parts. *)

\* Who holds which row: a claim holds a queued row, a handler a running one.
Holds ==
  \A w \in Workers :
    /\ pc[w] \in {"off", "idle"} => cur[w] = 0
    /\ pc[w] \in Claiming => cur[w] \in TaskIds /\ Is(cur[w], "queued")
    /\ pc[w] \in {"handler", "finishing"} => cur[w] \in TaskIds /\ Is(cur[w], "running")
    /\ pc[w] = "finishing" => outcome[w] \in Ended

\* No row is in two hands, and none of a lost call is in any.
HeldOnce ==
  /\ \A v, w \in Workers : v # w /\ cur[v] # 0 => cur[v] # cur[w]
  /\ \A w \in Workers : cur[w] \notin lost

\* The host lock excludes, and what a claim checked under it stays true.
LockedHosts ==
  /\ \A v, w \in Workers :
       /\ v # w
       /\ pc[v] \in {"hostLocked", "checked"}
       /\ pc[w] \in {"hostLocked", "checked"}
       /\ HostOfTask(cur[v]) # NoHost
       => HostOfTask(cur[v]) # HostOfTask(cur[w])
  /\ \A w \in Workers :
       pc[w] = "checked" /\ HostOfTask(cur[w]) # NoHost
         => ~RunningElsewhere(HostOfTask(cur[w]), cur[w])

\* A lost call leaves its row running.
LostRun == \A t \in lost : Is(t, "running")

\* Attempts count the claims of a row.
Attempts ==
  \A t \in TaskIds : Exists(t) =>
    /\ task[t].attempts <= 1
    /\ Is(t, "queued") => task[t].attempts = 0

\* Without a serving process nobody works.
Quiet == ~Serving => \A w \in Workers : pc[w] = "off"

IInv ==
  /\ TypeOK
  /\ Holds
  /\ HeldOnce
  /\ LockedHosts
  /\ LostRun
  /\ Attempts
  /\ Quiet
  /\ HostExclusive

--------------------------------------------------------------------------------
(* Rows *)

\* An existing row of a well-typed table is a Row.
LEMMA ExistingRow ==
  ASSUME TypeOK, NEW t \in TaskIds, Exists(t)
  PROVE  task[t] \in Row
BY DEF TypeOK, Exists, NoRow

LEMMA NewRowType ==
  ASSUME NEW r \in Resources, NEW k \in KindsOf[r], NEW o \in Nat
  PROVE  NewRow(k, r, o) \in Row
BY ConstantsOK DEF NewRow, Row, ConstantsOK

LEMMA RowUpdates ==
  ASSUME NEW row \in Row, NEW result \in Ended
  PROVE  /\ CanceledRow(row) \in Row
         /\ ClaimedRow(row) \in Row
         /\ FinishedRow(row, result) \in Row
<1>1. CanceledRow(row) \in Row
  <2>1. CASE row.status = "running"
    BY <2>1 DEF Row, CanceledRow
  <2>2. CASE row.status # "running"
    <3>1. [row EXCEPT !.status = "canceled", !.cancelable = FALSE, !.cancelAsked = TRUE] \in Row
      BY DEF Row, Ended
    <3>2. QED
      BY <2>2, <3>1 DEF CanceledRow
  <2>3. QED
    BY <2>1, <2>2
<1>2. ClaimedRow(row) \in Row
  <2>1. row.attempts + 1 \in Nat
    BY DEF Row
  <2>2. \A n \in Nat : [row EXCEPT !.status = "running", !.stage = 0, !.cancelable = TRUE,
                                    !.attempts = n] \in Row
    BY DEF Row
  <2>3. QED
    BY <2>1, <2>2 DEF ClaimedRow
<1>3. FinishedRow(row, result) \in Row
  BY DEF Row, FinishedRow, Ended
<1>4. QED
  BY <1>1, <1>2, <1>3

\* What the updates leave of a row.
LEMMA RowFields ==
  ASSUME NEW row \in Row, NEW result \in Ended
  PROVE  /\ ClaimedRow(row).status = "running"
         /\ ClaimedRow(row).resource = row.resource
         /\ ClaimedRow(row).attempts = row.attempts + 1
         /\ FinishedRow(row, result).status = result
         /\ FinishedRow(row, result).resource = row.resource
         /\ FinishedRow(row, result).attempts = row.attempts
         /\ row.status = "running" => CanceledRow(row).status = "running"
         /\ row.status # "running" => CanceledRow(row).status = "canceled"
         /\ CanceledRow(row).resource = row.resource
         /\ CanceledRow(row).attempts = row.attempts
BY DEF Row, ClaimedRow, FinishedRow, CanceledRow

--------------------------------------------------------------------------------
(* The worker's own steps: the table does not change. *)

\* What only depends on the table and the phase survives such a step.
LEMMA SameTable ==
  ASSUME IInv, UNCHANGED task
  PROVE  Attempts' /\ HostExclusive'
BY DEF IInv, Attempts, HostExclusive, Exists, Is, HostOfTask

LEMMA PickTaskStep ==
  ASSUME IInv, NEW w \in Workers, PickTask(w)
  PROVE  IInv'
<1>1. PICK t \in TaskIds : Eligible(t) /\ cur' = [cur EXCEPT ![w] = t]
  BY DEF PickTask
<1>2. pc[w] = "idle" /\ pc' = [pc EXCEPT ![w] = "picked"] /\ phase = "up"
      /\ UNCHANGED <<task, phase, outcome, lost, failures>>
  BY DEF PickTask
<1>3. TypeOK'
  BY <1>1, <1>2 DEF IInv, TypeOK, Claiming
<1>4. Is(t, "queued") /\ \A v \in Workers : pc[v] \in Claiming => cur[v] # t
  BY <1>1 DEF Eligible, RowLocked
<1>5. Holds'
  BY <1>1, <1>2, <1>4 DEF IInv, TypeOK, Holds, Claiming, Is
<1>6. HeldOnce'
  <2>1. \A v \in Workers : v # w => cur[v] # t
    BY <1>4 DEF IInv, TypeOK, Holds, Claiming, Is, TaskIds
  <2>2. t \notin lost
    BY <1>4 DEF IInv, LostRun, Is
  <2>3. QED
    BY <1>1, <1>2, <2>1, <2>2 DEF IInv, TypeOK, HeldOnce
<1>7. LockedHosts'
  BY <1>1, <1>2 DEF IInv, TypeOK, LockedHosts, HostOfTask, RunningElsewhere, Is
<1>8. Quiet'
  BY <1>2 DEF Quiet, Serving
<1>9. QED
  BY <1>2, <1>3, <1>5, <1>6, <1>7, <1>8, SameTable DEF IInv, LostRun, Is

\* The host lock is granted only while no other claim holds it.
LEMMA LockHostStep ==
  ASSUME IInv, NEW w \in Workers, LockHost(w)
  PROVE  IInv'
<1>1. pc[w] = "picked" /\ pc' = [pc EXCEPT ![w] = "hostLocked"]
      /\ UNCHANGED <<task, phase, cur, outcome, lost, failures>>
  BY DEF LockHost
<1>2. TypeOK' /\ Holds' /\ HeldOnce' /\ LostRun'
  BY <1>1 DEF IInv, TypeOK, Holds, HeldOnce, LostRun, Claiming, Is
<1>3. HostOfTask(cur[w]) # NoHost =>
        \A v \in Workers : pc[v] \in {"hostLocked", "checked"} => HostOfTask(cur[v]) # HostOfTask(cur[w])
  BY DEF LockHost, HostLocked
<1>4. LockedHosts'
  BY <1>1, <1>3 DEF IInv, TypeOK, LockedHosts, HostOfTask, RunningElsewhere, Is
<1>5. Quiet'
  BY <1>1 DEF IInv, Quiet, Serving
<1>6. QED
  BY <1>1, <1>2, <1>4, <1>5, SameTable DEF IInv

\* The recheck under the host lock.
LEMMA HostFreeStep ==
  ASSUME IInv, NEW w \in Workers, HostFree(w)
  PROVE  IInv'
<1>1. pc[w] = "hostLocked" /\ pc' = [pc EXCEPT ![w] = "checked"]
      /\ UNCHANGED <<task, phase, cur, outcome, lost, failures>>
  BY DEF HostFree
<1>2. TypeOK' /\ Holds' /\ HeldOnce' /\ LostRun'
  BY <1>1 DEF IInv, TypeOK, Holds, HeldOnce, LostRun, Claiming, Is
<1>3. HostOfTask(cur[w]) # NoHost => ~RunningElsewhere(HostOfTask(cur[w]), cur[w])
  BY DEF HostFree
<1>4. LockedHosts'
  BY <1>1, <1>3 DEF IInv, TypeOK, LockedHosts, HostOfTask, RunningElsewhere, Is
<1>5. Quiet'
  BY <1>1 DEF IInv, Quiet, Serving
<1>6. QED
  BY <1>1, <1>2, <1>4, <1>5, SameTable DEF IInv

\* A worker that gives its row up, whether a claim rolled back or a final write
\* was lost, disturbs no other worker.
LEMMA LeaveKeeps ==
  ASSUME IInv, NEW w \in Workers, pc[w] # "off", Leave(w),
         UNCHANGED <<task, phase>>,
         \A v \in Workers : v # w => outcome'[v] = outcome[v]
  PROVE  Holds' /\ LockedHosts' /\ Quiet'
         /\ (\A v \in Workers : v # w => cur'[v] = cur[v])
         /\ cur'[w] = 0 /\ cur' \in [Workers -> TaskIds \cup {0}]
         /\ pc' \in [Workers -> {"off", "idle", "handler", "finishing"} \cup Claiming]
<1> USE DEF Leave, IInv, TypeOK
<1>1. LockedHosts'
  BY DEF LockedHosts, HostOfTask, RunningElsewhere, Is
<1>2. Quiet'
  BY DEF Quiet, Serving
<1>3. QED
  BY <1>1, <1>2 DEF Holds, Claiming, Is

LEMMA GiveUpStep ==
  ASSUME IInv, NEW w \in Workers, HostBusy(w) \/ AbortClaim(w)
  PROVE  IInv'
<1>1. /\ pc[w] # "off" /\ Leave(w)
      /\ UNCHANGED <<task, phase, outcome, lost>>
      /\ failures' \in 0..MaxFailures
  BY ConstantsOK DEF HostBusy, AbortClaim, Claiming, Fail, IInv, TypeOK, ConstantsOK
<1>2. Holds' /\ LockedHosts' /\ Quiet' /\ TypeOK'
  BY <1>1, LeaveKeeps DEF IInv, TypeOK
<1>3. HeldOnce'
  BY <1>1, LeaveKeeps DEF IInv, TypeOK, HeldOnce, TaskIds
<1>4. QED
  BY <1>1, <1>2, <1>3, SameTable DEF IInv, LostRun, Is

\* The row of a lost final write is still running and in no other hand.
LEMMA LoseFinishStep ==
  ASSUME IInv, NEW w \in Workers, LoseFinish(w)
  PROVE  IInv'
<1>1. /\ pc[w] = "finishing" /\ Leave(w)
      /\ outcome' = [outcome EXCEPT ![w] = "none"]
      /\ lost' = lost \cup {cur[w]}
      /\ UNCHANGED <<task, phase>>
      /\ failures' \in 0..MaxFailures
  BY ConstantsOK DEF LoseFinish, Fail, IInv, TypeOK, ConstantsOK
<1>2. cur[w] \in TaskIds /\ Is(cur[w], "running")
  BY <1>1 DEF IInv, Holds
<1>3. Holds' /\ LockedHosts' /\ Quiet'
  BY <1>1, LeaveKeeps DEF IInv, TypeOK
<1>4. TypeOK'
  BY <1>1, <1>2, LeaveKeeps DEF IInv, TypeOK
<1>5. HeldOnce'
  BY <1>1, <1>2, LeaveKeeps DEF IInv, TypeOK, HeldOnce, TaskIds
<1>6. LostRun'
  BY <1>1, <1>2 DEF IInv, LostRun, Is
<1>7. QED
  BY <1>1, <1>3, <1>4, <1>5, <1>6, SameTable DEF IInv

\* A handler's return only moves its worker to the final write.
LEMMA ReturnStep ==
  ASSUME IInv, NEW w \in Workers,
         StageRefused(w) \/ HandlerFails(w) \/ HandlerStopped(w) \/ HandlerSucceeds(w)
  PROVE  IInv'
<1>1. PICK result \in Ended : Return(w, result)
  BY DEF StageRefused, HandlerFails, HandlerStopped, HandlerSucceeds, Ended
<1>2. pc[w] = "handler" /\ UNCHANGED <<task, phase, cur, lost, failures>>
  BY DEF StageRefused, HandlerFails, HandlerStopped, HandlerSucceeds
<1>3. TypeOK' /\ Holds' /\ HeldOnce' /\ LostRun' /\ Quiet'
  BY <1>1, <1>2 DEF Return, IInv, TypeOK, Holds, HeldOnce, LostRun, Quiet, Serving, Claiming, Is
<1>4. LockedHosts'
  BY <1>1, <1>2 DEF Return, IInv, TypeOK, LockedHosts, HostOfTask, RunningElsewhere, Is
<1>5. QED
  BY <1>2, <1>3, <1>4, SameTable DEF IInv

--------------------------------------------------------------------------------
(* Steps that write the table *)

\* What a claim's commit does to the table: the picked row runs, no other row
\* changes, and no two running rows share a host because the claim's check
\* still holds.
LEMMA ClaimWrites ==
  ASSUME IInv, NEW w \in Workers, pc[w] = "checked",
         task' = [task EXCEPT ![cur[w]] = ClaimedRow(@)]
  PROVE  /\ cur[w] \in TaskIds /\ Is(cur[w], "queued") /\ task'[cur[w]].status = "running"
         /\ \A t \in TaskIds : t # cur[w] => task'[t] = task[t]
         /\ \A t \in TaskIds : HostOfTask(t)' = HostOfTask(t)
         /\ task' \in [TaskIds -> Row \cup {NoRow}]
         /\ Attempts' /\ HostExclusive'
<1>1. cur[w] \in TaskIds /\ Is(cur[w], "queued") /\ task \in [TaskIds -> Row \cup {NoRow}]
  BY DEF IInv, TypeOK, Holds, Claiming
<1>2. task[cur[w]] \in Row
  BY <1>1, ExistingRow DEF IInv, Exists, Is
<1>3. "failed" \in Ended
  BY DEF Ended
<1>4. /\ task'[cur[w]] = ClaimedRow(task[cur[w]])
      /\ \A t \in TaskIds : t # cur[w] => task'[t] = task[t]
  BY <1>1
<1>5. ClaimedRow(task[cur[w]]) \in Row
  BY <1>2, <1>3, RowUpdates
<1>6. /\ task'[cur[w]].status = "running"
      /\ task'[cur[w]].resource = task[cur[w]].resource
      /\ task'[cur[w]].attempts = task[cur[w]].attempts + 1
  BY <1>2, <1>3, <1>4, RowFields
<1>7. \A t \in TaskIds : HostOfTask(t)' = HostOfTask(t)
  BY <1>4, <1>6 DEF HostOfTask
<1>8. task' \in [TaskIds -> Row \cup {NoRow}]
  BY <1>1, <1>5
<1>9. Attempts'
  <2>1. task[cur[w]].attempts = 0
    BY <1>1 DEF IInv, Attempts, Exists, Is
  <2>2. task'[cur[w]].attempts <= 1 /\ task'[cur[w]].status # "queued"
    BY <1>6, <2>1
  <2>3. QED
    BY <1>4, <2>2 DEF IInv, Attempts, Exists, Is
<1>10. HostExclusive'
  <2>1. HostOfTask(cur[w]) # NoHost => ~RunningElsewhere(HostOfTask(cur[w]), cur[w])
    BY DEF IInv, LockedHosts
  <2>2. SUFFICES ASSUME NEW s \in TaskIds, NEW t \in TaskIds, s # t,
                        Is(s, "running")', Is(t, "running")',
                        HostOfTask(s) # NoHost, HostOfTask(s) = HostOfTask(t)
                 PROVE  FALSE
    BY <1>7 DEF HostExclusive
  <2>3. CASE s = cur[w]
    BY <1>4, <2>1, <2>2, <2>3 DEF RunningElsewhere, Is
  <2>4. CASE t = cur[w]
    BY <1>4, <2>1, <2>2, <2>4 DEF RunningElsewhere, Is
  <2>5. CASE s # cur[w] /\ t # cur[w]
    BY <1>4, <2>2, <2>5 DEF IInv, HostExclusive, Is
  <2>6. QED
    BY <2>3, <2>4, <2>5
<1>11. QED
  BY <1>1, <1>4, <1>6, <1>7, <1>8, <1>9, <1>10

\* Other claims on the same host wait for the host lock, so their checks are not
\* undone by this commit.
LEMMA ClaimKeepsChecks ==
  ASSUME IInv, NEW w \in Workers, pc[w] = "checked",
         task' = [task EXCEPT ![cur[w]] = ClaimedRow(@)],
         pc' \in [Workers -> {"off", "idle", "handler", "finishing"} \cup Claiming],
         pc'[w] \in {"idle", "handler"},
         \A v \in Workers : v # w => pc'[v] = pc[v] /\ cur'[v] = cur[v]
  PROVE  LockedHosts'
<1>1. /\ cur[w] \in TaskIds
      /\ \A t \in TaskIds : t # cur[w] => task'[t] = task[t]
      /\ \A t \in TaskIds : HostOfTask(t)' = HostOfTask(t)
  BY ClaimWrites
<1>2. \A v \in Workers : pc'[v] \in {"hostLocked", "checked"} =>
        v # w /\ pc[v] = pc'[v] /\ cur'[v] = cur[v] /\ cur[v] \in TaskIds
        /\ HostOfTask(cur[v])' = HostOfTask(cur[v])
  BY <1>1 DEF IInv, Holds, Claiming
<1>3. ASSUME NEW v \in Workers, pc'[v] = "checked", HostOfTask(cur[v]) # NoHost
      PROVE  ~RunningElsewhere(HostOfTask(cur[v]), cur[v])'
  <2>1. HostOfTask(cur[v]) # HostOfTask(cur[w])
    BY <1>2, <1>3 DEF IInv, LockedHosts
  <2>2. ~RunningElsewhere(HostOfTask(cur[v]), cur[v])
    BY <1>2, <1>3 DEF IInv, LockedHosts
  <2>3. QED
    BY <1>1, <1>2, <1>3, <2>1, <2>2 DEF RunningElsewhere, Is
<1>4. QED
  BY <1>2, <1>3 DEF IInv, LockedHosts

LEMMA CommitClaimStep ==
  ASSUME IInv, NEW w \in Workers, CommitClaim(w)
  PROVE  IInv'
<1>1. /\ pc[w] = "checked" /\ pc' = [pc EXCEPT ![w] = "handler"]
      /\ task' = [task EXCEPT ![cur[w]] = ClaimedRow(@)]
      /\ UNCHANGED <<phase, cur, outcome, lost, failures>>
  BY DEF CommitClaim
<1>2. /\ cur[w] \in TaskIds /\ Is(cur[w], "queued") /\ task'[cur[w]].status = "running"
      /\ \A t \in TaskIds : t # cur[w] => task'[t] = task[t]
      /\ task' \in [TaskIds -> Row \cup {NoRow}]
      /\ Attempts' /\ HostExclusive'
  BY <1>1, ClaimWrites
<1>3. TypeOK' /\ HeldOnce' /\ Quiet'
  BY <1>1, <1>2 DEF IInv, TypeOK, HeldOnce, Quiet, Serving
<1>4. \A v \in Workers : v # w /\ cur[v] # 0 => cur[v] # cur[w]
  BY DEF IInv, HeldOnce
<1>5. Holds'
  BY <1>1, <1>2, <1>4 DEF IInv, TypeOK, Holds, Claiming, Is, TaskIds
<1>6. LostRun'
  BY <1>1, <1>2 DEF IInv, TypeOK, LostRun, HeldOnce, Is
<1>7. LockedHosts'
  BY <1>1, <1>3, ClaimKeepsChecks DEF IInv, TypeOK
<1>8. QED
  BY <1>2, <1>3, <1>5, <1>6, <1>7 DEF IInv

LEMMA LoseClaimStep ==
  ASSUME IInv, NEW w \in Workers, LoseClaim(w)
  PROVE  IInv'
<1>1. /\ pc[w] = "checked" /\ pc' = [pc EXCEPT ![w] = "idle"]
      /\ cur' = [cur EXCEPT ![w] = 0]
      /\ task' = [task EXCEPT ![cur[w]] = ClaimedRow(@)]
      /\ lost' = lost \cup {cur[w]}
      /\ UNCHANGED <<phase, outcome>>
      /\ failures' \in 0..MaxFailures
  BY ConstantsOK DEF LoseClaim, Leave, Fail, IInv, TypeOK, ConstantsOK
<1>2. /\ cur[w] \in TaskIds /\ Is(cur[w], "queued") /\ task'[cur[w]].status = "running"
      /\ \A t \in TaskIds : t # cur[w] => task'[t] = task[t]
      /\ task' \in [TaskIds -> Row \cup {NoRow}]
      /\ Attempts' /\ HostExclusive'
  BY <1>1, ClaimWrites
<1>3. TypeOK' /\ Quiet'
  BY <1>1, <1>2 DEF IInv, TypeOK, Quiet, Serving
<1>4. \A v \in Workers : v # w /\ cur[v] # 0 => cur[v] # cur[w]
  BY DEF IInv, HeldOnce
<1>5. Holds'
  BY <1>1, <1>2, <1>4 DEF IInv, TypeOK, Holds, Claiming, Is, TaskIds
<1>6. HeldOnce'
  BY <1>1, <1>2, <1>4 DEF IInv, TypeOK, HeldOnce, TaskIds
<1>7. LostRun'
  BY <1>1, <1>2 DEF IInv, TypeOK, LostRun, Is
<1>8. LockedHosts'
  BY <1>1, <1>3, ClaimKeepsChecks DEF IInv, TypeOK
<1>9. QED
  BY <1>2, <1>3, <1>5, <1>6, <1>7, <1>8 DEF IInv

\* A step that starts no row keeps the hosts exclusive and the claims' checks.
LEMMA NothingStarts ==
  ASSUME IInv,
         \A t \in TaskIds : task'[t].status = "running" =>
           Is(t, "running") /\ HostOfTask(t)' = HostOfTask(t),
         \A v \in Workers : pc'[v] \in {"hostLocked", "checked"} =>
           /\ pc[v] = pc'[v] /\ cur'[v] = cur[v]
           /\ HostOfTask(cur[v])' = HostOfTask(cur[v])
  PROVE  HostExclusive' /\ LockedHosts'
<1>1. HostExclusive'
  BY DEF IInv, HostExclusive, Is
<1>2. ASSUME NEW v \in Workers, pc'[v] = "checked", HostOfTask(cur[v]) # NoHost
      PROVE  ~RunningElsewhere(HostOfTask(cur[v]), cur[v])'
  BY <1>2 DEF IInv, LockedHosts, RunningElsewhere, Is
<1>3. QED
  BY <1>1, <1>2 DEF IInv, LockedHosts

\* A new queued row.
LEMMA InsertStep ==
  ASSUME IInv, NEW row \in Row, row.status = "queued", row.attempts = 0,
         Insert(row), UNCHANGED <<phase, pc, cur, outcome, lost, failures>>
  PROVE  IInv'
<1>1. PICK n \in TaskIds : ~Exists(n) /\ task' = [task EXCEPT ![n] = row]
  BY DEF Insert
<1>2. /\ task'[n] = row /\ \A t \in TaskIds : t # n => task'[t] = task[t]
  BY <1>1 DEF IInv, TypeOK
<1>3. TypeOK' /\ Quiet'
  BY <1>1 DEF IInv, TypeOK, Quiet, Serving
<1>4. \A w \in Workers : cur[w] # n
  BY <1>1 DEF IInv, TypeOK, Holds, Claiming, Exists, Is, TaskIds
<1>5. Holds'
  BY <1>1, <1>4 DEF IInv, TypeOK, Holds, Claiming, Is
<1>6. HeldOnce' /\ LostRun' /\ Attempts'
  BY <1>1, <1>2 DEF IInv, TypeOK, HeldOnce, LostRun, Attempts, Exists, Is
<1>7. \A t \in TaskIds : task'[t].status = "running" =>
        Is(t, "running") /\ HostOfTask(t)' = HostOfTask(t)
  BY <1>2 DEF HostOfTask, Is
<1>8. \A v \in Workers : pc'[v] \in {"hostLocked", "checked"} =>
        /\ pc[v] = pc'[v] /\ cur'[v] = cur[v]
        /\ HostOfTask(cur[v])' = HostOfTask(cur[v])
  BY <1>2, <1>4 DEF IInv, Holds, Claiming, HostOfTask
<1>9. QED
  BY <1>3, <1>5, <1>6, <1>7, <1>8, NothingStarts DEF IInv

LEMMA SubmitStep ==
  ASSUME IInv, NEW r \in Resources, NEW k \in KindsOf[r], Submit(k, r)
  PROVE  IInv'
<1>1. NewRow(k, r, 0) \in Row
  BY NewRowType
<1>2. NewRow(k, r, 0).status = "queued" /\ NewRow(k, r, 0).attempts = 0
  BY DEF NewRow
<1>3. QED
  BY <1>1, <1>2, InsertStep DEF Submit

LEMMA RetryStep ==
  ASSUME IInv, NEW t \in TaskIds, Retry(t)
  PROVE  IInv'
<1> DEFINE row == NewRow(task[t].kind, task[t].resource, RetryOrigin(t))
<1>1. task[t] \in Row
  BY ExistingRow DEF Retry, Retryable, Exists, IInv
<1>2. RetryOrigin(t) \in Nat
  BY <1>1 DEF Row, RetryOrigin, TaskIds
<1>3. row \in Row
  BY <1>1, <1>2 DEF Row, NewRow
<1>4. row.status = "queued" /\ row.attempts = 0
  BY DEF NewRow
<1> HIDE DEF row
<1>5. Insert(row) /\ UNCHANGED <<phase, pc, cur, outcome, lost, failures>>
  BY DEF Retry, row
<1>6. QED
  BY <1>3, <1>4, <1>5, InsertStep

\* A cancellation, by request or at startup: the row lock keeps it out of a
\* claim in progress; a row in a handler's hands stays running.
LEMMA CancelStep ==
  ASSUME IInv, NEW t \in TaskIds, CancelRequest(t) \/ RetireTask(t)
  PROVE  IInv'
<1>1. /\ task[t].status \in {"queued", "running"} /\ ~RowLocked(t)
      /\ task' = [task EXCEPT ![t] = CanceledRow(task[t])]
      /\ UNCHANGED <<phase, pc, cur, outcome, lost, failures>>
  BY DEF CancelRequest, RetireTask, Cancel
<1>2. task[t] \in Row /\ "failed" \in Ended
  BY <1>1, ExistingRow DEF Exists, IInv, Ended
<1>3. CanceledRow(task[t]) \in Row
  BY <1>2, RowUpdates
<1>4. /\ task'[t].resource = task[t].resource
      /\ task'[t].attempts = task[t].attempts
      /\ Is(t, "running") => task'[t].status = "running"
      /\ ~Is(t, "running") => task'[t].status = "canceled"
      /\ \A s \in TaskIds : s # t => task'[s] = task[s]
  BY <1>1, <1>2, RowFields DEF IInv, TypeOK, Is
<1>5. TypeOK' /\ HeldOnce' /\ Quiet'
  BY <1>1, <1>3 DEF IInv, TypeOK, HeldOnce, Quiet, Serving
<1>6. \A w \in Workers : pc[w] \in Claiming => cur[w] # t
  BY <1>1 DEF RowLocked
<1>7. Holds'
  BY <1>1, <1>4, <1>6 DEF IInv, TypeOK, Holds, Is
<1>8. LostRun'
  BY <1>1, <1>4 DEF IInv, TypeOK, LostRun, Is
<1>9. Attempts'
  BY <1>1, <1>4 DEF IInv, Attempts, Exists, Is
<1>10. \A s \in TaskIds : HostOfTask(s)' = HostOfTask(s)
  BY <1>4 DEF HostOfTask
<1>11. \A s \in TaskIds : task'[s].status = "running" => Is(s, "running") /\ HostOfTask(s)' = HostOfTask(s)
  BY <1>1, <1>4, <1>10 DEF Is
<1>12. \A v \in Workers : pc'[v] \in {"hostLocked", "checked"} =>
         /\ pc[v] = pc'[v] /\ cur'[v] = cur[v]
         /\ HostOfTask(cur[v])' = HostOfTask(cur[v])
  BY <1>1, <1>10 DEF IInv, Holds, Claiming
<1>13. QED
  BY <1>5, <1>7, <1>8, <1>9, <1>11, <1>12, NothingStarts DEF IInv

\* The final write: only the worker that holds a running row writes it.
LEMMA FinishTaskStep ==
  ASSUME IInv, NEW w \in Workers, FinishTask(w)
  PROVE  IInv'
<1> DEFINE t == cur[w]
<1>1. /\ pc[w] = "finishing" /\ pc' = [pc EXCEPT ![w] = "idle"]
      /\ cur' = [cur EXCEPT ![w] = 0]
      /\ task' = [task EXCEPT ![t] = FinishedRow(task[t], outcome[w])]
      /\ outcome' = [outcome EXCEPT ![w] = "none"]
      /\ UNCHANGED <<phase, lost, failures>>
  BY DEF FinishTask, Leave
<1>2. t \in TaskIds /\ Is(t, "running") /\ outcome[w] \in Ended
  BY <1>1 DEF IInv, Holds
<1>3. task[t] \in Row
  BY <1>2, ExistingRow DEF Exists, IInv, Is
<1>4. FinishedRow(task[t], outcome[w]) \in Row
  BY <1>2, <1>3, RowUpdates
<1>5. /\ task'[t].resource = task[t].resource
      /\ task'[t].attempts = task[t].attempts
      /\ task'[t].status = outcome[w]
      /\ \A s \in TaskIds : s # t => task'[s] = task[s]
  BY <1>1, <1>2, <1>3, RowFields DEF IInv, TypeOK
<1>6. task'[t].status \notin {"queued", "running"}
  BY <1>2, <1>5 DEF Ended
<1>7. TypeOK' /\ Quiet'
  BY <1>1, <1>4 DEF IInv, TypeOK, Quiet, Serving
<1>8. (\A v \in Workers : v # w => cur[v] # t) /\ t \notin lost
  BY <1>2 DEF IInv, HeldOnce, TaskIds
<1> HIDE DEF t
<1>9. Holds'
  BY <1>1, <1>5, <1>8 DEF IInv, TypeOK, Holds, Claiming, Is
<1>10. HeldOnce'
  BY <1>1 DEF IInv, TypeOK, HeldOnce, TaskIds
<1>11. LostRun' /\ Attempts'
  BY <1>1, <1>2, <1>5, <1>6, <1>8 DEF IInv, TypeOK, LostRun, Attempts, Exists, Is
<1>12. \A s \in TaskIds : HostOfTask(s)' = HostOfTask(s)
  BY <1>5 DEF HostOfTask
<1>13. \A s \in TaskIds : task'[s].status = "running" => Is(s, "running") /\ HostOfTask(s)' = HostOfTask(s)
  BY <1>5, <1>6, <1>12 DEF Is
<1>14. \A v \in Workers : pc'[v] \in {"hostLocked", "checked"} =>
         /\ pc[v] = pc'[v] /\ cur'[v] = cur[v]
         /\ HostOfTask(cur[v])' = HostOfTask(cur[v])
  BY <1>1, <1>12 DEF IInv, TypeOK, Holds, Claiming
<1>15. QED
  BY <1>7, <1>9, <1>10, <1>11, <1>13, <1>14, NothingStarts DEF IInv

\* A Stage changes neither status, resource nor attempts of its row.
LEMMA StageAdvanceStep ==
  ASSUME IInv, NEW w \in Workers, StageAdvance(w)
  PROVE  IInv'
<1> DEFINE t == cur[w]
           next == task[t].stage + 1
           flag == StagePlan[task[t].kind][next]
<1>1. /\ pc[w] = "handler" /\ Is(t, "running")
      /\ next <= Len(StagePlan[task[t].kind])
      /\ task' = [task EXCEPT ![t].stage = next, ![t].cancelable = flag]
      /\ UNCHANGED <<phase, pc, cur, outcome, lost, failures>>
  BY DEF StageAdvance
<1>2. t \in TaskIds
  BY <1>1 DEF IInv, Holds
<1>3. task[t] \in Row
  BY <1>1, <1>2, ExistingRow DEF Exists, IInv, Is
<1>4. next \in Nat /\ next > 0 /\ StagePlan[task[t].kind] \in Seq(BOOLEAN)
  BY <1>3, ConstantsOK DEF Row, ConstantsOK
<1>5. flag \in BOOLEAN
  BY <1>1, <1>4
<1> HIDE DEF t, next, flag
<1>6. \A n \in Nat, b \in BOOLEAN : [[task[t] EXCEPT !.stage = n] EXCEPT !.cancelable = b] \in Row
  BY <1>3 DEF Row
<1>7. task'[t] = [[task[t] EXCEPT !.stage = next] EXCEPT !.cancelable = flag]
  BY <1>1, <1>2 DEF IInv, TypeOK
<1>8. task' \in [TaskIds -> Row \cup {NoRow}]
  <2>1. [[task[t] EXCEPT !.stage = next] EXCEPT !.cancelable = flag] \in Row
    BY <1>4, <1>5, <1>6
  <2>2. task' = [task EXCEPT ![t] = [[task[t] EXCEPT !.stage = next] EXCEPT !.cancelable = flag]]
    BY <1>1, <1>2 DEF IInv, TypeOK
  <2>3. QED
    BY <2>1, <2>2 DEF IInv, TypeOK
<1>9. \A s \in TaskIds : s # t => task'[s] = task[s]
  BY <1>1, <1>2 DEF IInv, TypeOK
<1>10. task'[t].status = task[t].status /\ task'[t].resource = task[t].resource
       /\ task'[t].attempts = task[t].attempts
  BY <1>3, <1>7 DEF Row
<1>11. TypeOK' /\ HeldOnce' /\ Quiet'
  BY <1>1, <1>8 DEF IInv, TypeOK, HeldOnce, Quiet, Serving
<1>12. \A s \in TaskIds : task'[s].status = task[s].status /\ task'[s].attempts = task[s].attempts
                          /\ HostOfTask(s)' = HostOfTask(s)
  BY <1>9, <1>10 DEF HostOfTask
<1>13. Holds' /\ LostRun' /\ Attempts'
  BY <1>1, <1>12 DEF IInv, TypeOK, Holds, LostRun, Attempts, Exists, Is
<1>14. \A v \in Workers : pc'[v] \in {"hostLocked", "checked"} =>
         /\ pc[v] = pc'[v] /\ cur'[v] = cur[v]
         /\ HostOfTask(cur[v])' = HostOfTask(cur[v])
  BY <1>1, <1>12 DEF IInv, Holds, Claiming
<1>15. QED
  BY <1>11, <1>12, <1>13, <1>14, NothingStarts DEF IInv, Is

--------------------------------------------------------------------------------
(* Steps of the process *)

\* Shutdown, a worker's exit and the last exit leave claims and rows alone.
LEMMA StopStep ==
  ASSUME IInv, Shutdown \/ ProcessExits \/ (\E w \in Workers : WorkerExits(w))
  PROVE  IInv'
<1>1. /\ UNCHANGED <<task, cur, outcome, lost>>
      /\ failures' \in 0..MaxFailures
      /\ phase' \in {"down", "stopping"}
      /\ pc' \in [Workers -> {"off", "idle", "handler", "finishing"} \cup Claiming]
  BY ConstantsOK DEF Shutdown, ProcessExits, WorkerExits, Fail, IInv, TypeOK, ConstantsOK
<1>2. \A v \in Workers : pc'[v] # pc[v] => pc[v] = "idle" /\ pc'[v] = "off"
  BY DEF Shutdown, ProcessExits, WorkerExits, IInv, TypeOK
<1>3. TypeOK'
  BY <1>1 DEF IInv, TypeOK
<1>4. Holds' /\ HeldOnce' /\ LostRun'
  BY <1>1, <1>2 DEF IInv, TypeOK, Holds, HeldOnce, LostRun, Claiming, Is
<1>5. LockedHosts'
  BY <1>1, <1>2 DEF IInv, TypeOK, LockedHosts, HostOfTask, RunningElsewhere, Is
<1>6. Quiet'
  <2>1. CASE Shutdown
    BY <2>1 DEF Shutdown, Quiet, Serving
  <2>2. CASE ProcessExits
    BY <2>2 DEF ProcessExits, Quiet, Serving
  <2>3. CASE \E w \in Workers : WorkerExits(w)
    BY <2>3 DEF WorkerExits, Quiet, Serving
  <2>4. QED
    BY <2>1, <2>2, <2>3
<1>7. QED
  BY <1>1, <1>3, <1>4, <1>5, <1>6, SameTable DEF IInv

LEMMA CrashStep ==
  ASSUME IInv, Crash
  PROVE  IInv'
<1>1. /\ UNCHANGED <<task, lost>> /\ phase' = "down"
      /\ pc' = [w \in Workers |-> "off"] /\ cur' = [w \in Workers |-> 0]
      /\ outcome' = [w \in Workers |-> "none"]
      /\ failures' \in 0..MaxFailures
  BY ConstantsOK DEF Crash, Fail, IInv, TypeOK, ConstantsOK
<1>2. TypeOK' /\ Holds' /\ LockedHosts' /\ LostRun' /\ Quiet'
  BY <1>1 DEF IInv, TypeOK, Holds, LockedHosts, LostRun, Quiet, Claiming, Is
<1>3. HeldOnce'
  BY <1>1 DEF IInv, TypeOK, HeldOnce, TaskIds
<1>4. QED
  BY <1>1, <1>2, <1>3, SameTable DEF IInv

\* At startup no worker holds anything, so every running row can be interrupted.
LEMMA InterruptStep ==
  ASSUME IInv, InterruptRunningTasks
  PROVE  IInv'
<1> DEFINE Interrupted(row) == [row EXCEPT !.status = "interrupted", !.cancelable = FALSE]
<1>1. /\ phase = "down" /\ phase' = "recovering" /\ lost' = {}
      /\ UNCHANGED <<pc, cur, outcome, failures>>
      /\ task' = [t \in TaskIds |-> IF Is(t, "running") THEN Interrupted(task[t]) ELSE task[t]]
  BY DEF InterruptRunningTasks
<1>2. \A t \in TaskIds : Is(t, "running") =>
        /\ task'[t] = Interrupted(task[t]) /\ task'[t] \in Row
        /\ task'[t].status = "interrupted" /\ task'[t].attempts = task[t].attempts
  <2>1. SUFFICES ASSUME NEW t \in TaskIds, Is(t, "running")
                 PROVE  /\ task'[t] = Interrupted(task[t]) /\ task'[t] \in Row
                        /\ task'[t].status = "interrupted" /\ task'[t].attempts = task[t].attempts
    OBVIOUS
  <2>2. task[t] \in Row
    BY <2>1, ExistingRow DEF Exists, Is, IInv
  <2>3. task'[t] = Interrupted(task[t])
    BY <1>1, <2>1
  <2>4. QED
    BY <2>2, <2>3 DEF Row, Ended
<1> HIDE DEF Interrupted
<1>3. \A t \in TaskIds : ~Is(t, "running") => task'[t] = task[t]
  BY <1>1
<1>4. \A w \in Workers : pc[w] = "off" /\ cur[w] = 0
  BY <1>1 DEF IInv, Quiet, Serving, Holds
<1>5. task' \in [TaskIds -> Row \cup {NoRow}]
  BY <1>1, <1>2, <1>3 DEF IInv, TypeOK
<1>6. TypeOK' /\ Holds' /\ LockedHosts' /\ LostRun' /\ Quiet'
  BY <1>1, <1>4, <1>5 DEF IInv, TypeOK, Holds, LockedHosts, LostRun, Quiet, Claiming
<1>7. HeldOnce'
  BY <1>1, <1>4 DEF HeldOnce
<1>8. \A t \in TaskIds : ~Is(t, "running")'
  BY <1>2, <1>3 DEF Is
<1>9. Attempts'
  BY <1>2, <1>3 DEF IInv, Attempts, Exists, Is
<1>10. HostExclusive'
  BY <1>8 DEF HostExclusive
<1>11. QED
  BY <1>6, <1>7, <1>9, <1>10 DEF IInv

LEMMA StartWorkersStep ==
  ASSUME IInv, StartWorkers
  PROVE  IInv'
<1>1. /\ phase = "recovering" /\ phase' = "up" /\ pc' = [w \in Workers |-> "idle"]
      /\ UNCHANGED <<task, cur, outcome, lost, failures>>
  BY DEF StartWorkers
<1>2. \A w \in Workers : pc[w] = "off" /\ cur[w] = 0
  BY <1>1 DEF IInv, Quiet, Serving, Holds
<1>3. TypeOK' /\ Holds' /\ LockedHosts' /\ LostRun' /\ Quiet'
  BY <1>1, <1>2 DEF IInv, TypeOK, Holds, LockedHosts, LostRun, Quiet, Serving, Claiming, Is
<1>4. HeldOnce'
  BY <1>1, <1>2 DEF IInv, HeldOnce
<1>5. QED
  BY <1>1, <1>3, <1>4, SameTable DEF IInv

LEMMA InitIInv ==
  ASSUME Init
  PROVE  IInv
<1>1. LegacyRow \subseteq Row
  <2>1. SUFFICES ASSUME NEW row \in LegacyRow PROVE row \in Row
    OBVIOUS
  <2>2. row \in [kind : Kinds \ Supported, resource : Resources, origin : {0},
                 status : {"queued", "running"}, stage : {0}, cancelable : BOOLEAN,
                 cancelAsked : {FALSE}, attempts : {0, 1}]
    BY DEF LegacyRow
  <2>3. row = [kind |-> row.kind, resource |-> row.resource, origin |-> row.origin,
               status |-> row.status, stage |-> row.stage, cancelable |-> row.cancelable,
               cancelAsked |-> row.cancelAsked, attempts |-> row.attempts]
    BY <2>2
  <2>4. /\ row.kind \in Kinds /\ row.resource \in Resources /\ row.origin \in Nat
        /\ row.status \in {"queued", "running"} \cup Ended /\ row.stage \in Nat
        /\ row.cancelable \in BOOLEAN /\ row.cancelAsked \in BOOLEAN /\ row.attempts \in Nat
    <3>1. /\ row.kind \in Kinds \ Supported /\ row.resource \in Resources
          /\ row.origin \in {0} /\ row.status \in {"queued", "running"} /\ row.stage \in {0}
          /\ row.cancelable \in BOOLEAN /\ row.cancelAsked \in {FALSE} /\ row.attempts \in {0, 1}
      BY <2>2, Zenon
    <3>2. row.cancelAsked \in BOOLEAN
      BY <3>1, Zenon
    <3>3. row.origin \in Nat /\ row.stage \in Nat /\ row.attempts \in Nat
      BY <3>1
    <3>4. QED
      BY <3>1, <3>2, <3>3, Zenon
  <2>5. QED
    BY <2>3, <2>4, Zenon DEF Row
<1>2. TypeOK
  BY <1>1, ConstantsOK DEF Init, TypeOK, ConstantsOK
<1>3. Holds /\ HeldOnce /\ LockedHosts /\ LostRun /\ Quiet
  BY DEF Init, Holds, HeldOnce, LockedHosts, LostRun, Quiet, Claiming
<1>4. Attempts
  <2>1. SUFFICES ASSUME NEW t \in TaskIds, Exists(t)
                 PROVE  /\ task[t].attempts <= 1
                        /\ Is(t, "queued") => task[t].attempts = 0
    BY DEF Attempts
  <2>2. task[t] \in LegacyRow
    BY <2>1 DEF Init, Exists, NoRow
  <2>3. task[t].attempts \in {0, 1} /\ (task[t].status = "queued" => task[t].attempts = 0)
    BY <2>2 DEF LegacyRow
  <2>4. QED
    BY <2>3 DEF Is
<1>5. HostExclusive
  BY DEF Init, HostExclusive, Exists, Is
<1>6. QED
  BY <1>2, <1>3, <1>4, <1>5 DEF IInv

--------------------------------------------------------------------------------
(* Theorems *)

\* Every step keeps the inductive invariant.
LEMMA NextIInv ==
  ASSUME IInv, [Next]_vars
  PROVE  IInv'
<1>1. CASE Request
  BY <1>1, SubmitStep, RetryStep, CancelStep DEF Request
<1>2. ASSUME NEW w \in Workers, Claim(w) PROVE IInv'
  BY <1>2, PickTaskStep, LockHostStep, GiveUpStep, HostFreeStep, CommitClaimStep DEF Claim
<1>3. ASSUME NEW w \in Workers, Run(w) PROVE IInv'
  BY <1>3, StageAdvanceStep, ReturnStep, FinishTaskStep DEF Run
<1>4. ASSUME NEW w \in Workers, LoseClaim(w) \/ AbortClaim(w) \/ LoseFinish(w) PROVE IInv'
  BY <1>4, LoseClaimStep, GiveUpStep, LoseFinishStep
<1>5. CASE Shutdown \/ ProcessExits \/ (\E w \in Workers : WorkerExits(w))
  BY <1>5, StopStep
<1>6. CASE Crash
  BY <1>6, CrashStep
<1>7. CASE Startup
  BY <1>7, InterruptStep, CancelStep, StartWorkersStep DEF Startup
<1>8. CASE UNCHANGED vars
  <2>1. TypeOK' /\ Holds' /\ HeldOnce' /\ LostRun' /\ Quiet'
    BY <1>8 DEF vars, IInv, TypeOK, Holds, HeldOnce, LostRun, Quiet, Serving, Is
  <2>2. LockedHosts'
    BY <1>8 DEF vars, IInv, LockedHosts, HostOfTask, RunningElsewhere, Is
  <2>3. QED
    BY <1>8, <2>1, <2>2, SameTable DEF vars, IInv
<1>9. QED
  BY <1>1, <1>2, <1>3, <1>4, <1>5, <1>6, <1>7, <1>8 DEF Next

\* The inductive invariant holds in every behaviour of the queue.
THEOREM Invariance == Spec => []IInv
<1>1. Init => IInv
  BY InitIInv
<1>2. IInv /\ [Next]_vars => IInv'
  BY NextIInv
<1>3. QED
  BY <1>1, <1>2, PTL DEF Spec

\* TypeOK: the table, the workers and their locks keep their types.
THEOREM TypeCorrect == Spec => []TypeOK
BY Invariance, PTL DEF IInv

\* HostExclusive: whatever the claim transactions of any number of workers
\* interleave to, no host runs two tasks.
THEOREM HostExclusion == Spec => []HostExclusive
BY Invariance, PTL DEF IInv

\* ExecutedOnce: through crashes, restarts and lost replies a row is handed to a
\* handler at most once, and no row is in two workers' hands.
THEOREM ExecutesOnce == Spec => []ExecutedOnce
<1>1. IInv => ExecutedOnce
  BY DEF IInv, Attempts, HeldOnce, ExecutedOnce
<1>2. QED
  BY <1>1, Invariance, PTL

--------------------------------------------------------------------------------
(* What the steps do to the rows of the tasks table, and what follows from it:  *)
(* the index on active resources holds, ended rows are final, retries are       *)
(* rooted, the queue implements TaskTable, and accepted cancellations are       *)
(* honored for every plan of stages.                                            *)

Active == {"queued", "running"}

(* The three ways a step can write the table. *)

\* The row an INSERT of a request writes: what it was asked to do, or what the
\* ended task it repeats was asked to do.
Fresh(row) ==
  /\ row \in Row
  /\ row.status = "queued" /\ row.stage = 0 /\ row.cancelable /\ ~row.cancelAsked
  /\ row.kind \in Supported
  /\ ~ActiveOn(row.resource)
  /\ \/ row.origin = 0
     \/ \E u \in TaskIds :
          /\ task[u].status \in Retryable
          /\ row.origin = RetryOrigin(u)
          /\ row.kind = task[u].kind /\ row.resource = task[u].resource

Enters(n) ==
  /\ ~Exists(n)
  /\ \A s \in TaskIds : s < n => Exists(s)
  /\ \E row : Fresh(row) /\ task' = [task EXCEPT ![n] = row]

SameRequest(t) ==
  /\ task'[t].kind = task[t].kind
  /\ task'[t].resource = task[t].resource
  /\ task'[t].origin = task[t].origin

\* An UPDATE of one row that has not ended.
Advances(t) ==
  /\ Exists(t) /\ SameRequest(t)
  /\ \A s \in TaskIds : s # t => task'[s] = task[s]
  /\ \/ Is(t, "queued") /\ task'[t].status = "canceled"
     \/ /\ Is(t, "queued") /\ task'[t].status = "running"
        /\ HostOfTask(t) # NoHost => ~RunningElsewhere(HostOfTask(t), t)
     \/ Is(t, "running") /\ task'[t].status \in {"running"} \cup Ended

TableStep ==
  \/ UNCHANGED task
  \/ \E n \in TaskIds : Enters(n)
  \/ \E t \in TaskIds : Advances(t)
  \/ InterruptRunningTasks

--------------------------------------------------------------------------------
(* Every step is one of them *)

LEMMA SubmitEnters ==
  ASSUME NEW r \in Resources, NEW k \in KindsOf[r], Submit(k, r)
  PROVE  \E n \in TaskIds : Enters(n)
<1> DEFINE row == NewRow(k, r, 0)
<1>1. PICK n \in TaskIds : /\ ~Exists(n) /\ \A s \in TaskIds : s < n => Exists(s)
                           /\ task' = [task EXCEPT ![n] = row]
  BY DEF Submit, Insert
<1>2. row \in Row
  BY NewRowType
<1>3. /\ row.status = "queued" /\ row.stage = 0 /\ row.cancelable /\ ~row.cancelAsked
      /\ row.kind = k /\ row.resource = r /\ row.origin = 0
  BY DEF NewRow
<1> HIDE DEF row
<1>4. Fresh(row)
  BY <1>2, <1>3 DEF Fresh, Submit
<1>5. QED
  BY <1>1, <1>4 DEF Enters

LEMMA RetryEnters ==
  ASSUME IInv, NEW t \in TaskIds, Retry(t)
  PROVE  \E n \in TaskIds : Enters(n)
<1> DEFINE row == NewRow(task[t].kind, task[t].resource, RetryOrigin(t))
<1>1. PICK n \in TaskIds : /\ ~Exists(n) /\ \A s \in TaskIds : s < n => Exists(s)
                           /\ task' = [task EXCEPT ![n] = row]
  BY DEF Retry, Insert
<1>2. task[t] \in Row
  BY ExistingRow DEF Retry, Retryable, Exists, IInv
<1>3. RetryOrigin(t) \in Nat
  BY <1>2 DEF Row, RetryOrigin, TaskIds
<1>4. row \in Row
  BY <1>2, <1>3 DEF Row, NewRow
<1>5. /\ row.status = "queued" /\ row.stage = 0 /\ row.cancelable /\ ~row.cancelAsked
      /\ row.kind = task[t].kind /\ row.resource = task[t].resource
      /\ row.origin = RetryOrigin(t)
  BY DEF NewRow
<1> HIDE DEF row
<1>6. Fresh(row)
  BY <1>4, <1>5 DEF Fresh, Retry
<1>7. QED
  BY <1>1, <1>6 DEF Enters

\* What an update leaves of the request in the row.
LEMMA RequestKept ==
  ASSUME NEW row \in Row, NEW result \in Ended
  PROVE  \A new \in {CanceledRow(row), ClaimedRow(row), FinishedRow(row, result)} :
           new.kind = row.kind /\ new.resource = row.resource /\ new.origin = row.origin
BY DEF Row, CanceledRow, ClaimedRow, FinishedRow

LEMMA CancelAdvances ==
  ASSUME IInv, NEW t \in TaskIds, CancelRequest(t) \/ RetireTask(t)
  PROVE  Advances(t)
<1>1. task[t].status \in Active /\ task' = [task EXCEPT ![t] = CanceledRow(task[t])]
  BY DEF CancelRequest, RetireTask, Cancel, Active
<1>2. task[t] \in Row /\ "failed" \in Ended
  BY <1>1, ExistingRow DEF Exists, IInv, Ended, Active
<1>3. task'[t] = CanceledRow(task[t]) /\ \A s \in TaskIds : s # t => task'[s] = task[s]
  BY <1>1 DEF IInv, TypeOK
<1>4. SameRequest(t)
  BY <1>2, <1>3, RequestKept DEF SameRequest
<1>5. QED
  BY <1>1, <1>2, <1>3, <1>4, RowFields DEF Advances, Active, Exists, Is

LEMMA ClaimAdvances ==
  ASSUME IInv, NEW w \in Workers, CommitClaim(w) \/ LoseClaim(w)
  PROVE  cur[w] \in TaskIds /\ Advances(cur[w])
<1>1. pc[w] = "checked" /\ task' = [task EXCEPT ![cur[w]] = ClaimedRow(task[cur[w]])]
  BY DEF CommitClaim, LoseClaim
<1>2. cur[w] \in TaskIds /\ Is(cur[w], "queued")
  BY <1>1 DEF IInv, Holds, Claiming
<1>3. task[cur[w]] \in Row /\ "failed" \in Ended
  BY <1>2, ExistingRow DEF Exists, Is, IInv, Ended
<1>4. /\ task'[cur[w]] = ClaimedRow(task[cur[w]])
      /\ \A s \in TaskIds : s # cur[w] => task'[s] = task[s]
  BY <1>1, <1>2 DEF IInv, TypeOK
<1>5. SameRequest(cur[w])
  BY <1>3, <1>4, RequestKept DEF SameRequest
<1>6. HostOfTask(cur[w]) # NoHost => ~RunningElsewhere(HostOfTask(cur[w]), cur[w])
  BY <1>1 DEF IInv, LockedHosts
<1>7. task'[cur[w]].status = "running"
  BY <1>3, <1>4, RowFields
<1>8. QED
  BY <1>2, <1>4, <1>5, <1>6, <1>7 DEF Advances, Exists, Is

LEMMA FinishAdvances ==
  ASSUME IInv, NEW w \in Workers, FinishTask(w)
  PROVE  cur[w] \in TaskIds /\ Advances(cur[w])
<1>1. pc[w] = "finishing" /\ task' = [task EXCEPT ![cur[w]] = FinishedRow(task[cur[w]], outcome[w])]
  BY DEF FinishTask
<1>2. cur[w] \in TaskIds /\ Is(cur[w], "running") /\ outcome[w] \in Ended
  BY <1>1 DEF IInv, Holds
<1>3. task[cur[w]] \in Row
  BY <1>2, ExistingRow DEF Exists, Is, IInv
<1>4. /\ task'[cur[w]] = FinishedRow(task[cur[w]], outcome[w])
      /\ \A s \in TaskIds : s # cur[w] => task'[s] = task[s]
  BY <1>1, <1>2 DEF IInv, TypeOK
<1>5. SameRequest(cur[w])
  BY <1>2, <1>3, <1>4, RequestKept DEF SameRequest
<1>6. task'[cur[w]].status = outcome[w]
  BY <1>2, <1>3, <1>4, RowFields
<1>7. QED
  BY <1>2, <1>4, <1>5, <1>6 DEF Advances, Exists, Is

LEMMA StageAdvances ==
  ASSUME IInv, NEW w \in Workers, StageAdvance(w)
  PROVE  cur[w] \in TaskIds /\ Advances(cur[w])
<1> DEFINE t == cur[w]
           next == task[t].stage + 1
           flag == StagePlan[task[t].kind][next]
<1>1. /\ pc[w] = "handler" /\ Is(t, "running")
      /\ task' = [task EXCEPT ![t].stage = next, ![t].cancelable = flag]
  BY DEF StageAdvance
<1>2. t \in TaskIds
  BY <1>1 DEF IInv, Holds
<1>3. task[t] \in Row
  BY <1>1, <1>2, ExistingRow DEF Exists, IInv, Is
<1> HIDE DEF t, next, flag
<1>4. task'[t] = [[task[t] EXCEPT !.stage = next] EXCEPT !.cancelable = flag]
  BY <1>1, <1>2 DEF IInv, TypeOK
<1>5. \A s \in TaskIds : s # t => task'[s] = task[s]
  BY <1>1, <1>2 DEF IInv, TypeOK
<1>6. SameRequest(t) /\ task'[t].status = task[t].status
  BY <1>3, <1>4 DEF Row, SameRequest
<1>7. t \in TaskIds /\ Advances(t)
  BY <1>1, <1>2, <1>5, <1>6 DEF Advances, Exists, Is
<1>8. QED
  BY <1>7 DEF t

LEMMA TableSteps ==
  ASSUME IInv, [Next]_vars
  PROVE  TableStep
<1>1. CASE Request
  BY <1>1, SubmitEnters, RetryEnters, CancelAdvances DEF Request, TableStep
<1>2. ASSUME NEW w \in Workers, Claim(w) \/ LoseClaim(w) PROVE TableStep
  BY <1>2, ClaimAdvances DEF Claim, TableStep, PickTask, LockHost, HostBusy, HostFree
<1>3. ASSUME NEW w \in Workers, Run(w) PROVE TableStep
  BY <1>3, StageAdvances, FinishAdvances
     DEF Run, TableStep, StageRefused, HandlerFails, HandlerStopped, HandlerSucceeds
<1>4. ASSUME NEW w \in Workers, AbortClaim(w) \/ LoseFinish(w) \/ WorkerExits(w) PROVE TableStep
  BY <1>4 DEF AbortClaim, LoseFinish, WorkerExits, TableStep
<1>5. CASE Shutdown \/ ProcessExits \/ Crash
  BY <1>5 DEF Shutdown, ProcessExits, Crash, TableStep
<1>6. CASE Startup
  BY <1>6, CancelAdvances DEF Startup, StartWorkers, TableStep
<1>7. CASE UNCHANGED vars
  BY <1>7 DEF vars, TableStep
<1>8. QED
  BY <1>1, <1>2, <1>3, <1>4, <1>5, <1>6, <1>7 DEF Next

--------------------------------------------------------------------------------
(* What a step leaves of the rows there are *)

\* An existing row keeps its request, an ended one keeps everything, and only a
\* row that has not ended can be active after the step.
LEMMA ExistingRowKept ==
  ASSUME IInv, TableStep, NEW t \in TaskIds, Exists(t)
  PROVE  /\ Exists(t)' /\ SameRequest(t)
         /\ task[t].status \in Ended => task'[t] = task[t]
         /\ task'[t].status \in Active => task[t].status \in Active
<1>1. CASE UNCHANGED task
  BY <1>1 DEF SameRequest, Exists, Active
<1>2. ASSUME NEW n \in TaskIds, Enters(n) PROVE task'[t] = task[t]
  BY <1>2 DEF Enters, IInv, TypeOK
<1>3. ASSUME NEW u \in TaskIds, Advances(u), u # t PROVE task'[t] = task[t]
  BY <1>3 DEF Advances
<1>4. CASE Advances(t)
  BY <1>4 DEF Advances, Active, Ended, Exists, Is
<1>5. CASE InterruptRunningTasks
  <2>1. CASE Is(t, "running")
    <3>1. task'[t] = [task[t] EXCEPT !.status = "interrupted", !.cancelable = FALSE]
      BY <1>5, <2>1 DEF InterruptRunningTasks
    <3>2. task[t] \in Row
      BY ExistingRow DEF IInv
    <3>3. QED
      BY <2>1, <3>1, <3>2 DEF Row, Is, Exists, SameRequest, Active, Ended
  <2>2. CASE ~Is(t, "running")
    BY <1>5, <2>2 DEF InterruptRunningTasks, Exists, SameRequest, Active
  <2>3. QED
    BY <2>1, <2>2
<1>6. task'[t] = task[t] => Exists(t)' /\ SameRequest(t) /\ (task'[t].status \in Active => task[t].status \in Active)
  BY DEF Exists, SameRequest
<1>7. QED
  BY <1>1, <1>2, <1>3, <1>4, <1>5, <1>6 DEF TableStep

\* A row that appears is the next one, it is fresh, and it appears alone.
LEMMA NewRowFresh ==
  ASSUME IInv, TableStep, NEW t \in TaskIds, ~Exists(t), Exists(t)'
  PROVE  /\ Fresh(task'[t])
         /\ \A s \in TaskIds : s < t => Exists(s)
         /\ \A s \in TaskIds : s # t => task'[s] = task[s]
<1>1. ~UNCHANGED task
  BY DEF Exists
<1>2. ASSUME NEW u \in TaskIds, Advances(u) PROVE FALSE
  BY <1>2 DEF Advances, Exists
<1>3. ~InterruptRunningTasks
  BY DEF InterruptRunningTasks, Exists, Is
<1>4. PICK n \in TaskIds : Enters(n)
  BY <1>1, <1>2, <1>3 DEF TableStep
<1>5. n = t
  BY <1>4 DEF Enters, IInv, TypeOK, Exists
<1>6. QED
  BY <1>4, <1>5 DEF Enters, IInv, TypeOK

--------------------------------------------------------------------------------
(* The table's own properties *)

\* Ids are handed out without gaps, so that an older row has a smaller id.
Dense == \A s, t \in TaskIds : s < t /\ Exists(t) => Exists(s)

TableInv == Dense /\ ResourceExclusive /\ LineageRooted

LEMMA TableInvInit ==
  ASSUME Init
  PROVE  TableInv
<1>1. Dense /\ ResourceExclusive
  BY DEF Init, Dense, ResourceExclusive, Exists
<1>2. \A t \in TaskIds : Exists(t) => task[t].origin = 0
  <2>1. \A row \in LegacyRow : row.origin = 0
    BY DEF LegacyRow
  <2>2. \A t \in TaskIds : Exists(t) => task[t] \in LegacyRow
    BY DEF Init, Exists, NoRow
  <2>3. QED
    BY <2>1, <2>2
<1>3. QED
  BY <1>1, <1>2 DEF TableInv, LineageRooted

LEMMA ResourceExclusiveStep ==
  ASSUME IInv, ResourceExclusive, TableStep
  PROVE  ResourceExclusive'
<1> SUFFICES ASSUME NEW s \in TaskIds, NEW t \in TaskIds, s # t,
                    task'[s].status \in Active, task'[t].status \in Active,
                    task'[s].resource = task'[t].resource
             PROVE  FALSE
  BY DEF ResourceExclusive, Active
<1>1. Exists(s)' /\ Exists(t)'
  BY DEF Exists, Active
<1>2. ASSUME NEW u \in TaskIds, NEW v \in TaskIds, u # v, ~Exists(u), Exists(u)',
             task'[v].status \in Active, task'[u].resource = task'[v].resource
      PROVE  FALSE
  <2>1. ~ActiveOn(task'[u].resource) /\ task'[v] = task[v]
    BY <1>2, NewRowFresh DEF Fresh
  <2>2. QED
    BY <1>2, <2>1 DEF ActiveOn, Active
<1>3. Exists(s) /\ Exists(t)
  BY <1>1, <1>2
<1>4. QED
  BY <1>3, ExistingRowKept DEF ResourceExclusive, Active, SameRequest

\* The first task of a chain has ended, so that no step rewrites it; a retry
\* of a retry names the same one.
LEMMA LineageRootedStep ==
  ASSUME IInv, Dense, LineageRooted, TableStep
  PROVE  LineageRooted'
<1> SUFFICES ASSUME NEW t \in TaskIds, Exists(t)', task'[t].origin # 0
             PROVE  /\ task'[t].origin < t
                    /\ task'[task'[t].origin].status \in Retryable
                    /\ task'[task'[t].origin].origin = 0
                    /\ task'[task'[t].origin].kind = task'[t].kind
                    /\ task'[task'[t].origin].resource = task'[t].resource
  BY DEF LineageRooted, Exists
<1>1. \A u \in TaskIds : task[u].status \in Retryable => Exists(u) /\ task'[u] = task[u]
  BY ExistingRowKept DEF Retryable, Ended, Exists
<1>2. \A u \in TaskIds : Exists(u) => task[u].origin \in Nat
  BY ExistingRow DEF IInv, Row
<1>3. CASE Exists(t)
  <2>1. SameRequest(t)
    BY <1>3, ExistingRowKept
  <2>2. /\ task[t].origin < t /\ task[t].origin \in Nat
        /\ task[task[t].origin].status \in Retryable
        /\ task[task[t].origin].origin = 0
        /\ task[task[t].origin].kind = task[t].kind
        /\ task[task[t].origin].resource = task[t].resource
    BY <1>2, <1>3, <2>1 DEF LineageRooted, SameRequest
  <2>3. task[t].origin \in TaskIds
    BY <2>1, <2>2, ConstantsOK DEF SameRequest, TaskIds, ConstantsOK
  <2>4. QED
    BY <1>1, <2>1, <2>2, <2>3 DEF SameRequest
<1>4. CASE ~Exists(t)
  <2>1. Fresh(task'[t])
    BY <1>4, NewRowFresh
  <2>2. PICK u \in TaskIds :
          /\ task[u].status \in Retryable
          /\ task'[t].origin = RetryOrigin(u)
          /\ task'[t].kind = task[u].kind /\ task'[t].resource = task[u].resource
    BY <2>1 DEF Fresh
  <2>3. Exists(u) /\ u < t
    BY <1>1, <1>4, <2>2 DEF Dense, TaskIds
  <2>4. CASE task[u].origin = 0
    BY <1>1, <2>2, <2>3, <2>4 DEF RetryOrigin
  <2>5. CASE task[u].origin # 0
    <3>1. /\ task[u].origin < u /\ task[u].origin \in Nat
          /\ task[task[u].origin].status \in Retryable
          /\ task[task[u].origin].origin = 0
          /\ task[task[u].origin].kind = task[u].kind
          /\ task[task[u].origin].resource = task[u].resource
      BY <1>2, <2>3, <2>5 DEF LineageRooted
    <3>2. task[u].origin \in TaskIds /\ task[u].origin < t
      BY <2>3, <2>5, <3>1, ConstantsOK DEF TaskIds, ConstantsOK
    <3>3. task'[t].origin = task[u].origin
      BY <2>2, <2>5 DEF RetryOrigin
    <3>4. QED
      BY <1>1, <2>2, <3>1, <3>2, <3>3
  <2>6. QED
    BY <2>4, <2>5
<1>5. QED
  BY <1>3, <1>4

LEMMA TableInvStep ==
  ASSUME IInv, TableInv, [Next]_vars
  PROVE  TableInv'
<1>1. TableStep
  BY TableSteps
<1>2. Dense'
  <2>1. \A t \in TaskIds : Exists(t) => Exists(t)'
    BY <1>1, ExistingRowKept
  <2>2. \A s, t \in TaskIds : s < t /\ ~Exists(t) /\ Exists(t)' => Exists(s)
    BY <1>1, NewRowFresh
  <2>3. QED
    BY <2>1, <2>2 DEF TableInv, Dense
<1>3. QED
  BY <1>1, <1>2, ResourceExclusiveStep, LineageRootedStep DEF TableInv

\* The index, the order of the ids and the lineages hold in every reachable
\* state; the lineages need the order of the ids.
THEOREM TableInvariance == Spec => []TableInv
<1>1. Init => TableInv
  BY TableInvInit
<1>2. IInv /\ TableInv /\ [Next]_vars => TableInv'
  BY TableInvStep
<1>3. QED
  BY <1>1, <1>2, Invariance, PTL DEF Spec

\* ResourceExclusive: the unique index is never violated, whichever of submit,
\* retry, claim and cancel race.
THEOREM ResourcesExclusive == Spec => []ResourceExclusive
BY TableInvariance, PTL DEF TableInv

\* LineageRooted: a retry names the first task of its chain, which ended
\* without success and asked for the same thing.
THEOREM LineagesRooted == Spec => []LineageRooted
BY TableInvariance, PTL DEF TableInv

\* EndedFinal: no step rewrites an ended row, although FinishTask updates by id.
THEOREM EndedStays == Spec => EndedFinal
<1>1. IInv /\ [Next]_vars
        => [\A t \in TaskIds : task[t].status \in Ended => task'[t] = task[t]]_vars
  <2>1. SUFFICES ASSUME IInv, [Next]_vars, NEW t \in TaskIds, task[t].status \in Ended
                 PROVE  task'[t] = task[t]
    OBVIOUS
  <2>2. TableStep /\ Exists(t)
    BY <2>1, TableSteps DEF Exists, Ended
  <2>3. QED
    BY <2>1, <2>2, ExistingRowKept
<1>2. QED
  BY <1>1, Invariance, PTL DEF Spec, EndedFinal

--------------------------------------------------------------------------------
(* The queue implements the abstract table *)

statusBar == [t \in TaskIds |-> task[t].status]
resourceBar == [t \in TaskIds |-> IF Exists(t) THEN task[t].resource ELSE NoHost]
hostBar == [t \in TaskIds |-> IF Exists(t) THEN HostOfTask(t) ELSE NoHost]

LEMMA InitMaps ==
  ASSUME Init
  PROVE  Table!TableInit
<1>1. TypeOK
  BY InitIInv DEF IInv
<1>2. \A t \in TaskIds : Exists(t) => task[t] \in Row
  BY <1>1, ExistingRow
<1>3. statusBar \in [TaskIds -> {"absent", "queued", "running"} \cup Ended]
  BY <1>2 DEF statusBar, Exists, Row
<1>4. resourceBar \in [TaskIds -> Resources \cup {NoHost}]
  BY <1>2 DEF resourceBar, Row
<1>5. hostBar \in [TaskIds -> Hosts \cup {NoHost}]
  BY <1>2, ConstantsOK DEF hostBar, HostOfTask, Row, ConstantsOK
<1>6. \A s, t \in TaskIds :
        /\ s # t /\ statusBar[s] = "running" /\ statusBar[t] = "running" /\ hostBar[s] # NoHost
        => hostBar[s] # hostBar[t]
  BY InitIInv DEF IInv, HostExclusive, Is, Exists, statusBar, hostBar
<1>7. QED
  BY <1>3, <1>4, <1>5, <1>6 DEF Table!TableInit, Table!Ended, Ended, statusBar, resourceBar, hostBar

\* An insert is Enter: the resource the index guards is the one that is not
\* active in the abstract table.
LEMMA EntersMaps ==
  ASSUME IInv, NEW n \in TaskIds, Enters(n)
  PROVE  \E r \in Resources, h \in Hosts \cup {NoHost} : Table!Enter(n, r, h)
<1>1. PICK row : Fresh(row) /\ task' = [task EXCEPT ![n] = row]
  BY DEF Enters
<1>2. ~Exists(n) /\ task'[n] = row /\ \A t \in TaskIds : t # n => task'[t] = task[t]
  BY <1>1 DEF Enters, IInv, TypeOK
<1>3. row.resource \in Resources /\ HostOf[row.resource] \in Hosts \cup {NoHost}
      /\ row.status = "queued"
  BY <1>1, ConstantsOK DEF Fresh, Row, ConstantsOK
<1>4. ~\E t \in TaskIds : resourceBar[t] = row.resource /\ statusBar[t] \in {"queued", "running"}
  BY <1>1 DEF Fresh, ActiveOn, resourceBar, statusBar, Exists
<1>5. statusBar[n] = "absent"
  BY <1>2 DEF statusBar, Exists
<1>6. statusBar' = [statusBar EXCEPT ![n] = "queued"]
  BY <1>2, <1>3 DEF statusBar
<1>7. resourceBar' = [resourceBar EXCEPT ![n] = row.resource]
  BY <1>2, <1>3 DEF resourceBar, Exists
<1>8. hostBar' = [hostBar EXCEPT ![n] = HostOf[row.resource]]
  BY <1>2, <1>3 DEF hostBar, Exists, HostOfTask
<1>9. Table!Enter(n, row.resource, HostOf[row.resource])
  BY <1>4, <1>5, <1>6, <1>7, <1>8
     DEF Table!Enter, Table!ActiveOn, statusBar, resourceBar, hostBar
<1>10. QED
  BY <1>3, <1>9

\* A step that keeps the requests of all rows leaves resources and hosts alone.
LEMMA RequestsMap ==
  ASSUME \A t \in TaskIds : Exists(t)' = Exists(t) /\ (Exists(t) => SameRequest(t))
  PROVE  UNCHANGED <<resourceBar, hostBar>>
BY DEF resourceBar, hostBar, HostOfTask, SameRequest

\* An update is Begin, Withdraw or End, or leaves the abstract table alone: a
\* Stage, or the request to cancel a running task.
LEMMA AdvancesMaps ==
  ASSUME IInv, NEW t \in TaskIds, Advances(t)
  PROVE  \/ Table!Begin(t) \/ Table!Withdraw(t)
         \/ \E result \in Ended : Table!End(t, result)
         \/ UNCHANGED <<statusBar, resourceBar, hostBar>>
<1>1. \A s \in TaskIds : s # t => task'[s] = task[s]
  BY DEF Advances
<1>2. Exists(t) /\ Exists(t)' /\ SameRequest(t)
  BY DEF Advances, Exists, Is, Ended
<1>3. UNCHANGED <<resourceBar, hostBar>>
  BY <1>1, <1>2, RequestsMap DEF SameRequest, Exists
<1>4. statusBar' = [statusBar EXCEPT ![t] = task'[t].status]
  BY <1>1 DEF statusBar
<1>5. statusBar[t] = task[t].status
  BY DEF statusBar
<1>6. CASE Is(t, "queued") /\ task'[t].status = "canceled"
  BY <1>3, <1>4, <1>5, <1>6 DEF Table!Withdraw, Is, statusBar, resourceBar, hostBar
<1>7. CASE /\ Is(t, "queued") /\ task'[t].status = "running"
           /\ HostOfTask(t) # NoHost => ~RunningElsewhere(HostOfTask(t), t)
  <2>1. hostBar[t] # NoHost =>
          ~\E s \in TaskIds : hostBar[s] = hostBar[t] /\ statusBar[s] = "running"
    BY <1>2, <1>7 DEF RunningElsewhere, Is, Exists, hostBar, statusBar
  <2>2. Table!Begin(t)
    BY <1>3, <1>4, <1>5, <1>7, <2>1
       DEF Table!Begin, Table!BusyHost, Is, statusBar, resourceBar, hostBar
  <2>3. QED
    BY <2>2
<1>8. CASE Is(t, "running") /\ task'[t].status \in Ended
  BY <1>3, <1>4, <1>5, <1>8 DEF Table!End, Is, statusBar, resourceBar, hostBar
<1>9. CASE Is(t, "running") /\ task'[t].status = "running"
  <2>1. statusBar' = statusBar
    BY <1>4, <1>5, <1>9 DEF Is, statusBar
  <2>2. QED
    BY <1>3, <2>1
<1>10. QED
  BY <1>6, <1>7, <1>8, <1>9 DEF Advances

LEMMA InterruptMaps ==
  ASSUME IInv, InterruptRunningTasks
  PROVE  Table!InterruptAll
<1>1. TableStep
  BY DEF TableStep
<1>2. \A t \in TaskIds : Exists(t)' = Exists(t) /\ (Exists(t) => SameRequest(t))
  BY <1>1, ExistingRowKept DEF InterruptRunningTasks, Exists, Is
<1>3. \A t \in TaskIds :
        task'[t].status = IF task[t].status = "running" THEN "interrupted" ELSE task[t].status
  <2>1. SUFFICES ASSUME NEW t \in TaskIds, Is(t, "running")
                 PROVE  task'[t].status = "interrupted"
    BY DEF InterruptRunningTasks, Is
  <2>2. task[t] \in Row
    BY <2>1, ExistingRow DEF IInv, Exists, Is
  <2>3. task'[t] = [task[t] EXCEPT !.status = "interrupted", !.cancelable = FALSE]
    BY <2>1 DEF InterruptRunningTasks
  <2>4. QED
    BY <2>2, <2>3 DEF Row
<1>4. UNCHANGED <<resourceBar, hostBar>>
  BY <1>2, RequestsMap
<1>5. QED
  BY <1>3, <1>4 DEF Table!InterruptAll, statusBar, resourceBar, hostBar

\* ImplementsTable: every step of the queue, each statement of a claim, each
\* lost reply and each restart included, is one step of the table that
\* everything else in the service relies on, or none.
THEOREM Implementation == Spec => ImplementsTable
<1>1. Init => Table!TableInit
  BY InitMaps
<1>2. IInv /\ [Next]_vars => [Table!TableNext]_(Table!tableVars)
  <2>1. SUFFICES ASSUME IInv, [Next]_vars
                 PROVE  Table!TableNext \/ UNCHANGED <<statusBar, resourceBar, hostBar>>
    BY DEF Table!tableVars, statusBar, resourceBar, hostBar
  <2>2. CASE UNCHANGED task
    BY <2>2 DEF statusBar, resourceBar, hostBar, Exists, HostOfTask
  <2>3. CASE \E n \in TaskIds : Enters(n)
    BY <2>1, <2>3, EntersMaps DEF Table!TableNext
  <2>4. CASE \E t \in TaskIds : Advances(t)
    BY <2>1, <2>4, AdvancesMaps DEF Table!TableNext, Table!Ended, Ended
  <2>5. CASE InterruptRunningTasks
    BY <2>1, <2>5, InterruptMaps DEF Table!TableNext
  <2>6. QED
    BY <2>1, <2>2, <2>3, <2>4, <2>5, TableSteps DEF TableStep
<1>3. QED
  BY <1>1, <1>2, Invariance, PTL DEF Spec, ImplementsTable, Table!TableSpec

--------------------------------------------------------------------------------
(* What the handlers may count on: running rows are in somebody's hands,     *)
(* retired kinds are gone before requests are served, and a cancellation     *)
(* that was accepted is honored although Cancel, Stage and the final write   *)
(* race.                                                                     *)
(* The inductive invariant, in named parts, above IInv and TableInv:         *)

\* Between the interruption of running tasks and the start of the workers
\* nothing runs.
NothingRecovers == phase = "recovering" => \A t \in TaskIds : ~Is(t, "running")

\* The window of a row that has not ended: it is open before the first Stage
\* and where the plan says so, and only an open window lets a cancellation in.
Open(row) == row.stage = 0 \/ StagePlan[row.kind][row.stage]

Window ==
  \A t \in TaskIds : task[t].status \in Active /\ task[t].kind \in Supported =>
    /\ task[t].cancelable => Open(task[t])
    /\ task[t].cancelAsked => Is(t, "running") /\ Open(task[t])

\* A handler that returned without an error has passed its last Stage, or had
\* nothing to do.
AtEnd(row) ==
  \/ row.stage = Len(StagePlan[row.kind])
  \/ row.kind \in Skippable /\ row.stage = 0

Succeeding ==
  \A w \in Workers : pc[w] = "finishing" /\ outcome[w] = "succeeded" => AtEnd(task[cur[w]])

HandlerInv ==
  /\ NothingRecovers
  /\ RetiredDrained
  /\ WorkerOwnsRunning
  /\ Window
  /\ Succeeding
  /\ CancelHonored

--------------------------------------------------------------------------------
(* Who writes an existing row *)

Claims(t) == \E w \in Workers : /\ cur[w] = t
                                /\ CommitClaim(w) \/ LoseClaim(w)
                                /\ Is(t, "queued")
                                /\ task'[t] = ClaimedRow(task[t])

Cancels(t) == /\ task[t].status \in Active /\ task[t].cancelable
              /\ task'[t] = CanceledRow(task[t])

Stages(t) == \E w \in Workers : cur[w] = t /\ StageAdvance(w)

Finishes(t) == \E w \in Workers : /\ cur[w] = t
                                  /\ FinishTask(w)
                                  /\ task'[t] = FinishedRow(task[t], outcome[w])

Interrupts(t) == /\ InterruptRunningTasks /\ Is(t, "running")
                 /\ task'[t] = [task[t] EXCEPT !.status = "interrupted", !.cancelable = FALSE]

RowStep(t) ==
  \/ task'[t] = task[t]
  \/ Claims(t) \/ Cancels(t) \/ Stages(t) \/ Finishes(t) \/ Interrupts(t)

LEMMA CancelRowStep ==
  ASSUME IInv, NEW u \in TaskIds, CancelRequest(u) \/ RetireTask(u), NEW t \in TaskIds
  PROVE  RowStep(t)
<1>1. /\ task[u].status \in Active /\ task[u].cancelable
      /\ task' = [task EXCEPT ![u] = CanceledRow(task[u])]
  BY DEF CancelRequest, RetireTask, Cancel, Active
<1>2. CASE t = u
  BY <1>1, <1>2 DEF IInv, TypeOK, RowStep, Cancels
<1>3. CASE t # u
  BY <1>1, <1>3 DEF IInv, TypeOK, RowStep
<1>4. QED
  BY <1>2, <1>3

LEMMA ClaimRowStep ==
  ASSUME IInv, NEW w \in Workers, CommitClaim(w) \/ LoseClaim(w), NEW t \in TaskIds
  PROVE  RowStep(t)
<1>1. pc[w] = "checked" /\ task' = [task EXCEPT ![cur[w]] = ClaimedRow(task[cur[w]])]
  BY DEF CommitClaim, LoseClaim
<1>2. cur[w] \in TaskIds /\ Is(cur[w], "queued")
  BY <1>1 DEF IInv, Holds, Claiming
<1>3. CASE t = cur[w]
  BY <1>1, <1>2, <1>3 DEF IInv, TypeOK, RowStep, Claims
<1>4. CASE t # cur[w]
  BY <1>1, <1>2, <1>4 DEF IInv, TypeOK, RowStep
<1>5. QED
  BY <1>3, <1>4

LEMMA RunRowStep ==
  ASSUME IInv, NEW w \in Workers, StageAdvance(w) \/ FinishTask(w), NEW t \in TaskIds
  PROVE  RowStep(t)
<1>1. pc[w] \in {"handler", "finishing"}
  BY DEF StageAdvance, FinishTask
<1>2. cur[w] \in TaskIds
  BY <1>1 DEF IInv, Holds
<1>3. \A s \in TaskIds : s # cur[w] => task'[s] = task[s]
  BY <1>2, StageAdvances, FinishAdvances DEF Advances
<1>4. CASE StageAdvance(w)
  BY <1>3, <1>4 DEF RowStep, Stages
<1>5. CASE FinishTask(w)
  <2>1. task'[cur[w]] = FinishedRow(task[cur[w]], outcome[w])
    BY <1>2, <1>5 DEF FinishTask, IInv, TypeOK
  <2>2. QED
    BY <1>3, <1>5, <2>1 DEF RowStep, Finishes
<1>6. QED
  BY <1>4, <1>5

LEMMA RowSteps ==
  ASSUME IInv, [Next]_vars, NEW t \in TaskIds, Exists(t)
  PROVE  RowStep(t)
<1>1. CASE Request
  <2>1. ASSUME NEW n \in TaskIds, Enters(n) PROVE RowStep(t)
    BY <2>1 DEF Enters, IInv, TypeOK, RowStep
  <2>2. QED
    BY <1>1, <2>1, SubmitEnters, RetryEnters, CancelRowStep DEF Request
<1>2. ASSUME NEW w \in Workers, Claim(w) \/ LoseClaim(w) PROVE RowStep(t)
  BY <1>2, ClaimRowStep DEF Claim, RowStep, PickTask, LockHost, HostBusy, HostFree
<1>3. ASSUME NEW w \in Workers, Run(w) PROVE RowStep(t)
  BY <1>3, RunRowStep
     DEF Run, RowStep, StageRefused, HandlerFails, HandlerStopped, HandlerSucceeds
<1>4. ASSUME NEW w \in Workers, AbortClaim(w) \/ LoseFinish(w) \/ WorkerExits(w) PROVE RowStep(t)
  BY <1>4 DEF AbortClaim, LoseFinish, WorkerExits, RowStep
<1>5. CASE Shutdown \/ ProcessExits \/ Crash
  BY <1>5 DEF Shutdown, ProcessExits, Crash, RowStep
<1>6. CASE InterruptRunningTasks
  BY <1>6 DEF InterruptRunningTasks, RowStep, Interrupts
<1>7. CASE StartWorkers \/ \E u \in TaskIds : RetireTask(u)
  BY <1>7, CancelRowStep DEF StartWorkers, RowStep
<1>8. CASE UNCHANGED vars
  BY <1>8 DEF vars, RowStep
<1>9. QED
  BY <1>1, <1>2, <1>3, <1>4, <1>5, <1>6, <1>7, <1>8 DEF Next, Startup

--------------------------------------------------------------------------------
(* What an update leaves of the fields of the window *)

LEMMA WindowFields ==
  ASSUME NEW row \in Row, NEW result \in Ended
  PROVE  /\ ClaimedRow(row).stage = 0 /\ ClaimedRow(row).kind = row.kind
         /\ ClaimedRow(row).cancelAsked = row.cancelAsked
         /\ CanceledRow(row).stage = row.stage /\ CanceledRow(row).kind = row.kind
         /\ row.status = "running" => CanceledRow(row).cancelable = row.cancelable
         /\ FinishedRow(row, result).stage = row.stage
         /\ FinishedRow(row, result).kind = row.kind
         /\ FinishedRow(row, result).cancelAsked = row.cancelAsked
BY DEF Row, ClaimedRow, CanceledRow, FinishedRow

LEMMA InterruptedField ==
  ASSUME NEW row \in Row
  PROVE  [row EXCEPT !.status = "interrupted", !.cancelable = FALSE].status # "succeeded"
BY DEF Row

\* A Stage advances by one to a stage of the plan, writes that stage's flag, and
\* is only taken while no cancellation is pending.
LEMMA StageFields ==
  ASSUME IInv, NEW w \in Workers, StageAdvance(w)
  PROVE  LET t == cur[w]
             next == task[t].stage + 1
         IN /\ t \in TaskIds /\ Is(t, "running") /\ task'[t].status = "running"
            /\ next \in 1..Len(StagePlan[task[t].kind])
            /\ task'[t].stage = next /\ task'[t].kind = task[t].kind
            /\ task'[t].cancelable = StagePlan[task[t].kind][next]
            /\ ~task'[t].cancelAsked
<1> DEFINE t == cur[w]
           next == task[t].stage + 1
           flag == StagePlan[task[t].kind][next]
<1>1. /\ pc[w] = "handler" /\ Is(t, "running") /\ ~task[t].cancelAsked
      /\ next <= Len(StagePlan[task[t].kind])
      /\ task' = [task EXCEPT ![t].stage = next, ![t].cancelable = flag]
  BY DEF StageAdvance
<1>2. t \in TaskIds
  BY <1>1 DEF IInv, Holds
<1>3. task[t] \in Row
  BY <1>1, <1>2, ExistingRow DEF Exists, IInv, Is
<1>4. next \in Nat /\ next > 0 /\ Len(StagePlan[task[t].kind]) \in Nat
  BY <1>3, ConstantsOK DEF Row, ConstantsOK
<1>5. next \in 1..Len(StagePlan[task[t].kind])
  BY <1>1, <1>4
<1> HIDE DEF t, next, flag
<1>6. task'[t] = [[task[t] EXCEPT !.stage = next] EXCEPT !.cancelable = flag]
  BY <1>1, <1>2 DEF IInv, TypeOK
<1>7. /\ task'[t].status = task[t].status /\ task'[t].kind = task[t].kind
      /\ task'[t].stage = next /\ task'[t].cancelable = flag
      /\ task'[t].cancelAsked = task[t].cancelAsked
  BY <1>3, <1>6 DEF Row
<1>8. QED
  BY <1>1, <1>2, <1>5, <1>7 DEF t, next, flag, Is

--------------------------------------------------------------------------------
(* The running rows and their owners *)

LEMMA OnlyClaimsStart ==
  ASSUME IInv, [Next]_vars, NEW t \in TaskIds, ~Is(t, "running"), Is(t, "running")'
  PROVE  Claims(t)
<1>1. Exists(t)
  <2>1. SUFFICES ASSUME ~Exists(t) PROVE FALSE
    OBVIOUS
  <2>2. Fresh(task'[t])
    BY <2>1, TableSteps, NewRowFresh DEF Exists, Is
  <2>3. QED
    BY <2>2 DEF Fresh, Is
<1>2. RowStep(t)
  BY <1>1, RowSteps
<1>3. task[t] \in Row /\ "failed" \in Ended
  BY <1>1, ExistingRow DEF IInv, Ended
<1>4. ~Cancels(t)
  BY <1>3, RowFields DEF Cancels, Is
<1>5. ~Stages(t)
  BY StageFields DEF Stages
<1>6. ~Finishes(t)
  BY DEF Finishes, FinishTask, IInv, Holds
<1>7. QED
  BY <1>2, <1>4, <1>5, <1>6 DEF RowStep, Interrupts, Is

\* Only the start of the workers makes a process serve that did not, and only
\* the interruption of running tasks begins a recovery.
LEMMA PhaseSteps ==
  ASSUME IInv, [Next]_vars
  PROVE  /\ Serving' => Serving \/ StartWorkers
         /\ phase' = "recovering" => phase = "recovering" \/ InterruptRunningTasks
<1>1. CASE Request
  BY <1>1 DEF Request, Submit, Retry, CancelRequest, Serving
<1>2. ASSUME NEW w \in Workers,
             Claim(w) \/ Run(w) \/ WorkerExits(w) \/ LoseClaim(w) \/ AbortClaim(w) \/ LoseFinish(w)
      PROVE  UNCHANGED phase
  BY <1>2 DEF Claim, PickTask, LockHost, HostBusy, HostFree, CommitClaim, Run, StageAdvance,
              StageRefused, HandlerSucceeds, HandlerFails, HandlerStopped, FinishTask,
              WorkerExits, LoseClaim, AbortClaim, LoseFinish
<1>3. CASE Shutdown \/ ProcessExits \/ Crash
  BY <1>3 DEF Shutdown, ProcessExits, Crash, Serving
<1>4. CASE Startup
  BY <1>4 DEF Startup, InterruptRunningTasks, RetireTask, StartWorkers, Serving
<1>5. CASE UNCHANGED vars
  BY <1>5 DEF vars, Serving
<1>6. QED
  BY <1>1, <1>2, <1>3, <1>4, <1>5 DEF Next, Serving

LEMMA NothingRecoversStep ==
  ASSUME IInv, NothingRecovers, [Next]_vars
  PROVE  NothingRecovers'
<1> SUFFICES ASSUME phase' = "recovering", NEW t \in TaskIds, Is(t, "running")'
             PROVE  FALSE
  BY DEF NothingRecovers
<1>1. CASE InterruptRunningTasks
  <2>1. CASE Is(t, "running")
    <3>1. task[t] \in Row
      BY <2>1, ExistingRow DEF IInv, Exists, Is
    <3>2. task'[t] = [task[t] EXCEPT !.status = "interrupted", !.cancelable = FALSE]
      BY <1>1, <2>1 DEF InterruptRunningTasks
    <3>3. QED
      BY <3>1, <3>2 DEF Row, Is
  <2>2. QED
    BY <1>1, <2>1, OnlyClaimsStart DEF Claims, InterruptRunningTasks, CommitClaim, LoseClaim
<1>2. CASE phase = "recovering"
  <2>1. Claims(t)
    BY <1>2, OnlyClaimsStart DEF NothingRecovers
  <2>2. QED
    BY <1>2, <2>1 DEF Claims, CommitClaim, LoseClaim, IInv, Quiet, Serving
<1>3. QED
  BY <1>1, <1>2, PhaseSteps

LEMMA RetiredDrainedStep ==
  ASSUME IInv, NothingRecovers, RetiredDrained, [Next]_vars
  PROVE  RetiredDrained'
<1> SUFFICES ASSUME Serving', NEW t \in TaskIds, task'[t].status \in Active
             PROVE  task'[t].kind \in Supported
  BY DEF RetiredDrained, Active
<1>1. TableStep
  BY TableSteps
<1>2. CASE ~Exists(t)
  BY <1>1, <1>2, NewRowFresh DEF Fresh, Exists, Active
<1>3. CASE Exists(t)
  <2>1. task[t].status \in Active /\ task'[t].kind = task[t].kind
    BY <1>1, <1>3, ExistingRowKept DEF SameRequest
  <2>2. CASE Serving
    BY <2>1, <2>2 DEF RetiredDrained, Active
  <2>3. CASE StartWorkers
    BY <2>1, <2>3 DEF StartWorkers, NothingRecovers, Active, Is
  <2>4. QED
    BY <2>2, <2>3, PhaseSteps
<1>4. QED
  BY <1>2, <1>3

\* The hand that holds a running row keeps it until it writes the row's end or
\* loses that write.
LEMMA OwnerKeeps ==
  ASSUME IInv, [Next]_vars, Serving, Serving', NEW w \in Workers,
         pc[w] \in {"handler", "finishing"}
  PROVE  \/ pc'[w] \in {"handler", "finishing"} /\ cur'[w] = cur[w]
         \/ FinishTask(w) \/ LoseFinish(w)
<1>1. CASE Request
  BY <1>1 DEF Request, Submit, Retry, CancelRequest
<1>2. ASSUME NEW v \in Workers, Claim(v) \/ LoseClaim(v) \/ AbortClaim(v) \/ WorkerExits(v)
      PROVE  pc'[w] = pc[w] /\ cur'[w] = cur[w]
  <2>1. v # w
    BY <1>2 DEF Claim, PickTask, LockHost, HostBusy, HostFree, CommitClaim, LoseClaim,
                AbortClaim, WorkerExits, Claiming
  <2>2. QED
    BY <1>2, <2>1 DEF Claim, PickTask, LockHost, HostBusy, HostFree, CommitClaim, LoseClaim,
                      AbortClaim, WorkerExits, Leave, IInv, TypeOK
<1>3. ASSUME NEW v \in Workers, v # w, FinishTask(v) \/ LoseFinish(v)
      PROVE  pc'[w] = pc[w] /\ cur'[w] = cur[w]
  BY <1>3 DEF FinishTask, LoseFinish, Leave, IInv, TypeOK
<1>4. ASSUME NEW v \in Workers, StageAdvance(v) \/ StageRefused(v) \/ HandlerSucceeds(v)
                                \/ HandlerFails(v) \/ HandlerStopped(v)
      PROVE  pc'[w] \in {"handler", "finishing"} /\ cur'[w] = cur[w]
  BY <1>4 DEF StageAdvance, StageRefused, HandlerSucceeds, HandlerFails, HandlerStopped,
              Return, IInv, TypeOK
<1>5. CASE Shutdown \/ ProcessExits \/ Crash
  BY <1>5 DEF Shutdown, ProcessExits, Crash, Serving
<1>6. CASE Startup
  BY <1>6 DEF Startup, InterruptRunningTasks, RetireTask, StartWorkers, Serving
<1>7. CASE UNCHANGED vars
  BY <1>7, SMTT(40) DEF vars
<1>8. QED
  BY <1>1, <1>2, <1>3, <1>4, <1>5, <1>6, <1>7 DEF Next, Run

LEMMA LostKept ==
  ASSUME IInv, [Next]_vars, Serving
  PROVE  lost \subseteq lost'
BY DEF Next, vars, Request, Submit, Retry, CancelRequest, Claim, Run, PickTask, LockHost,
       HostBusy, HostFree, CommitClaim, StageAdvance, StageRefused, HandlerSucceeds,
       HandlerFails, HandlerStopped, FinishTask, WorkerExits, LoseClaim, AbortClaim, LoseFinish,
       Shutdown, ProcessExits, Crash, Startup, RetireTask, StartWorkers, InterruptRunningTasks,
       Serving

LEMMA WorkerOwnsRunningStep ==
  ASSUME IInv, NothingRecovers, WorkerOwnsRunning, [Next]_vars
  PROVE  WorkerOwnsRunning'
<1> SUFFICES ASSUME Serving', NEW t \in TaskIds, Is(t, "running")'
             PROVE  \/ t \in lost'
                    \/ \E w \in Workers : pc'[w] \in {"handler", "finishing"} /\ cur'[w] = t
  BY DEF WorkerOwnsRunning
<1>1. CASE ~Is(t, "running")
  <2>1. PICK w \in Workers : cur[w] = t /\ (CommitClaim(w) \/ LoseClaim(w))
    BY <1>1, OnlyClaimsStart DEF Claims
  <2>2. QED
    BY <2>1 DEF CommitClaim, LoseClaim, IInv, TypeOK
<1>2. CASE Is(t, "running") /\ StartWorkers
  BY <1>2 DEF StartWorkers, NothingRecovers
<1>3. CASE Is(t, "running") /\ Serving
  <2>1. CASE t \in lost
    BY <1>3, <2>1, LostKept
  <2>2. ASSUME NEW w \in Workers, pc[w] \in {"handler", "finishing"}, cur[w] = t
        PROVE  t \in lost' \/ (pc'[w] \in {"handler", "finishing"} /\ cur'[w] = t)
    <3>1. CASE FinishTask(w)
      <4>1. task[t] \in Row /\ outcome[w] \in Ended
        BY <1>3, <3>1, ExistingRow DEF FinishTask, IInv, Holds, Exists, Is
      <4>2. task'[t].status = outcome[w]
        BY <2>2, <3>1, <4>1, RowFields DEF FinishTask, IInv, TypeOK
      <4>3. QED
        BY <4>1, <4>2 DEF Ended, Is
    <3>2. CASE LoseFinish(w)
      BY <2>2, <3>2 DEF LoseFinish
    <3>3. QED
      BY <1>3, <2>2, <3>1, <3>2, OwnerKeeps
  <2>3. QED
    BY <1>3, <2>1, <2>2 DEF WorkerOwnsRunning
<1>4. QED
  BY <1>1, <1>2, <1>3, PhaseSteps

--------------------------------------------------------------------------------
(* The cancellation window *)

LEMMA WindowStep ==
  ASSUME IInv, Window, [Next]_vars
  PROVE  Window'
<1> SUFFICES ASSUME NEW t \in TaskIds, task'[t].status \in Active, task'[t].kind \in Supported
             PROVE  /\ task'[t].cancelable => Open(task'[t])
                    /\ task'[t].cancelAsked => task'[t].status = "running" /\ Open(task'[t])
  BY DEF Window, Is, Open
<1>1. TableStep
  BY TableSteps
<1>2. CASE ~Exists(t)
  BY <1>1, <1>2, NewRowFresh DEF Fresh, Open, Exists, Active
<1>3. CASE Exists(t)
  <2>1. task[t].status \in Active /\ task'[t].kind = task[t].kind /\ task[t] \in Row
    BY <1>1, <1>3, ExistingRowKept, ExistingRow DEF SameRequest, IInv
  <2>2. /\ task[t].cancelable => Open(task[t])
        /\ task[t].cancelAsked => Is(t, "running") /\ Open(task[t])
    BY <2>1 DEF Window
  <2>3. "failed" \in Ended
    BY DEF Ended
  <2>4. CASE task'[t] = task[t]
    BY <2>2, <2>4 DEF Open, Is
  <2>5. CASE Claims(t)
    <3>1. task'[t].stage = 0 /\ task'[t].cancelAsked = task[t].cancelAsked /\ Is(t, "queued")
      BY <2>1, <2>3, <2>5, WindowFields DEF Claims
    <3>2. Open(task'[t]) /\ ~task[t].cancelAsked
      BY <2>2, <3>1 DEF Open, Is
    <3>3. QED
      BY <3>1, <3>2
  <2>6. CASE Cancels(t)
    <3>1. Is(t, "running") /\ task'[t].status = "running"
      BY <2>1, <2>3, <2>6, RowFields DEF Cancels, Active, Is
    <3>2. Open(task[t])
      BY <2>2, <2>6 DEF Cancels
    <3>3. task'[t].stage = task[t].stage
      BY <2>1, <2>3, <2>6, WindowFields DEF Cancels
    <3>4. Open(task'[t])
      BY <2>1, <3>2, <3>3 DEF Open
    <3>5. QED
      BY <3>1, <3>4
  <2>7. CASE Stages(t)
    <3>1. PICK w \in Workers : cur[w] = t /\ StageAdvance(w)
      BY <2>7 DEF Stages
    <3>2. /\ task'[t].cancelable = StagePlan[task'[t].kind][task'[t].stage]
          /\ ~task'[t].cancelAsked
      BY <2>1, <3>1, StageFields
    <3>3. QED
      BY <3>2 DEF Open
  <2>8. CASE Finishes(t)
    BY <1>1, <2>1, <2>8, RowFields DEF Finishes, FinishTask, IInv, Holds, Active, Ended
  <2>9. CASE Interrupts(t)
    BY <2>1, <2>9 DEF Interrupts, Row, Active
  <2>10. RowStep(t)
    BY <1>3, RowSteps
  <2>11. QED
    BY <2>4, <2>5, <2>6, <2>7, <2>8, <2>9, <2>10 DEF RowStep
<1>4. QED
  BY <1>2, <1>3

\* A worker comes to its final write by its handler's return, and waits there
\* with the outcome it got.
LEMMA FinishingSteps ==
  ASSUME IInv, [Next]_vars, NEW w \in Workers,
         pc'[w] = "finishing", outcome'[w] = "succeeded"
  PROVE  \/ HandlerSucceeds(w)
         \/ pc[w] = "finishing" /\ outcome[w] = "succeeded" /\ cur'[w] = cur[w] /\ ~FinishTask(w)
<1>1. ASSUME Request
      PROVE  pc[w] = "finishing" /\ outcome[w] = "succeeded" /\ cur'[w] = cur[w]
  BY <1>1 DEF Request, Submit, Retry, CancelRequest
<1>2. ASSUME NEW v \in Workers, Claim(v) \/ LoseClaim(v) \/ AbortClaim(v) \/ WorkerExits(v)
                                \/ LoseFinish(v) \/ FinishTask(v)
      PROVE  /\ pc[w] = "finishing" /\ outcome[w] = "succeeded" /\ cur'[w] = cur[w]
             /\ v # w
  <2>1. pc'[v] # "finishing"
    BY <1>2 DEF Claim, PickTask, LockHost, HostBusy, HostFree, CommitClaim, LoseClaim,
                AbortClaim, WorkerExits, LoseFinish, FinishTask, Leave, IInv, TypeOK
  <2>2. v # w
    BY <2>1
  <2>3. QED
    BY <1>2, <2>2 DEF Claim, PickTask, LockHost, HostBusy, HostFree, CommitClaim, LoseClaim,
                      AbortClaim, WorkerExits, LoseFinish, FinishTask, Leave, IInv, TypeOK
<1>3. ASSUME NEW v \in Workers, StageRefused(v) \/ HandlerFails(v) \/ HandlerStopped(v)
      PROVE  pc[w] = "finishing" /\ outcome[w] = "succeeded" /\ cur'[w] = cur[w]
  <2>1. outcome'[v] # "succeeded"
    BY <1>3 DEF StageRefused, HandlerFails, HandlerStopped, Return, IInv, TypeOK
  <2>2. v # w
    BY <2>1
  <2>3. QED
    BY <1>3, <2>2 DEF StageRefused, HandlerFails, HandlerStopped, Return, IInv, TypeOK
<1>4. ASSUME NEW v \in Workers, v # w, HandlerSucceeds(v)
      PROVE  pc[w] = "finishing" /\ outcome[w] = "succeeded" /\ cur'[w] = cur[w]
  BY <1>4 DEF HandlerSucceeds, Return, IInv, TypeOK
<1>5. ASSUME NEW v \in Workers, StageAdvance(v)
      PROVE  pc[w] = "finishing" /\ outcome[w] = "succeeded" /\ cur'[w] = cur[w]
  BY <1>5 DEF StageAdvance
<1>6. ASSUME Shutdown \/ ProcessExits \/ Crash
      PROVE  pc[w] = "finishing" /\ outcome[w] = "succeeded" /\ cur'[w] = cur[w]
  BY <1>6 DEF Shutdown, ProcessExits, Crash
<1>7. ASSUME Startup
      PROVE  pc[w] = "finishing" /\ outcome[w] = "succeeded" /\ cur'[w] = cur[w]
  BY <1>7 DEF Startup, InterruptRunningTasks, RetireTask, StartWorkers
<1>8. ASSUME UNCHANGED vars
      PROVE  pc[w] = "finishing" /\ outcome[w] = "succeeded" /\ cur'[w] = cur[w]
  BY <1>8 DEF vars
<1>9. FinishTask(w) => pc'[w] = "idle"
  BY DEF FinishTask, Leave, IInv, TypeOK
<1>10. QED
  BY <1>1, <1>2, <1>3, <1>4, <1>5, <1>6, <1>7, <1>8, <1>9 DEF Next, Run

LEMMA SucceedingStep ==
  ASSUME IInv, Succeeding, [Next]_vars
  PROVE  Succeeding'
<1> SUFFICES ASSUME NEW w \in Workers, pc'[w] = "finishing", outcome'[w] = "succeeded"
             PROVE  AtEnd(task'[cur'[w]])
  BY DEF Succeeding, AtEnd
<1>1. CASE HandlerSucceeds(w)
  BY <1>1 DEF HandlerSucceeds, AtEnd
<1>2. CASE /\ pc[w] = "finishing" /\ outcome[w] = "succeeded"
           /\ cur'[w] = cur[w] /\ ~FinishTask(w)
  <2> DEFINE t == cur[w]
  <2>1. t \in TaskIds /\ Is(t, "running")
    BY <1>2 DEF IInv, Holds
  <2>2. task[t] \in Row /\ "failed" \in Ended
    BY <2>1, ExistingRow DEF IInv, Exists, Is, Ended
  <2>3. \A v \in Workers : cur[v] = t => v = w
    BY <2>1, SMTT(40) DEF IInv, HeldOnce, TaskIds
  <2>4. ~Claims(t) /\ ~Stages(t) /\ ~Finishes(t) /\ ~Interrupts(t)
    BY <1>2, <2>1, <2>3
       DEF Claims, Stages, StageAdvance, Finishes, Interrupts, InterruptRunningTasks,
           IInv, Quiet, Serving, Is
  <2>5. task'[t] = task[t] \/ Cancels(t)
    BY <2>1, <2>4, RowSteps DEF RowStep, Exists, Is
  <2>6. task'[t].stage = task[t].stage /\ task'[t].kind = task[t].kind
    BY <2>2, <2>5, WindowFields DEF Cancels
  <2>7. QED
    BY <1>2, <2>6 DEF Succeeding, AtEnd
<1>3. QED
  BY <1>1, <1>2, FinishingSteps

\* The final write is the only one that makes a task succeed.  Where a
\* cancellation is pending the window is open, and at the last Stage it is not.
LEMMA CancelHonoredStep ==
  ASSUME IInv, RetiredDrained, Window, Succeeding, CancelHonored, [Next]_vars
  PROVE  CancelHonored'
<1> SUFFICES ASSUME NEW t \in TaskIds, task'[t].status = "succeeded", task'[t].cancelAsked
             PROVE  task'[t].kind \in Skippable /\ task'[t].stage = 0
  BY DEF CancelHonored, Is
<1>1. TableStep
  BY TableSteps
<1>2. Exists(t)
  <2>1. SUFFICES ASSUME ~Exists(t) PROVE FALSE
    OBVIOUS
  <2>2. QED
    BY <1>1, <2>1, NewRowFresh DEF Fresh, Exists
<1>3. task[t] \in Row /\ "failed" \in Ended
  BY <1>2, ExistingRow DEF IInv, Ended
<1>4. CASE task'[t] = task[t]
  BY <1>4 DEF CancelHonored, Is
<1>5. ~Claims(t) /\ ~Cancels(t) /\ ~Stages(t) /\ ~Interrupts(t)
  <2>1. ~Claims(t)
    BY <1>3, RowFields DEF Claims
  <2>2. ~Cancels(t)
    BY <1>3, RowFields DEF Cancels
  <2>3. ~Stages(t)
    BY StageFields DEF Stages
  <2>4. ~Interrupts(t)
    BY <1>3, InterruptedField, Zenon DEF Interrupts
  <2>5. QED
    BY <2>1, <2>2, <2>3, <2>4
<1>6. CASE Finishes(t)
  <2>1. PICK w \in Workers : /\ cur[w] = t
                             /\ FinishTask(w)
                             /\ task'[t] = FinishedRow(task[t], outcome[w])
    BY <1>6 DEF Finishes
  <2>2. pc[w] = "finishing" /\ outcome[w] \in Ended /\ Is(t, "running") /\ Serving
    BY <2>1 DEF FinishTask, IInv, Holds, Quiet
  <2>3. /\ outcome[w] = "succeeded"
        /\ task'[t].kind = task[t].kind /\ task'[t].stage = task[t].stage
        /\ task[t].cancelAsked
    <3>1. task'[t].status = outcome[w]
      BY <1>3, <2>1, <2>2, RowFields
    <3>2. task'[t].kind = task[t].kind /\ task'[t].stage = task[t].stage
      BY <1>3, <2>1, <2>2, WindowFields
    <3>3. FinishedRow(task[t], outcome[w]).cancelAsked = task[t].cancelAsked
      BY <1>3, <2>2, WindowFields, Zenon
    <3>4. task[t].cancelAsked
      BY <2>1, <3>3, Zenon
    <3>5. QED
      BY <3>1, <3>2, <3>4
  <2>4. AtEnd(task[t])
    BY <2>1, <2>2, <2>3 DEF Succeeding
  <2>5. task[t].kind \in Supported
    BY <2>2 DEF RetiredDrained, Is
  <2>6. Open(task[t])
    BY <2>2, <2>3, <2>5 DEF Window, Active, Is
  <2>7. task[t].stage # Len(StagePlan[task[t].kind])
    BY <2>5, <2>6, PlansEndSealed DEF Open
  <2>8. QED
    BY <2>3, <2>4, <2>7 DEF AtEnd
<1>7. QED
  BY <1>2, <1>4, <1>5, <1>6, RowSteps DEF RowStep

--------------------------------------------------------------------------------
(* Theorems *)

LEMMA HandlerInvInit ==
  ASSUME Init
  PROVE  HandlerInv
<1>1. NothingRecovers /\ RetiredDrained /\ WorkerOwnsRunning /\ Succeeding
  BY DEF Init, NothingRecovers, RetiredDrained, WorkerOwnsRunning, Succeeding, Serving
<1>2. \A t \in TaskIds : Exists(t) => task[t].kind \notin Supported
                                      /\ task[t].status \in {"queued", "running"}
  <2>1. \A row \in LegacyRow : row.kind \notin Supported /\ row.status \in {"queued", "running"}
    BY DEF LegacyRow
  <2>2. \A t \in TaskIds : Exists(t) => task[t] \in LegacyRow
    BY DEF Init, Exists, NoRow
  <2>3. QED
    BY <2>1, <2>2
<1>3. Window /\ CancelHonored
  BY <1>2 DEF Window, CancelHonored, Active, Exists, Is
<1>4. QED
  BY <1>1, <1>3 DEF HandlerInv

LEMMA HandlerInvStep ==
  ASSUME IInv, HandlerInv, [Next]_vars
  PROVE  HandlerInv'
BY NothingRecoversStep, RetiredDrainedStep, WorkerOwnsRunningStep, WindowStep, SucceedingStep,
   CancelHonoredStep DEF HandlerInv

\* What the handlers count on holds in every reachable state.
THEOREM HandlerInvariance == Spec => []HandlerInv
<1>1. Init => HandlerInv
  BY HandlerInvInit
<1>2. IInv /\ HandlerInv /\ [Next]_vars => HandlerInv'
  BY HandlerInvStep
<1>3. QED
  BY <1>1, <1>2, Invariance, PTL DEF Spec

\* RetiredDrained: however often a startup is cut short, no task of a retired
\* kind is queued or running when requests are served.
THEOREM RetiredGone == Spec => []RetiredDrained
BY HandlerInvariance, PTL DEF HandlerInv

\* WorkerOwnsRunning: a row that runs is in the hands of a worker, or of a lost
\* database call.
THEOREM RunningOwned == Spec => []WorkerOwnsRunning
BY HandlerInvariance, PTL DEF HandlerInv

\* SealedStage: past a Stage that closed the window no cancellation is pending.
THEOREM StagesSealed == Spec => []SealedStage
<1>1. IInv /\ HandlerInv => SealedStage
  <2>1. SUFFICES ASSUME IInv, HandlerInv, NEW w \in Workers, pc[w] = "handler",
                        task[cur[w]].cancelAsked
                 PROVE  Open(task[cur[w]])
    BY DEF SealedStage, Open
  <2>2. cur[w] \in TaskIds /\ Is(cur[w], "running") /\ Serving
    BY <2>1 DEF IInv, Holds, Quiet
  <2>3. task[cur[w]].kind \in Supported
    BY <2>1, <2>2 DEF HandlerInv, RetiredDrained, Is
  <2>4. QED
    BY <2>1, <2>2, <2>3 DEF HandlerInv, Window, Active, Is
<1>2. QED
  BY <1>1, Invariance, HandlerInvariance, PTL

\* CancelHonored: a task whose cancellation was accepted does not succeed,
\* unless its handler had nothing to do.
THEOREM CancellationsHonored == Spec => []CancelHonored
BY HandlerInvariance, PTL DEF HandlerInv
================================================================================
