--------------------------- MODULE RetryRequestProofs ---------------------------
(* Proofs about RetryRequest for every number of tasks, requests and resources, *)
(* every list limit and every difference between the clocks: the type           *)
(* invariant, and that the panel recognises the task its own request created    *)
(* as long as the clocks differ by no more than the tolerance.                  *)
(*                                                                            *)
(* That is not inductive: the panel keeps a list that was read once, and       *)
(* compares what the list names with the rows as they are. What carries it is  *)
(* that rows are only added, behind the last one, and keep their resource,     *)
(* operation and time of creation; and that a row is created for a request     *)
(* after the request was sent.                                                *)
EXTENDS RetryRequest, FiniteSetTheorems, TLAPS

(* The ids in use are the first ones. *)
DenseUpTo(n) == \A t \in Ids : Exists(t) <=> t <= n
Dense == \E n \in 0 .. MaxTasks : DenseUpTo(n)

(* A request was sent in the past, and what it made is a successor of its task *)
(* created since.                                                              *)
Sent(q) == q.server # "idle" => q.task \in Ids /\ q.at <= now + Skew
MadeSince(q) ==
    q.made # 0 =>
      /\ q.task \in Ids /\ Exists(q.task) /\ Exists(q.made) /\ q.made # q.task
      /\ rows[q.made].res = rows[q.task].res /\ rows[q.made].op = rows[q.task].op
      /\ rows[q.made].at >= q.at - Skew

RequestInv == \A r \in Reqs : Sent(req[r]) /\ MadeSince(req[r])
IInv == TypeOK /\ Dense /\ RequestInv

--------------------------------------------------------------------------------
(* Where the first n ids are in use, n tasks there are. *)
LEMMA CountDense ==
    ASSUME TypeOK, NEW n \in 0 .. MaxTasks, DenseUpTo(n)
    PROVE  Count = n
<1>1. {t \in Ids : Exists(t)} = 1 .. n
  BY RetryAssumption DEF DenseUpTo, Ids
<1>2. Cardinality(1 .. n) = n
  BY FS_Interval
<1> QED
  BY <1>1, <1>2 DEF Count

(* A task is inserted where there was none, behind all others. *)
LEMMA InsertNew ==
    ASSUME TypeOK, Dense, NEW res, NEW op, Insert(res, op)
    PROVE  /\ Count + 1 \in Ids /\ ~Exists(Count + 1)
           /\ rows' = [rows EXCEPT ![Count + 1] =
                         [status |-> "active", res |-> res, op |-> op, at |-> now]]
           /\ Dense'
<1>1. PICK n \in 0 .. MaxTasks : DenseUpTo(n)
  BY DEF Dense
<1>2. Count = n
  BY <1>1, CountDense
<1>3. Count + 1 \in Ids /\ ~Exists(Count + 1)
  BY <1>1, <1>2, RetryAssumption DEF Insert, DenseUpTo, Ids
<1>4. rows' = [rows EXCEPT ![Count + 1] =
                 [status |-> "active", res |-> res, op |-> op, at |-> now]]
  BY DEF Insert
<1>5. n + 1 \in 0 .. MaxTasks
  BY <1>2, <1>3, RetryAssumption DEF Ids
<1>6. \A t \in Ids : Exists(t)' <=> t <= n + 1
  BY <1>1, <1>2, <1>4, <1>3, RetryAssumption DEF DenseUpTo, Exists, Ids, TypeOK
<1>7. Dense'
  BY <1>5, <1>6 DEF Dense, DenseUpTo
<1> QED
  BY <1>3, <1>4, <1>7

(* ... and it is a row. *)
LEMMA InsertType ==
    ASSUME TypeOK, Dense, NEW res \in Resources, NEW op \in Ids, Insert(res, op)
    PROVE  rows' \in [Ids -> Row]
<1>1. rows' = [rows EXCEPT ![Count + 1] =
                 [status |-> "active", res |-> res, op |-> op, at |-> now]]
  BY InsertNew
<1>2. [status |-> "active", res |-> res, op |-> op, at |-> now] \in Row
  BY DEF TypeOK, Row, Statuses
<1> QED
  BY <1>1, <1>2 DEF TypeOK

(* What a list read shows is a status of every task. *)
LEMMA ListingType ==
    ASSUME TypeOK
    PROVE  Listing \in Snapshot
BY DEF TypeOK, Listing, Snapshot, Row, Statuses

(* No failure is a failure, and nothing read a snapshot. *)
LEMMA NothingType == NoFailure \in Failure /\ NoItems \in Snapshot
BY RetryAssumption DEF NoFailure, Failure, NoItems, Snapshot, Statuses

(* Counting a check of the evidence keeps a failure a failure. *)
LEMMA CheckedType ==
    ASSUME NEW f \in Failure, NEW n \in 0 .. 2
    PROVE  Checked(f, n) \in Failure
BY DEF Checked, Failure

(* What an evidence read leaves of the panel is of its type. *)
LEMMA ApplyType ==
    ASSUME NEW f \in Failure, NEW its \in Snapshot, Apply(f, its)
    PROVE  failure' \in Failure /\ items' \in Snapshot
BY NothingType DEF Apply, Clear

RequestType == [step : Steps, task : 0 .. MaxTasks, at : Int,
                server : {"idle", "waiting", "created", "resource_conflict", "invalid_input"},
                made : 0 .. MaxTasks, failure : Failure, read : Snapshot]

(* Every part of the first state is of its type. *)
LEMMA TypeInit == Init => TypeOK
<1> SUFFICES ASSUME Init PROVE TypeOK
  OBVIOUS
<1>1. now \in Clock
  BY RetryAssumption DEF Init, Clock
<1>2. rows \in [Ids -> Row]
  <2>1. PICK n \in 0 .. MaxTasks : Initial \in [1 .. n -> Resources]
    BY RetryAssumption
  <2>2. (CHOOSE r \in Resources : TRUE) \in Resources
    BY RetryAssumption
  <2>3. \A t \in Ids : rows[t] \in Row
    BY <2>1, <2>2, RetryAssumption DEF Init, Ids, Row, Statuses, Clock
  <2> QED
    BY <2>3 DEF Init
<1>3. FreeRequest \in RequestType
  BY NothingType, RetryAssumption DEF FreeRequest, RequestType, Steps
<1>4. req \in [Reqs -> RequestType]
  BY <1>3 DEF Init
<1>5. failure \in Failure /\ items \in Snapshot
  BY NothingType DEF Init
<1>6. refreshing \in [step : {"free", "listing", "listed"}, failure : Failure, read : Snapshot]
  BY NothingType DEF Init, IdleRefresh
<1>7. submitting \in 0 .. MaxTasks
  BY RetryAssumption DEF Init
<1> QED
  BY <1>1, <1>2, <1>4, <1>5, <1>6, <1>7 DEF TypeOK, RequestType


(* The tasks there are at first have the first ids. *)
LEMMA DenseInit == Init => Dense
<1> SUFFICES ASSUME Init PROVE Dense
  OBVIOUS
<1>1. PICK n \in 0 .. MaxTasks : Initial \in [1 .. n -> Resources]
  BY RetryAssumption
<1>2. \A t \in Ids : Exists(t) <=> t <= n
  BY <1>1, RetryAssumption DEF Init, Exists, Ids
<1> QED
  BY <1>2 DEF Dense, DenseUpTo

(* What a step does to the rows: nothing, the end of an active one, or one more. *)
RowsKept ==
    \A t \in Ids : Exists(t) =>
        /\ rows'[t].status # "absent"
        /\ rows'[t].res = rows[t].res /\ rows'[t].op = rows[t].op /\ rows'[t].at = rows[t].at

(* Where no row comes or goes, the ids in use stay the first ones. *)
LEMMA KeptDense ==
    ASSUME TypeOK, Dense, rows' \in [Ids -> Row],
           \A t \in Ids : rows'[t].status = "absent" <=> rows[t].status = "absent"
    PROVE  Dense'
BY DEF Dense, DenseUpTo, Exists

(* An insertion changes no row there was. *)
LEMMA InsertKeeps ==
    ASSUME TypeOK, Dense, NEW res, NEW op, Insert(res, op)
    PROVE  RowsKept /\ Dense'
<1>1. /\ Count + 1 \in Ids /\ ~Exists(Count + 1) /\ Dense'
      /\ rows' = [rows EXCEPT ![Count + 1] =
                    [status |-> "active", res |-> res, op |-> op, at |-> now]]
  BY InsertNew
<1> QED
  BY <1>1 DEF RowsKept, Exists, TypeOK

(* No step takes a row away, or changes what a successor is known by. *)
LEMMA RowsStep ==
    ASSUME TypeOK, Dense, [Next]_vars
    PROVE  RowsKept /\ Dense'
<1>1. CASE UNCHANGED rows
  BY <1>1 DEF RowsKept, Exists, Dense, DenseUpTo
<1>2. CASE \E res, op : Insert(res, op)
  BY <1>2, InsertKeeps
<1>3. ASSUME NEW t \in Ids, NEW status \in {"succeeded", "ended"}, End(t, status)
      PROVE  RowsKept /\ Dense'
  <2>1. rows' = [rows EXCEPT ![t].status = status] /\ rows[t].status = "active"
    BY <1>3 DEF End
  <2>2. rows' \in [Ids -> Row]
    BY <2>1 DEF TypeOK, Row, Statuses
  <2>3. \A u \in Ids : rows'[u].status = "absent" <=> rows[u].status = "absent"
    BY <2>1 DEF TypeOK, Row
  <2>4. RowsKept
    BY <2>1, SMTT(40) DEF RowsKept, Exists, TypeOK, Row
  <2> QED
    BY <2>2, <2>3, <2>4, KeptDense
<1>4. \/ UNCHANGED rows \/ \E res, op : Insert(res, op)
      \/ \E t \in Ids : \E status \in {"succeeded", "ended"} : End(t, status)
  BY DEF Next, vars, Tick, Elsewhere, Serve, Accepted, Failed, ReadList, Evidence, EvidenceLost,
         Request, Refresh, RefreshList, Refreshed, RefreshLost, Close
<1> QED
  BY <1>1, <1>2, <1>3, <1>4

(* One request that changes keeps all of them requests. *)
LEMMA RequestUpdate ==
    ASSUME TypeOK, NEW r \in Reqs, NEW q \in RequestType, req' = [req EXCEPT ![r] = q]
    PROVE  req' \in [Reqs -> RequestType]
BY DEF TypeOK, RequestType

(* Every step keeps the types. *)
LEMMA TypeStep == IInv /\ [Next]_vars => TypeOK'
<1> SUFFICES ASSUME IInv, [Next]_vars PROVE TypeOK'
  OBVIOUS
<1> TypeOK
  BY DEF IInv
<1>a. /\ now \in Clock /\ rows \in [Ids -> Row] /\ req \in [Reqs -> RequestType]
      /\ failure \in Failure /\ items \in Snapshot /\ submitting \in 0 .. MaxTasks
      /\ refreshing \in [step : {"free", "listing", "listed"}, failure : Failure, read : Snapshot]
  BY DEF TypeOK, RequestType
<1>b. /\ now' \in Clock /\ rows' \in [Ids -> Row] /\ req' \in [Reqs -> RequestType]
      /\ failure' \in Failure /\ items' \in Snapshot /\ submitting' \in 0 .. MaxTasks
      /\ refreshing' \in [step : {"free", "listing", "listed"}, failure : Failure, read : Snapshot]
      => TypeOK'
  BY DEF TypeOK, RequestType
<1>1. CASE Tick
  <2>1. now' \in Clock
    BY <1>1, <1>a, RetryAssumption DEF Tick, Clock
  <2> QED
    BY <1>1, <1>a, <1>b, <2>1 DEF Tick, browser
<1>2. ASSUME NEW t \in Ids, NEW status \in {"succeeded", "ended"}, End(t, status)
      PROVE  TypeOK'
  <2>1. rows' \in [Ids -> Row]
    BY <1>2, <1>a DEF End, Row, Statuses
  <2> QED
    BY <1>2, <1>a, <1>b, <2>1 DEF End, browser
<1>3. ASSUME NEW res \in Resources, Elsewhere(res)
      PROVE  TypeOK'
  <2>1. PICK op : Insert(res, op) /\ (op = Count + 1 \/ \E t \in Ids : op = rows[t].op)
    BY <1>3 DEF Elsewhere
  <2>2. Count + 1 \in Ids
    BY <2>1, InsertNew DEF IInv
  <2>3. op \in Ids
    BY <1>a, <2>1, <2>2 DEF Row
  <2>4. rows' \in [Ids -> Row]
    BY <2>1, <2>3, InsertType DEF IInv
  <2> QED
    BY <1>3, <1>a, <1>b, <2>4 DEF Elsewhere, browser
<1>4. ASSUME NEW r \in Reqs, Serve(r)
      PROVE  TypeOK'
  <2> DEFINE t == req[r].task
  <2>1. CASE \E code \in Refusals(t) : req' = [req EXCEPT ![r].server = code] /\ UNCHANGED rows
    <3>1. PICK code \in Refusals(t) : req' = [req EXCEPT ![r].server = code]
      BY <2>1
    <3>2. code \in {"resource_conflict", "invalid_input"}
      BY DEF Refusals
    <3>3. req' \in [Reqs -> RequestType]
      BY <1>a, <3>1, <3>2 DEF RequestType
    <3> QED
      BY <1>4, <1>a, <1>b, <2>1, <3>3 DEF Serve, browser
  <2>2. CASE /\ Insert(rows[t].res, rows[t].op)
             /\ req' = [req EXCEPT ![r].server = "created", ![r].made = Count + 1]
    <3>1. t \in Ids
      BY <1>4 DEF Serve, IInv, RequestInv, Sent
    <3>2. rows[t].res \in Resources /\ rows[t].op \in Ids
      BY <1>a, <3>1 DEF Row
    <3>3. rows' \in [Ids -> Row]
      BY <2>2, <3>2, InsertType DEF IInv
    <3>4. Count + 1 \in Ids
      BY <2>2, InsertNew DEF IInv
    <3>5. Count + 1 \in 0 .. MaxTasks
      BY <3>4, RetryAssumption DEF Ids
    <3>6. [req[r] EXCEPT !.server = "created", !.made = Count + 1] \in RequestType
      BY <1>a, <3>5 DEF RequestType
    <3>7. req' = [req EXCEPT ![r] = [req[r] EXCEPT !.server = "created", !.made = Count + 1]]
      BY <2>2
    <3>8. req' \in [Reqs -> RequestType]
      BY <3>6, <3>7, RequestUpdate
    <3> QED
      BY <1>4, <1>a, <1>b, <3>3, <3>8 DEF Serve, browser
  <2> QED
    BY <1>4, <2>1, <2>2 DEF Serve
<1>5. ASSUME NEW r \in Reqs, Accepted(r)
      PROVE  TypeOK'
  <2>1. [req[r] EXCEPT !.step = "done"] \in RequestType
    BY <1>a DEF RequestType, Steps
  <2>2. req' \in [Reqs -> RequestType]
    BY <1>5, <2>1, RequestUpdate DEF Accepted
  <2> QED
    BY <1>5, <1>a, <1>b, <2>2, RetryAssumption DEF Accepted
<1>6. ASSUME NEW r \in Reqs, Failed(r)
      PROVE  TypeOK'
  <2>1. PICK code \in Codes, rejected \in BOOLEAN :
          req' = [req EXCEPT ![r].step = "listing", ![r].failure = FailureOf(r, code, rejected)]
    BY <1>6 DEF Failed, Codes
  <2>2. FailureOf(r, code, rejected) \in Failure
    <3>1. req[r].task \in 0 .. MaxTasks /\ req[r].at \in Int
      BY <1>a DEF RequestType
    <3>2. 0 \in 0 .. 2
      OBVIOUS
    <3> QED
      BY <3>1, <3>2, Zenon DEF FailureOf, Failure
  <2>3. [req[r] EXCEPT !.step = "listing", !.failure = FailureOf(r, code, rejected)] \in RequestType
    BY <1>a, <2>2, ZenonT(60) DEF RequestType, Steps
  <2>4. req' = [req EXCEPT ![r] =
                  [req[r] EXCEPT !.step = "listing", !.failure = FailureOf(r, code, rejected)]]
    BY <2>1
  <2>5. req' \in [Reqs -> RequestType]
    BY <2>3, <2>4, RequestUpdate
  <2> QED
    BY <1>6, <1>a, <1>b, <2>5 DEF Failed
<1>7. ASSUME NEW r \in Reqs, ReadList(r)
      PROVE  TypeOK'
  <2>1. [req[r] EXCEPT !.step = "listed", !.read = Listing] \in RequestType
    BY <1>a, ListingType DEF RequestType, Steps
  <2>2. req' = [req EXCEPT ![r] = [req[r] EXCEPT !.step = "listed", !.read = Listing]]
    BY <1>7 DEF ReadList
  <2>3. req' \in [Reqs -> RequestType]
    BY <2>1, <2>2, RequestUpdate
  <2> QED
    BY <1>7, <1>a, <1>b, <2>3 DEF ReadList, browser
<1>8. ASSUME NEW r \in Reqs, Evidence(r)
      PROVE  TypeOK'
  <2>1. req[r].failure \in Failure /\ req[r].read \in Snapshot
    BY <1>a DEF RequestType
  <2>2. failure' \in Failure /\ items' \in Snapshot
    BY <1>8, <2>1, CheckedType, ApplyType DEF Evidence
  <2>3. [req[r] EXCEPT !.step = "done", !.failure = NoFailure, !.read = NoItems] \in RequestType
    BY <1>a, NothingType DEF RequestType, Steps
  <2>4. req' = [req EXCEPT ![r] =
                  [req[r] EXCEPT !.step = "done", !.failure = NoFailure, !.read = NoItems]]
    BY <1>8 DEF Evidence
  <2>5. req' \in [Reqs -> RequestType]
    BY <2>3, <2>4, RequestUpdate
  <2> QED
    BY <1>8, <1>a, <1>b, <2>2, <2>5, RetryAssumption DEF Evidence
<1>9. ASSUME NEW r \in Reqs, EvidenceLost(r)
      PROVE  TypeOK'
  <2>1. [req[r] EXCEPT !.step = "done", !.failure = NoFailure] \in RequestType
    BY <1>a, NothingType DEF RequestType, Steps
  <2>2. req' = [req EXCEPT ![r] = [req[r] EXCEPT !.step = "done", !.failure = NoFailure]]
    BY <1>9 DEF EvidenceLost
  <2>3. req' \in [Reqs -> RequestType]
    BY <2>1, <2>2, RequestUpdate
  <2>4. failure' \in Failure
    BY <1>9, <1>a DEF EvidenceLost, RequestType
  <2> QED
    BY <1>9, <1>a, <1>b, <2>3, <2>4, RetryAssumption DEF EvidenceLost
<1>10. ASSUME NEW r \in Reqs, NEW t \in Ids, Request(r, t)
       PROVE  TypeOK'
  <2> DEFINE q == [FreeRequest EXCEPT !.step = "posting", !.task = t, !.at = now + Skew,
                                      !.server = "waiting"]
  <2>1. now + Skew \in Int /\ t \in 0 .. MaxTasks /\ 0 \in 0 .. MaxTasks
    BY <1>a, RetryAssumption DEF Clock, Ids
  <2>2. q \in RequestType
    BY <2>1, NothingType DEF FreeRequest, RequestType, Steps
  <2>3. req' = [req EXCEPT ![r] = q]
    BY <1>10 DEF Request
  <2>4. req' \in [Reqs -> RequestType]
    BY <2>2, <2>3, RequestUpdate
  <2> QED
    BY <1>10, <1>a, <1>b, <2>1, <2>4, NothingType DEF Request, Clear
<1>11. CASE Refresh
  BY <1>11, <1>a, <1>b, NothingType DEF Refresh, IdleRefresh
<1>12. CASE RefreshList
  BY <1>12, <1>a, <1>b, ListingType DEF RefreshList
<1>13. CASE Refreshed
  <2> DEFINE f == refreshing.failure
             n == IF f.checks < 2 THEN f.checks + 1 ELSE 2
  <2>1. f \in Failure /\ refreshing.read \in Snapshot
    BY <1>a
  <2>2. n \in 0 .. 2
    <3>1. f.checks \in 0 .. 2
      BY <2>1 DEF Failure
    <3> QED
      BY <3>1
  <2>3. Checked(f, n) \in Failure
    BY <2>1, <2>2, CheckedType
  <2>4. failure' \in Failure /\ items' \in Snapshot
    BY <1>13, <2>1, <2>3, ApplyType DEF Refreshed
  <2> QED
    BY <1>13, <1>a, <1>b, <2>4, NothingType DEF Refreshed, IdleRefresh
<1>14. CASE RefreshLost
  BY <1>14, <1>a, <1>b, NothingType DEF RefreshLost, IdleRefresh
<1>15. CASE Close
  BY <1>15, <1>a, <1>b, NothingType DEF Close, Clear
<1>16. CASE UNCHANGED vars
  BY <1>16, <1>a, <1>b DEF vars
<1> QED
  BY <1>1, <1>2, <1>3, <1>4, <1>5, <1>6, <1>7, <1>8, <1>9, <1>10, <1>11, <1>12, <1>13, <1>14, <1>15,
     <1>16 DEF Next

--------------------------------------------------------------------------------
(* A request that is only carried on keeps what is known of it. *)
CarriedOn(r) ==
    /\ req'[r].task = req[r].task /\ req'[r].at = req[r].at /\ req'[r].made = req[r].made
    /\ req'[r].server # "idle" => req[r].server # "idle"

(* The server's clock never goes back. *)
LEMMA NowStep ==
    ASSUME TypeOK, [Next]_vars
    PROVE  now' \in Int /\ now' >= now
<1>1. now \in Int
  BY RetryAssumption, SMTT(40) DEF TypeOK, Clock
<1>2. now' = now \/ now' = now + 1
  BY DEF Next, vars, Tick, End, Elsewhere, Serve, Accepted, Failed, ReadList, Evidence,
         EvidenceLost, Request, Refresh, RefreshList, Refreshed, RefreshLost, Close
<1> QED
  BY <1>1, <1>2

(* A request that is only carried on remembers what it made. *)
LEMMA CarriedKeeps ==
    ASSUME IInv, [Next]_vars, NEW r \in Reqs, CarriedOn(r)
    PROVE  Sent(req[r])' /\ MadeSince(req[r])'
<1>1. now \in Int /\ now' \in Int /\ now' >= now /\ req[r].at \in Int /\ Skew \in Int
  BY NowStep, RetryAssumption DEF IInv, TypeOK, Clock
<1>2. Sent(req[r]) /\ MadeSince(req[r])
  BY DEF IInv, RequestInv
<1>3. Sent(req[r])'
  BY <1>1, <1>2 DEF Sent, CarriedOn
<1>4. MadeSince(req[r])'
  <2> SUFFICES ASSUME req'[r].made # 0 PROVE MadeSince(req[r])'
    BY DEF MadeSince
  <2>1. req[r].made \in Ids
    BY RetryAssumption DEF CarriedOn, IInv, TypeOK, Ids
  <2> QED
    BY <1>2, <2>1, RowsStep DEF IInv, MadeSince, CarriedOn, RowsKept, Exists
<1> QED
  BY <1>3, <1>4

(* Whatever step is taken, a request was sent in the past and made a successor. *)
LEMMA RequestStep ==
    ASSUME IInv, [Next]_vars, NEW r \in Reqs
    PROVE  Sent(req[r])' /\ MadeSince(req[r])'
<1>a. CASE CarriedOn(r)
  BY <1>a, CarriedKeeps
<1>b. /\ TypeOK /\ Dense /\ Sent(req[r]) /\ MadeSince(req[r])
      /\ req \in [Reqs -> RequestType]
  BY DEF IInv, RequestInv, TypeOK, RequestType
<1>1. CASE UNCHANGED req
  BY <1>1, <1>a DEF CarriedOn
<1>2. ASSUME NEW s \in Reqs, Serve(s)
      PROVE  Sent(req[r])' /\ MadeSince(req[r])'
  <2> DEFINE t == req[s].task
  <2>1. CASE \E code \in Refusals(t) : req' = [req EXCEPT ![s].server = code] /\ UNCHANGED rows
    <3>1. CarriedOn(r)
      BY <1>2, <1>b, <2>1 DEF Serve, CarriedOn, RequestType
    <3> QED
      BY <3>1, <1>a
  <2>2. CASE /\ Refusals(t) = {}
             /\ Insert(rows[t].res, rows[t].op)
             /\ req' = [req EXCEPT ![s].server = "created", ![s].made = Count + 1]
    <3>1. CASE r # s
      <4>1. CarriedOn(r)
        BY <1>b, <2>2, <3>1 DEF CarriedOn
      <4> QED
        BY <4>1, <1>a
    <3>2. CASE r = s
      <4>1. /\ Count + 1 \in Ids /\ ~Exists(Count + 1)
            /\ rows' = [rows EXCEPT ![Count + 1] =
                          [status |-> "active", res |-> rows[t].res, op |-> rows[t].op, at |-> now]]
        BY <1>b, <2>2, InsertNew
      <4>2. t \in Ids /\ req[r].at <= now + Skew
        BY <1>2, <1>b, <3>2 DEF Serve, Sent
      <4>3. Exists(t)
        BY <2>2 DEF Refusals, Exists
      <4>4. /\ req'[r].task = t /\ req'[r].at = req[r].at /\ req'[r].made = Count + 1
        BY <1>b, <2>2, <3>2 DEF RequestType
      <4>5. now' = now
        BY <1>2 DEF Serve
      <4>6. Sent(req[r])'
        BY <4>2, <4>4, <4>5 DEF Sent
      <4>7. now >= req[r].at - Skew
        BY <1>b, <4>2, RetryAssumption DEF RequestType, TypeOK, Clock
      <4>8. /\ rows'[Count + 1] = [status |-> "active", res |-> rows[t].res, op |-> rows[t].op, at |-> now]
            /\ rows'[t] = rows[t]
        BY <1>b, <4>1, <4>2, <4>3 DEF TypeOK
      <4>9. MadeSince(req[r])'
        BY <4>1, <4>2, <4>3, <4>4, <4>7, <4>8 DEF MadeSince, Exists
      <4> QED
        BY <4>6, <4>9
    <3> QED
      BY <3>1, <3>2
  <2> QED
    BY <1>2, <2>1, <2>2 DEF Serve
<1>3. ASSUME NEW s \in Reqs, \/ Accepted(s) \/ Failed(s) \/ ReadList(s)
                             \/ Evidence(s) \/ EvidenceLost(s)
      PROVE  Sent(req[r])' /\ MadeSince(req[r])'
  <2>1. CarriedOn(r)
    <3>1. CASE Accepted(s)
      BY <3>1, <1>b DEF Accepted, CarriedOn, RequestType
    <3>2. CASE Failed(s)
      <4>1. PICK f : req' = [req EXCEPT ![s].step = "listing", ![s].failure = f]
        BY <3>2 DEF Failed
      <4> QED
        BY <4>1, <1>b DEF CarriedOn, RequestType
    <3>3. CASE ReadList(s)
      BY <3>3, <1>b DEF ReadList, CarriedOn, RequestType
    <3>4. CASE Evidence(s)
      BY <3>4, <1>b DEF Evidence, CarriedOn, RequestType
    <3>5. CASE EvidenceLost(s)
      BY <3>5, <1>b DEF EvidenceLost, CarriedOn, RequestType
    <3> QED
      BY <1>3, <3>1, <3>2, <3>3, <3>4, <3>5
  <2> QED
    BY <2>1, <1>a
<1>4. ASSUME NEW s \in Reqs, NEW t \in Ids, Request(s, t)
      PROVE  Sent(req[r])' /\ MadeSince(req[r])'
  <2>1. CASE r # s
    <3>1. CarriedOn(r)
      BY <1>b, <1>4, <2>1 DEF Request, CarriedOn
    <3> QED
      BY <3>1, <1>a
  <2>2. CASE r = s
    <3>1. req'[r].task = t /\ req'[r].at = now + Skew /\ req'[r].made = 0 /\ now' = now
      BY <1>b, <1>4, <2>2 DEF Request, FreeRequest
    <3>2. now + Skew \in Int
      BY <1>b, RetryAssumption DEF TypeOK, Clock
    <3> QED
      BY <3>1, <3>2 DEF Sent, MadeSince
  <2> QED
    BY <2>1, <2>2
<1> QED
  BY <1>1, <1>2, <1>3, <1>4
     DEF Next, vars, Tick, End, Elsewhere, Refresh, RefreshList, Refreshed, RefreshLost, Close

(* At first nothing was sent and nothing made. *)
LEMMA RequestInit == Init => RequestInv
BY DEF Init, RequestInv, Sent, MadeSince, FreeRequest

(* Every step keeps the invariant. *)
LEMMA Inductive == IInv /\ [Next]_vars => IInv'
<1> SUFFICES ASSUME IInv, [Next]_vars PROVE IInv'
  OBVIOUS
<1>1. TypeOK'
  BY TypeStep
<1>2. Dense'
  BY RowsStep DEF IInv
<1>3. RequestInv'
  BY RequestStep DEF RequestInv
<1> QED
  BY <1>1, <1>2, <1>3 DEF IInv

(* The inductive invariant of a retry: the types, dense ids, and what every    *)
(* request made of the task it was sent for.                                  *)
THEOREM Invariant == Spec => []IInv
<1>1. Init => IInv
  BY TypeInit, DenseInit, RequestInit DEF IInv
<1> QED
  BY <1>1, Inductive, PTL DEF Spec

(* Every part of the state is of its type, whatever the constants are. *)
THEOREM TypeCorrect == Spec => []TypeOK
<1>1. IInv => TypeOK
  BY DEF IInv
<1> QED
  BY <1>1, Invariant, PTL

--------------------------------------------------------------------------------
(* A task that a request created, and a list shows, is a successor for the     *)
(* failure of that request, where the clocks agree well enough.               *)
LEMMA MadeIsSuccessor ==
    ASSUME IInv, Skew <= Tolerance, NEW r \in Reqs, NEW f \in Failure, NEW its \in Snapshot,
           req[r].task = f.task, req[r].at = f.at, req[r].made # 0,
           its[req[r].made] # "absent"
    PROVE  req[r].made \in Successors(f, its)
<1>1. MadeSince(req[r]) /\ req[r].made \in Ids /\ req[r].at \in Int
  BY RetryAssumption DEF IInv, RequestInv, TypeOK, Ids
<1>2. rows[req[r].made].at \in Int
  BY <1>1, RetryAssumption DEF IInv, TypeOK, Row, Clock
<1>3. CreatedAfterAttempt(req[r].made, f)
  BY <1>1, <1>2, RetryAssumption DEF CreatedAfterAttempt, MadeSince
<1> QED
  BY <1>1, <1>3 DEF Successors, IsSuccessor, MadeSince

LEMMA MadeRecognised ==
    ASSUME IInv, Skew <= Tolerance
    PROVE  SuccessorRecognised
<1> SUFFICES ASSUME CanRetry(failure, items), NEW r \in Reqs,
                    req[r].task = failure.task, req[r].at = failure.at, req[r].made # 0,
                    items[req[r].made] # "absent"
             PROVE  FALSE
  BY DEF SuccessorRecognised
<1>1. req[r].made \in Successors(failure, items)
  BY MadeIsSuccessor DEF IInv, TypeOK
<1>2. Successors(failure, items) = {}
  BY DEF CanRetry, Phase
<1> QED
  BY <1>1, <1>2

(* The panel never offers a retry beside the task its own request created,     *)
(* for any number of requests, tasks and reads, in any order.                  *)
THEOREM RetryRecognised == Skew <= Tolerance => (Spec => []SuccessorRecognised)
<1> SUFFICES ASSUME Skew <= Tolerance PROVE Spec => []SuccessorRecognised
  OBVIOUS
<1>1. IInv => SuccessorRecognised
  BY MadeRecognised
<1> QED
  BY <1>1, Invariant, PTL

================================================================================
