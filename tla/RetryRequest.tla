----------------------------- MODULE RetryRequest ------------------------------
(* What the browser does about a retry whose answer it did not get, or got as *)
(* a refusal: src/frontend/src/lib/task-retry-request.ts (the evidence) and   *)
(* lib/use-task-retry-request.ts (the hook all four pages share), against the *)
(* tasks table the server keeps.                                              *)
(*                                                                            *)
(* A request travels in steps of its own: the click, the server's work, the   *)
(* answer or its loss, the read of the task list that follows a failure. The  *)
(* server may work on a request the browser has given up. Task ids are the    *)
(* order of insertion; a task's kind follows from its operation, so it is     *)
(* left out. The browser's clock is Skew ahead of the server's.               *)
EXTENDS Integers, FiniteSets

CONSTANTS Resources,  \* the resources tasks work on
          Initial,    \* the tasks there are at first: id |-> resource, all ended
          Unreadable, \* those of Initial whose payload names no lineage a retry could read
          MaxTasks,   \* bound on tasks
          MaxRequests, \* bound on retry requests
          MaxTime,    \* bound on the server's clock
          Skew,       \* browser clock minus server clock
          Tolerance,  \* how much older than the attempt a successor may seem
          ListLimit,  \* how many tasks, the newest, a list holds
          Gateway     \* a gateway may answer for the server (a proxy's 502 or 504)

Ids == 1 .. MaxTasks
Reqs == 1 .. MaxRequests
Clock == 0 .. MaxTime

ASSUME RetryAssumption ==
    /\ Resources # {} /\ MaxTasks \in Nat /\ MaxRequests \in Nat /\ MaxTime \in Nat
    /\ Skew \in Int /\ Tolerance \in Nat /\ ListLimit \in Nat
    /\ Gateway \in BOOLEAN
    /\ \E n \in 0 .. MaxTasks : Initial \in [1 .. n -> Resources]
    /\ Unreadable \subseteq DOMAIN Initial

VARIABLES now,        \* the server's clock
          rows,       \* the tasks table
          req,        \* every retry request there has been
          failure,    \* the failure the panel shows, or NoFailure
          items,      \* evidenceItems: the statuses last read
          refreshing, \* the evidence read in flight
          submitting  \* submittingTaskID, 0 for none

vars == <<now, rows, req, failure, items, refreshing, submitting>>

Statuses == {"absent", "active", "succeeded", "ended"}
Row == [status : Statuses, res : Resources, op : Ids, at : Clock]

(* The statuses of a list answer; "absent" where the list does not have the task. *)
Snapshot == [Ids -> Statuses]
NoItems == [t \in Ids |-> "absent"]

Codes == {"resource_conflict", "invalid_input", "network_error", "http_error"}
Unavailable == {"forbidden", "unauthorized", "not_found", "invalid_input"}
NoFailure == [task |-> 0, code |-> "", rejected |-> FALSE, at |-> 0, checks |-> 0]
IsFailure(f) == f.task # 0

Steps == {"free", "posting", "listing", "listed", "done"}
FreeRequest == [step |-> "free", task |-> 0, at |-> 0, server |-> "idle", made |-> 0,
                failure |-> NoFailure, read |-> NoItems]
IdleRefresh == [step |-> "free", failure |-> NoFailure, read |-> NoItems]

--------------------------------------------------------------------------------
(* The server. *)

Exists(t) == rows[t].status # "absent"
Count == Cardinality({t \in Ids : Exists(t)})
ActiveOn(res) == \E t \in Ids : rows[t].res = res /\ rows[t].status = "active"

Insert(res, op) ==
    /\ Count < MaxTasks
    /\ rows' = [rows EXCEPT ![Count + 1] =
                  [status |-> "active", res |-> res, op |-> op, at |-> now]]

(* GET /tasks: the newest rows. *)
Listing == [t \in Ids |-> IF t > Count - ListLimit THEN rows[t].status ELSE "absent"]

--------------------------------------------------------------------------------
(* The evidence. *)

Original(f, its) == its[f.task] # "absent"

(* Mutant: a successor must be younger than the attempt by the browser's clock. *)
CreatedAfterAttemptExact(t, f) == rows[t].at >= f.at

CreatedAfterAttempt(t, f) == rows[t].at >= f.at - Tolerance

IsSuccessor(t, f, its) ==
    /\ its[t] # "absent" /\ t # f.task
    /\ rows[t].res = rows[f.task].res
    /\ rows[t].op = rows[f.task].op
    /\ CreatedAfterAttempt(t, f)

Successors(f, its) == {t \in Ids : IsSuccessor(t, f, its)}

Blocked(f, its) ==
    \E t \in Ids : its[t] = "active" /\ t # f.task /\ rows[t].res = rows[f.task].res

Confirmed(f) == f.rejected \/ f.checks >= 2

(* taskRetryRequestEvidence: the phase the panel shows for a failure. *)
Phase(f, its) ==
    CASE f.code \in Unavailable -> "unavailable"
      [] f.code \notin Unavailable /\ ~Original(f, its) -> "stale"
      [] OTHER ->
           IF Successors(f, its) # {} THEN "accepted"
           ELSE IF Blocked(f, its) THEN "blocked"
           ELSE IF its[f.task] # "ended" THEN "unavailable"
           ELSE IF Confirmed(f) THEN "ready" ELSE "stale"

CanRetry(f, its) == Phase(f, its) = "ready"

--------------------------------------------------------------------------------
Init ==
    /\ now = 0
    /\ rows = [t \in Ids |->
                 IF t \in DOMAIN Initial
                   THEN [status |-> "ended", res |-> Initial[t], op |-> t, at |-> 0]
                   ELSE [status |-> "absent", res |-> CHOOSE r \in Resources : TRUE,
                         op |-> t, at |-> 0]]
    /\ req = [r \in Reqs |-> FreeRequest]
    /\ failure = NoFailure
    /\ items = NoItems
    /\ refreshing = IdleRefresh
    /\ submitting = 0

browser == <<failure, items, refreshing, submitting>>

Tick ==
    /\ now < MaxTime
    /\ now' = now + 1
    /\ UNCHANGED <<rows, req, browser>>

(* A worker ends a task. *)
End(t, status) ==
    /\ rows[t].status = "active"
    /\ rows' = [rows EXCEPT ![t].status = status]
    /\ UNCHANGED <<now, req, browser>>

(* Another tab starts an operation, or retries one. *)
Elsewhere(res) ==
    /\ ~ActiveOn(res)
    /\ \/ Insert(res, Count + 1)
       \/ \E t \in Ids : rows[t].res = res /\ rows[t].status = "ended" /\ Insert(res, rows[t].op)
    /\ UNCHANGED <<now, req, browser>>

(* POST /tasks/{id}/retry at the server, at any time after it was sent. *)
Refusals(t) ==
    IF rows[t].status # "ended" THEN {"resource_conflict"}
    ELSE IF t \in Unreadable THEN {"invalid_input"}
    ELSE IF ActiveOn(rows[t].res) THEN {"resource_conflict"} ELSE {}

Serve(r) ==
    /\ req[r].server = "waiting"
    /\ LET t == req[r].task IN
       \/ \E code \in Refusals(t) : req' = [req EXCEPT ![r].server = code] /\ UNCHANGED rows
       \/ /\ Refusals(t) = {}
          /\ Insert(rows[t].res, rows[t].op)
          /\ req' = [req EXCEPT ![r].server = "created", ![r].made = Count + 1]
    /\ UNCHANGED <<now, browser>>

--------------------------------------------------------------------------------
(* The hook. *)

Clear == failure' = NoFailure /\ items' = NoItems

(* A page's retry button: the panel's gate on the task of its failure, and no *)
(* second submission of a task being submitted.                               *)
RetryAllowed(t) ==
    /\ rows[t].status = "ended"
    /\ submitting # t
    /\ failure.task = t => CanRetry(failure, items)

Request(r, t) ==
    /\ req[r].step = "free" /\ \A q \in Reqs : q < r => req[q].step # "free"
    /\ RetryAllowed(t)
    /\ submitting' = t
    /\ Clear
    /\ req' = [req EXCEPT ![r] = [FreeRequest EXCEPT !.step = "posting", !.task = t,
                                   !.at = now + Skew, !.server = "waiting"]]
    /\ UNCHANGED <<now, rows, refreshing>>

(* The answer says created: the page follows the new task. *)
Accepted(r) ==
    /\ req[r].step = "posting" /\ req[r].server = "created"
    /\ req' = [req EXCEPT ![r].step = "done"]
    /\ submitting' = 0
    /\ UNCHANGED <<now, rows, failure, items, refreshing>>

FailureOf(r, code, rejected) ==
    [task |-> req[r].task, code |-> code, rejected |-> rejected, at |-> req[r].at, checks |-> 0]

(* No answer says created: a refusal, a lost connection, or a gateway's own   *)
(* answer, which api() reports as a refusal like the server's. The hook reads *)
(* the task list.                                                             *)
Failed(r) ==
    /\ req[r].step = "posting"
    /\ \/ /\ req[r].server \in {"resource_conflict", "invalid_input"}
          /\ req' = [req EXCEPT ![r].step = "listing",
                                ![r].failure = FailureOf(r, req[r].server, TRUE)]
       \/ \E code \in {"network_error"} \cup (IF Gateway THEN {"http_error"} ELSE {}) :
            /\ req' = [req EXCEPT ![r].step = "listing",
                                  ![r].failure = FailureOf(r, code, code = "http_error")]
    /\ UNCHANGED <<now, rows, failure, items, refreshing, submitting>>

(* The server answers the list read of request r, or of the refresh. *)
ReadList(r) ==
    /\ req[r].step = "listing"
    /\ req' = [req EXCEPT ![r].step = "listed", ![r].read = Listing]
    /\ UNCHANGED <<now, rows, browser>>

RefreshList ==
    /\ refreshing.step = "listing"
    /\ refreshing' = [refreshing EXCEPT !.step = "listed", !.read = Listing]
    /\ UNCHANGED <<now, rows, req, failure, items, submitting>>

Checked(f, n) == [f EXCEPT !.checks = n]

(* What an evidence read does to the panel: follow a successor, or show the failure. *)
Apply(f, its) ==
    IF Phase(f, its) = "accepted" THEN Clear ELSE failure' = f /\ items' = its

Evidence(r) ==
    /\ req[r].step = "listed"
    /\ Apply(Checked(req[r].failure, 1), req[r].read)
    /\ req' = [req EXCEPT ![r].step = "done", ![r].failure = NoFailure, ![r].read = NoItems]
    /\ submitting' = 0
    /\ UNCHANGED <<now, rows, refreshing>>

EvidenceLost(r) ==
    /\ req[r].step = "listing"
    /\ failure' = req[r].failure
    /\ req' = [req EXCEPT ![r].step = "done", ![r].failure = NoFailure]
    /\ submitting' = 0
    /\ UNCHANGED <<now, rows, items, refreshing>>

(* The panel's refresh button works for the failure it was rendered with. *)
Refresh ==
    /\ IsFailure(failure) /\ submitting = 0 /\ refreshing.step = "free"
    /\ refreshing' = [IdleRefresh EXCEPT !.step = "listing", !.failure = failure]
    /\ UNCHANGED <<now, rows, req, failure, items, submitting>>

(* Two checks count as any number (evidenceChecks goes on counting). *)
Refreshed ==
    /\ refreshing.step = "listed"
    /\ Apply(Checked(refreshing.failure,
                     IF refreshing.failure.checks < 2 THEN refreshing.failure.checks + 1 ELSE 2),
             refreshing.read)
    /\ refreshing' = IdleRefresh
    /\ UNCHANGED <<now, rows, req, submitting>>

RefreshLost ==
    /\ refreshing.step = "listing"
    /\ refreshing' = IdleRefresh
    /\ UNCHANGED <<now, rows, req, failure, items, submitting>>

Close ==
    /\ IsFailure(failure)
    /\ Clear
    /\ UNCHANGED <<now, rows, req, refreshing, submitting>>

Next ==
    \/ Tick
    \/ \E t \in Ids : \E status \in {"succeeded", "ended"} : End(t, status)
    \/ \E res \in Resources : Elsewhere(res)
    \/ \E r \in Reqs : \/ Serve(r) \/ Accepted(r) \/ Failed(r)
                       \/ ReadList(r) \/ Evidence(r) \/ EvidenceLost(r)
    \/ \E r \in Reqs, t \in Ids : Request(r, t)
    \/ Refresh \/ RefreshList \/ Refreshed \/ RefreshLost \/ Close

Spec == Init /\ [][Next]_vars

--------------------------------------------------------------------------------
Failure == [task : 0 .. MaxTasks, code : Codes \cup {""}, rejected : BOOLEAN,
            at : Int, checks : 0 .. 2]

(* Every part of the state is of its type. *)
TypeOK ==
    /\ now \in Clock
    /\ rows \in [Ids -> Row]
    /\ req \in [Reqs -> [step : Steps, task : 0 .. MaxTasks, at : Int,
                         server : {"idle", "waiting", "created", "resource_conflict", "invalid_input"},
                         made : 0 .. MaxTasks, failure : Failure, read : Snapshot]]
    /\ failure \in Failure /\ items \in Snapshot
    /\ refreshing \in [step : {"free", "listing", "listed"}, failure : Failure, read : Snapshot]
    /\ submitting \in 0 .. MaxTasks

(* The panel never offers a retry beside the task its own request created: as *)
(* long as the clocks differ by no more than the tolerance, a created task    *)
(* that the list read shows is taken for the successor it is, however late    *)
(* the server worked on the request and whatever read the panel has kept.     *)
SuccessorRecognised ==
    IsFailure(failure) /\ CanRetry(failure, items) =>
      \A r \in Reqs :
        req[r].task = failure.task /\ req[r].at = failure.at /\ req[r].made # 0
          => items[req[r].made] = "absent"
================================================================================
