----------------------------- MODULE InstanceActions -----------------------------
(* What the page of one database lets its user do to it (src/frontend/src/     *)
(* pages/InstanceDetailPage.tsx): start, stop and restart it behind a dialog,  *)
(* cancel and retry its tasks, delete it. Its tabs are in InstanceConnection.  *)
(*                                                                            *)
(* The page reads the database and its tasks at intervals and after whatever  *)
(* it does, so news may arrive at any time, and brings any of the values the  *)
(* server may have. A request is in flight until its answer is handled, then  *)
(* the page reads again before it is done. Of each operation one is in flight *)
(* at a time (a bound). An open dialog covers the page.                       *)
EXTENDS TaskRules

CONSTANTS Lifecycle, \* start, stop, restart
          Statuses, \* statuses of the database
          Newest    \* the newest task there may be

ActionsAssumption ==
    /\ Lifecycle \subseteq {"start", "stop", "restart"}
    /\ Newest \subseteq Task \cup {NoTask}

VARIABLES known, \* the database and its newest task, as read last
          ops,   \* the operations in flight
          ui     \* the rest of the page's state

vars == <<known, ops, ui>>

None == "none"
Operations == {"lifecycle", "refresh", "cancel", "retry"}
Codes == {"conflict", "unavailable"}  \* a failure that may be retried, or not
NoFailure == [action |-> None, code |-> "conflict"]

Init ==
    /\ known = [status |-> None, newest |-> NoTask]
    /\ ops = [o \in Operations |-> None]
    /\ ui = [actioning |-> "", confirm |-> None, failure |-> NoFailure, panel |-> None,
             submitted |-> None, refreshing |-> FALSE, deleteOpen |-> FALSE]

--------------------------------------------------------------------------------
Recoverable == known.status \in RecoverableStatuses
FailedOne == FailedTask(known.newest, Recoverable)
Operation == OperationTask(known.newest, Recoverable)

CanStart ==
    \/ known.status = "stopped"
    \/ known.status = "failed" /\ FailedOne = NoTask /\ ~IsActive(known.newest)
CanStopOrRestart == Operation = NoTask /\ known.status \in {"running", "degraded"}

Allowed(action) == IF action = "start" THEN CanStart ELSE CanStopOrRestart

(* lifecycleRequestCanRetry *)
CanRetryFailure ==
    /\ ui.failure # NoFailure /\ Operation = NoTask
    /\ CanRetryLifecycle(ui.failure.action, known.status, ui.failure.code)

(* lifecycleConfirmationCanSubmit *)
CanSubmit == Allowed(ui.confirm) /\ (ui.failure.action = ui.confirm => CanRetryFailure)

Uncovered == known.status # None /\ ui.confirm = None /\ ~ui.deleteOpen
Idle == ui.actioning = ""

(* load: the database, then its tasks; either may fail. *)
Arrives ==
    /\ \E status \in Statuses, newest \in Newest \cup {known.newest} :
         known' = [status |-> status, newest |-> newest]
    /\ UNCHANGED <<ops, ui>>

--------------------------------------------------------------------------------
(* Operations: sent, then, with an answer, followed by a read. *)

Send(o, u) ==
    /\ ops[o] = None
    /\ ops' = [ops EXCEPT ![o] = "sent"]
    /\ ui' = [u EXCEPT !.actioning = o]
    /\ UNCHANGED known

Accept(o, newest, u) ==
    /\ ops[o] = "sent"
    /\ ops' = [ops EXCEPT ![o] = "accepted"]
    /\ known' = [known EXCEPT !.newest = newest]
    /\ ui' = u

Refuse(o, u) ==
    /\ ops[o] = "sent"
    /\ ops' = [ops EXCEPT ![o] = "refused"]
    /\ ui' = u
    /\ UNCHANGED known

(* Mutant: the operation ends without its finally. *)
SettleUnreleased(o) ==
    /\ ops[o] \in {"accepted", "refused"}
    /\ ops' = [ops EXCEPT ![o] = None]
    /\ UNCHANGED <<known, ui>>

(* The read that follows is over: whatever the page says is under way, it says *)
(* so no more; a lifecycle dialog closes if its request was accepted.          *)
Settle(o) ==
    /\ ops[o] \in {"accepted", "refused"}
    /\ ops' = [ops EXCEPT ![o] = None]
    /\ ui' = [ui EXCEPT !.actioning = "",
                        !.submitted = IF o = "lifecycle" THEN None ELSE @,
                        !.confirm = IF o = "lifecycle" /\ ops[o] = "accepted" THEN None ELSE @]
    /\ UNCHANGED known

(* openLifecycleConfirmation, from the buttons or from the failure. *)
OpenConfirm(action) ==
    /\ Uncovered /\ Idle
    /\ Allowed(action) \/ (CanRetryFailure /\ ui.failure.action = action)
    /\ ui' = [ui EXCEPT !.confirm = action,
                        !.failure = IF @.action = action THEN @ ELSE NoFailure]
    /\ UNCHANGED <<known, ops>>

CloseConfirm ==
    /\ ui.confirm # None /\ Idle
    /\ ui' = [ui EXCEPT !.confirm = None]
    /\ UNCHANGED <<known, ops>>

(* runLifecycleAction *)
SubmitLifecycle ==
    /\ ui.confirm # None /\ Idle /\ CanSubmit
    /\ Send("lifecycle", [ui EXCEPT !.failure = NoFailure, !.submitted = ui.confirm])

LifecycleAccepted == \E newest \in Newest : IsActive(newest) /\ Accept("lifecycle", newest, ui)

LifecycleFails ==
    \E code \in Codes :
        Refuse("lifecycle", [ui EXCEPT !.failure = [action |-> ui.submitted, code |-> code]])

(* refreshLifecycleState, from the failure or from a recovery that converges. *)
Refresh ==
    /\ Uncovered /\ Idle
    /\ (ui.failure # NoFailure /\ Operation = NoTask) \/ known.status = "degraded"
    /\ Send("refresh", ui)

Refreshed == Accept("refresh", known.newest, ui)

Dismiss ==
    /\ Uncovered /\ ui.failure # NoFailure /\ Operation = NoTask
    /\ ui' = [ui EXCEPT !.failure = NoFailure]
    /\ UNCHANGED <<known, ops>>

(* cancelOperationTask *)
Cancel ==
    /\ Uncovered /\ Idle /\ IsActive(known.newest) /\ CanCancel(known.newest)
    /\ Send("cancel", ui)

Canceled == \E newest \in Newest \ {NoTask} : Accept("cancel", newest, ui)

CancelFails == Refuse("cancel", ui)

(* retryTask: the hook shows a panel for a retry that was not accepted, whose  *)
(* own button comes back when the evidence allows it (RetryRequest). The other *)
(* is hidden only while the panel is about this very task; tasks are not told  *)
(* apart here.                                                                 *)
Retry ==
    /\ Uncovered
    /\ \/ Idle /\ FailedOne # NoTask /\ ~InspectHost(FailedOne)
       \/ ui.panel = "ready"
    /\ Send("retry", [ui EXCEPT !.panel = None])

(* Accepted, or found to have been although the answer was lost. *)
Retried == \E newest \in Newest \ {NoTask} : Accept("retry", newest, ui)

RetryFails == \E panel \in {"stale", "ready"} : Refuse("retry", [ui EXCEPT !.panel = panel])

(* refreshTaskRetryEvidence, of the panel. *)
RefreshPanel ==
    /\ Uncovered /\ ui.panel # None /\ ~ui.refreshing /\ ops["retry"] # "sent"
    /\ ui' = [ui EXCEPT !.refreshing = TRUE]
    /\ UNCHANGED <<known, ops>>

(* It finds that the retry was accepted after all; ... *)
RetryFound ==
    /\ ui.refreshing
    /\ \E newest \in Newest \ {NoTask} : known' = [known EXCEPT !.newest = newest]
    /\ ui' = [ui EXCEPT !.panel = None, !.refreshing = FALSE]
    /\ UNCHANGED ops

(* ... or what shows the panel again, although it was closed; or it fails. *)
RetryNotFound ==
    /\ ui.refreshing
    /\ \E panel \in {"stale", "ready", ui.panel} :
         ui' = [ui EXCEPT !.panel = panel, !.refreshing = FALSE]
    /\ UNCHANGED <<known, ops>>

ClosePanel ==
    /\ Uncovered /\ ui.panel # None
    /\ ui' = [ui EXCEPT !.panel = None]
    /\ UNCHANGED <<known, ops>>

(* The dialog of CleanupReview, for the database or for what a failed creation left. *)
OpenDelete ==
    /\ Uncovered /\ Idle
    /\ known.status # "deleting" \/ CanReviewCleanup(Operation)
    /\ ui' = [ui EXCEPT !.deleteOpen = TRUE]
    /\ UNCHANGED <<known, ops>>

CloseDelete ==
    /\ ui.deleteOpen
    /\ ui' = [ui EXCEPT !.deleteOpen = FALSE]
    /\ UNCHANGED <<known, ops>>

Next ==
    \/ Arrives
    \/ \E o \in Operations : Settle(o)
    \/ \E action \in Lifecycle : OpenConfirm(action)
    \/ CloseConfirm \/ SubmitLifecycle \/ LifecycleAccepted \/ LifecycleFails
    \/ Refresh \/ Refreshed \/ Dismiss \/ Cancel \/ Canceled \/ CancelFails
    \/ Retry \/ Retried \/ RetryFails
    \/ RefreshPanel \/ RetryFound \/ RetryNotFound \/ ClosePanel \/ OpenDelete \/ CloseDelete

Spec == Init /\ [][Next]_vars

--------------------------------------------------------------------------------
(* Every part of the state is of its type. *)
TypeOK ==
    /\ known \in [status : Statuses \cup {None}, newest : Newest \cup {NoTask}]
    /\ ops \in [Operations -> {None, "sent", "accepted", "refused"}]
    /\ ui \in [actioning : Operations \cup {""}, confirm : Lifecycle \cup {None},
               failure : [action : Lifecycle \cup {None}, code : Codes],
               panel : {None, "stale", "ready"}, submitted : Lifecycle \cup {None},
               refreshing : BOOLEAN, deleteOpen : BOOLEAN]

(* The page is never locked by an operation that is over: what it says is     *)
(* under way still is, whichever of several operations ended first.           *)
ActioningReleased == ui.actioning # "" => ops[ui.actioning] # None
================================================================================
