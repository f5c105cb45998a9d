------------------------------ MODULE CleanupReview ------------------------------
(* The dialog that deletes a database: what it must have read before it sends *)
(* the request (src/frontend/src/components/InstanceCleanupReview.tsx,        *)
(* lib/instance-delete.ts). The pages that hold it open and close it.         *)
(*                                                                            *)
(* Every read and every request is in flight until its answer is handled, and *)
(* what an answer says is any of what the server may say: whether the         *)
(* database may be deleted, has backups, or is gone changes all the time. A   *)
(* read goes on when the dialog is closed and opened again.                   *)
EXTENDS Naturals

CONSTANTS MaxLoads,   \* bound on the reads in flight
          MaxDeletes  \* bound on the requests in flight, of a kind

CleanupAssumption == MaxLoads \in Nat /\ MaxDeletes \in Nat

VARIABLES dialog,     \* the state of the component
          reviews,    \* reads in flight
          deletes,    \* requests to delete the database, sent or accepted
          purges,     \* requests to delete a backup in flight
          unreviewed  \* history: a delete failed and no evidence has come since

cleanup == <<dialog, reviews, deletes, purges, unreviewed>>

Answers == {"ready", "blocked", "backups"}  \* deleteReady, or what the blockers are
Load == [clear : BOOLEAN, step : {"review", "backups"},
         then : {"none", "delete", "backup", "retry"}]
NoLoad == [step |-> "none"]

Fresh == [open |-> FALSE, review |-> "none", loading |-> FALSE, error |-> FALSE,
          confirmed |-> FALSE, submitting |-> FALSE, failure |-> FALSE, needsRefresh |-> FALSE,
          listed |-> FALSE, listError |-> FALSE, backup |-> "none", purging |-> FALSE,
          purgeFailure |-> FALSE, purgeNeedsRefresh |-> FALSE, queued |-> FALSE]

Init ==
    /\ dialog = Fresh
    /\ reviews = [l \in 1 .. MaxLoads |-> NoLoad]
    /\ deletes = [sent |-> 0, accepted |-> 0]
    /\ purges = 0
    /\ unreviewed = FALSE

--------------------------------------------------------------------------------
(* loadReview: d is the dialog as whoever loads leaves it. *)

StartLoad(d, clear, then) ==
    \E l \in DOMAIN reviews :
        /\ reviews[l] = NoLoad /\ \A k \in 1 .. l - 1 : reviews[k] # NoLoad
        /\ reviews' = [reviews EXCEPT ![l] = [clear |-> clear, step |-> "review", then |-> then]]
        /\ dialog' = [d EXCEPT !.loading = TRUE, !.error = FALSE]

Cleared(d) ==
    [d EXCEPT !.failure = FALSE, !.needsRefresh = FALSE, !.confirmed = FALSE,
              !.purgeFailure = FALSE, !.purgeNeedsRefresh = FALSE, !.queued = FALSE]

(* What waited for the read goes on: the end of submitDelete or of *)
(* submitBackupDelete, which after a failure asks how the read went. *)
Ended(d, then, ready) ==
    [d EXCEPT !.submitting = @ /\ then # "delete",
              !.purging = @ /\ then \notin {"backup", "retry"},
              !.purgeNeedsRefresh = @ /\ ~(then = "retry" /\ ready)]

EndLoad(l, d, ready) ==
    LET load == reviews[l]
        done == IF load.clear /\ ready THEN Cleared(d) ELSE d
    IN /\ reviews' = [reviews EXCEPT ![l] = NoLoad]
       /\ dialog' = Ended([done EXCEPT !.loading = FALSE], load.then, ready)

Reading(l, step) == reviews[l].step = step

(* The review arrives; if it counts backups, they are read too. *)
ReviewArrives(l) ==
    /\ Reading(l, "review")
    /\ \E answer \in Answers :
         LET d == [dialog EXCEPT !.review = answer, !.listError = FALSE]
         IN IF answer = "backups"
              THEN dialog' = d /\ reviews' = [reviews EXCEPT ![l].step = "backups"]
              ELSE EndLoad(l, [d EXCEPT !.listed = FALSE], TRUE)
    /\ unreviewed' = FALSE
    /\ UNCHANGED <<deletes, purges>>

(* The database is gone, which closes the dialog, or the read failed. *)
ReviewFails(l) ==
    /\ Reading(l, "review")
    /\ \E missing \in BOOLEAN :
         EndLoad(l, [dialog EXCEPT !.open = @ /\ ~missing, !.error = @ \/ ~missing], FALSE)
    /\ UNCHANGED <<deletes, purges, unreviewed>>

BackupsArrive(l) ==
    /\ Reading(l, "backups")
    /\ \E listed \in BOOLEAN :
         /\ EndLoad(l, [dialog EXCEPT !.listed = listed, !.listError = ~listed], listed)
         /\ unreviewed' = (unreviewed /\ ~listed)
    /\ UNCHANGED <<deletes, purges>>

(* Mutant: the review of the last time is still there. *)
OpenUnread ==
    /\ ~dialog.open
    /\ StartLoad([Fresh EXCEPT !.open = TRUE, !.review = dialog.review], FALSE, "none")
    /\ UNCHANGED <<deletes, purges, unreviewed>>

(* The effect on open forgets everything but what is in flight. *)
Open ==
    /\ ~dialog.open
    /\ StartLoad([Fresh EXCEPT !.open = TRUE], FALSE, "none")
    /\ UNCHANGED <<deletes, purges, unreviewed>>

(* close: the parent closes the dialog, unless something is being submitted. *)
Close ==
    /\ dialog.open /\ ~dialog.submitting /\ ~dialog.purging
    /\ dialog' = [dialog EXCEPT !.open = FALSE]
    /\ UNCHANGED <<reviews, deletes, purges, unreviewed>>

--------------------------------------------------------------------------------
Evidence(d) ==
    CASE d.loading /\ d.review = "none" -> "loading"
      [] ~(d.loading /\ d.review = "none") /\ (d.error \/ d.review = "none") -> "error"
      [] OTHER -> IF d.review = "ready" THEN "ready" ELSE "blocked"

CanSubmit(d) == d.review = "ready" /\ d.confirmed /\ ~d.submitting /\ ~d.needsRefresh

(* The panels' refresh buttons spin, and are dead, while the dialog loads. *)
RefreshStatus ==
    /\ dialog.open /\ ~dialog.loading
    /\ Evidence(dialog) \in {"error", "blocked"} \/ dialog.failure
    /\ StartLoad(dialog, TRUE, "none")
    /\ UNCHANGED <<deletes, purges, unreviewed>>

(* The button beside a list of backups that failed does neither. *)
RetryList ==
    /\ dialog.open /\ Evidence(dialog) = "blocked" /\ dialog.review = "backups" /\ dialog.listError
    /\ StartLoad(dialog, FALSE, "none")
    /\ UNCHANGED <<deletes, purges, unreviewed>>

TypeName ==
    /\ dialog.open /\ Evidence(dialog) = "ready" /\ ~dialog.submitting /\ ~dialog.needsRefresh
    /\ \E matches \in BOOLEAN : dialog' = [dialog EXCEPT !.confirmed = matches]
    /\ UNCHANGED <<reviews, deletes, purges, unreviewed>>

(* submitDelete *)
SubmitDelete ==
    /\ dialog.open /\ CanSubmit(dialog)
    /\ deletes.sent < MaxDeletes
    /\ deletes' = [deletes EXCEPT !.sent = @ + 1]
    /\ dialog' = [dialog EXCEPT !.submitting = TRUE, !.failure = FALSE]
    /\ UNCHANGED <<reviews, purges, unreviewed>>

DeleteQueued ==
    /\ deletes.sent > 0 /\ deletes.accepted < MaxDeletes
    /\ deletes' = [sent |-> deletes.sent - 1, accepted |-> deletes.accepted + 1]
    /\ dialog' = [dialog EXCEPT !.open = FALSE]
    /\ UNCHANGED <<reviews, purges, unreviewed>>

(* onDeleteQueued has shown the task, however late. *)
DeleteFollowed ==
    /\ deletes.accepted > 0
    /\ deletes' = [deletes EXCEPT !.accepted = @ - 1]
    /\ dialog' = [dialog EXCEPT !.submitting = FALSE]
    /\ UNCHANGED <<reviews, purges, unreviewed>>

DeleteFails ==
    /\ deletes.sent > 0
    /\ deletes' = [deletes EXCEPT !.sent = @ - 1]
    /\ StartLoad([dialog EXCEPT !.failure = TRUE, !.confirmed = FALSE, !.needsRefresh = TRUE],
                 FALSE, "delete")
    /\ unreviewed' = TRUE
    /\ UNCHANGED purges

--------------------------------------------------------------------------------
(* Backups. *)

PickBackup ==
    /\ dialog.open /\ Evidence(dialog) = "blocked" /\ dialog.review = "backups" /\ dialog.listed
    /\ ~dialog.purging /\ ~dialog.purgeNeedsRefresh /\ dialog.backup = "none"
    /\ dialog' = [dialog EXCEPT !.backup = "picked", !.purgeFailure = FALSE]
    /\ UNCHANGED <<reviews, deletes, purges, unreviewed>>

TypeBackup ==
    /\ dialog.open /\ dialog.backup # "none" /\ ~dialog.purging /\ ~dialog.purgeNeedsRefresh
    /\ \E typed \in {"picked", "typed"} : dialog' = [dialog EXCEPT !.backup = typed]
    /\ UNCHANGED <<reviews, deletes, purges, unreviewed>>

DropBackup ==
    /\ dialog.open /\ dialog.backup # "none" /\ ~dialog.purging
    /\ dialog' = [dialog EXCEPT !.backup = "none", !.purgeFailure = FALSE]
    /\ UNCHANGED <<reviews, deletes, purges, unreviewed>>

(* submitBackupDelete *)
SubmitPurge ==
    /\ dialog.open /\ dialog.backup = "typed" /\ ~dialog.purging /\ ~dialog.purgeNeedsRefresh
    /\ purges < MaxDeletes
    /\ purges' = purges + 1
    /\ dialog' = [dialog EXCEPT !.purging = TRUE, !.purgeFailure = FALSE]
    /\ UNCHANGED <<reviews, deletes, unreviewed>>

PurgeQueued ==
    /\ purges > 0
    /\ purges' = purges - 1
    /\ StartLoad([dialog EXCEPT !.queued = TRUE, !.backup = "none"], FALSE, "backup")
    /\ UNCHANGED <<deletes, unreviewed>>

PurgeFails ==
    /\ purges > 0
    /\ purges' = purges - 1
    /\ StartLoad([dialog EXCEPT !.purgeFailure = TRUE, !.purgeNeedsRefresh = TRUE, !.backup = "none"],
                 FALSE, "retry")
    /\ UNCHANGED <<deletes, unreviewed>>

Next ==
    \/ Open \/ Close \/ RefreshStatus \/ RetryList
    \/ \E l \in 1 .. MaxLoads : ReviewArrives(l) \/ ReviewFails(l) \/ BackupsArrive(l)
    \/ TypeName \/ SubmitDelete \/ DeleteQueued \/ DeleteFollowed \/ DeleteFails
    \/ PickBackup \/ TypeBackup \/ DropBackup \/ SubmitPurge \/ PurgeQueued \/ PurgeFails

Spec == Init /\ [][Next]_cleanup

--------------------------------------------------------------------------------
(* Every part of the state is of its type. *)
TypeOK ==
    /\ dialog \in [open : BOOLEAN, review : Answers \cup {"none"}, loading : BOOLEAN, error : BOOLEAN,
                   confirmed : BOOLEAN, submitting : BOOLEAN, failure : BOOLEAN,
                   needsRefresh : BOOLEAN, listed : BOOLEAN, listError : BOOLEAN,
                   backup : {"none", "picked", "typed"}, purging : BOOLEAN,
                   purgeFailure : BOOLEAN, purgeNeedsRefresh : BOOLEAN, queued : BOOLEAN]
    /\ reviews \in [1 .. MaxLoads -> {NoLoad} \cup Load]
    /\ deletes \in [sent : 0 .. MaxDeletes, accepted : 0 .. MaxDeletes]
    /\ purges \in 0 .. MaxDeletes
    /\ unreviewed \in BOOLEAN

(* After a request to delete a database has failed, which may have been       *)
(* accepted all the same, none is sent before evidence of what it may have    *)
(* done, a review or the list of backups that ends one, has come; however the *)
(* dialog is closed, opened and refreshed meanwhile. (The evidence may be of  *)
(* a read begun before the failure, when the dialog was opened again over it.) *)
ReviewedSinceFailure == [][deletes'.sent > deletes.sent => ~unreviewed]_cleanup
================================================================================
