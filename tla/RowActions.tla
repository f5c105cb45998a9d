-------------------------------- MODULE RowActions --------------------------------
(* Start, stop and restart from a row of the databases page, and the alert    *)
(* that follows the task there (src/frontend/src/pages/InstancesPage.tsx).    *)
(*                                                                            *)
(* There is one alert on the page: a second action replaces what it follows.  *)
(* The page reads the task it follows at intervals, and the answer goes into  *)
(* the alert there is by then. Tasks are numbered in the order of creation.   *)
(* A retry keeps only the task it is of from being retried beside it, so that *)
(* another one may begin when the alert has moved on.                         *)
EXTENDS TaskRules, Integers

CONSTANTS Items,    \* the databases listed
          Statuses, \* statuses of a database
          Reported, \* what a task read may report
          MaxTasks, \* bound on the tasks created
          MaxRetries \* bound on the retries under way at a time

RowsAssumption == Reported \subseteq Task /\ MaxTasks \in Nat /\ MaxRetries \in Nat

VARIABLES shown,  \* the statuses of the rows, as read last
          dialog, \* the row and action to confirm; actionSubmitting, actionRequestError
          alert,  \* actionResult: the database, and the task by number
          made,   \* the number of the task created last
          polls,  \* the tasks being read, by number
          retry   \* actionRetryingTaskID, and the retries under way: those that wait for
                  \* their answer, and those after which the list is read again

rowActions == <<shown, dialog, alert, made, polls, retry>>

None == "none"
NoDialog == [item |-> None, action |-> None, submitting |-> FALSE, error |-> FALSE]
NoAlert == [item |-> None, number |-> 0, task |-> NoTask]
NoRetry == [of |-> 0, sent |-> 0, answered |-> 0]

Init ==
    /\ shown = [i \in Items |-> None]
    /\ dialog = NoDialog /\ alert = NoAlert /\ made = 0 /\ polls = {} /\ retry = NoRetry

Covered == dialog.item # None
Following == alert.item # None

(* load *)
Arrives(item, status) ==
    /\ shown' = [shown EXCEPT ![item] = status]
    /\ UNCHANGED <<dialog, alert, made, polls, retry>>

(* openRowAction *)
OpenRowAction(item, action) ==
    /\ ~Covered /\ ~dialog.submitting /\ action \in ListActions(shown[item])
    /\ dialog' = [NoDialog EXCEPT !.item = item, !.action = action]
    /\ UNCHANGED <<shown, alert, made, polls, retry>>

CloseRowAction ==
    /\ Covered /\ ~dialog.submitting
    /\ dialog' = NoDialog
    /\ UNCHANGED <<shown, alert, made, polls, retry>>

(* submitLifecycleAction *)
Submit ==
    /\ Covered /\ ~dialog.submitting
    /\ dialog' = [dialog EXCEPT !.submitting = TRUE, !.error = FALSE]
    /\ UNCHANGED <<shown, alert, made, polls, retry>>

(* A new task, which the alert follows from now on; a read of it begins at once. *)
Follow(item) ==
    /\ made < MaxTasks
    /\ made' = made + 1
    /\ \E task \in Reported :
         IsActive(task) /\ alert' = [item |-> item, number |-> made', task |-> task]
    /\ polls' = polls \cup {made'}

Accepted ==
    /\ Covered /\ dialog.submitting
    /\ Follow(dialog.item)
    /\ dialog' = [NoDialog EXCEPT !.submitting = TRUE]
    /\ UNCHANGED <<shown, retry>>

(* The list was read again. *)
Settled ==
    /\ ~Covered /\ dialog.submitting
    /\ dialog' = NoDialog
    /\ UNCHANGED <<shown, alert, made, polls, retry>>

Refused ==
    /\ Covered /\ dialog.submitting
    /\ dialog' = [dialog EXCEPT !.submitting = FALSE, !.error = TRUE]
    /\ UNCHANGED <<shown, alert, made, polls, retry>>

(* refreshTrackedAction, at intervals while the task is active, or asked for. *)
Poll ==
    /\ Following
    /\ polls' = polls \cup {alert.number}
    /\ UNCHANGED <<shown, dialog, alert, made, retry>>

(* The answer replaces the task of the alert there is; a failed read says so. *)
PollArrives(number) ==
    /\ number \in polls
    /\ polls' = polls \ {number}
    /\ \/ \E task \in Reported :
            Following /\ alert' = [alert EXCEPT !.number = number, !.task = task]
       \/ UNCHANGED alert
    /\ UNCHANGED <<shown, dialog, made, retry>>

(* retryActionTask: of a failed task that does not point at its host and is    *)
(* not the one that is being retried.                                          *)
RetryTask ==
    /\ Following /\ ~Covered /\ CanRetryTask(alert.task) /\ ~InspectHost(alert.task)
    /\ retry.of # alert.number /\ retry.sent + retry.answered < MaxRetries
    /\ retry' = [retry EXCEPT !.of = alert.number, !.sent = @ + 1]
    /\ UNCHANGED <<shown, dialog, alert, made, polls>>

(* An alert that was dismissed meanwhile does not come back. *)
Retried ==
    /\ retry.sent > 0
    /\ IF Following THEN Follow(alert.item) ELSE UNCHANGED <<alert, made, polls>>
    /\ retry' = [retry EXCEPT !.sent = @ - 1, !.answered = @ + 1]
    /\ UNCHANGED <<shown, dialog>>

(* A retry failed, or the list was read again; whichever it is, no task is *)
(* said to be retried any more.                                            *)
RetrySettled ==
    /\ \/ retry.sent > 0 /\ retry' = [retry EXCEPT !.of = 0, !.sent = @ - 1]
       \/ retry.answered > 0 /\ retry' = [retry EXCEPT !.of = 0, !.answered = @ - 1]
    /\ UNCHANGED <<shown, dialog, alert, made, polls>>

Dismiss ==
    /\ Following /\ ~Covered
    /\ alert' = NoAlert
    /\ UNCHANGED <<shown, dialog, made, polls, retry>>

Next ==
    \/ \E item \in Items, status \in Statuses : Arrives(item, status)
    \/ \E item \in Items, action \in {"start", "stop", "restart"} : OpenRowAction(item, action)
    \/ CloseRowAction \/ Submit \/ Accepted \/ Settled \/ Refused
    \/ Poll \/ \E number \in polls : PollArrives(number)
    \/ RetryTask \/ Retried \/ RetrySettled \/ Dismiss

Spec == Init /\ [][Next]_rowActions

--------------------------------------------------------------------------------
(* Every part of the state is of its type. *)
TypeOK ==
    /\ shown \in [Items -> Statuses \cup {None}]
    /\ dialog \in [item : Items \cup {None}, action : {None, "start", "stop", "restart"},
                   submitting : BOOLEAN, error : BOOLEAN]
    /\ alert \in [item : Items \cup {None}, number : 0 .. MaxTasks, task : Reported \cup {NoTask}]
    /\ made \in 0 .. MaxTasks
    /\ polls \subseteq 1 .. MaxTasks
    /\ retry \in [of : 0 .. MaxTasks, sent : 0 .. MaxRetries, answered : 0 .. MaxRetries]
================================================================================
