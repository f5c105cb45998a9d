-------------------------------- MODULE TasksPage ---------------------------------
(* The tasks page (src/frontend/src/pages/TasksPage.tsx): the list, the drawer *)
(* of the task in the address, and what is done to a task from either.        *)
(*                                                                            *)
(* The drawer shows the task read last, which a late answer makes one other   *)
(* than that in the address; what its buttons do, they do to the task shown.  *)
(* A read of a task goes on when another is opened. Of retries, and of        *)
(* evidence reads, one is under way at a time (a bound; RetryRequest has      *)
(* more).                                                                     *)
EXTENDS TaskRules

CONSTANTS Ids,     \* the tasks there are
          Reported \* what a read may report of one

TasksAssumption == Reported \subseteq Task

VARIABLES url,      \* the task in the address
          selected, \* the task the drawer shows, as read last
          reads,    \* the tasks being read
          work      \* actioning, the operations under way, the hook's panel

tasksPage == <<url, selected, reads, work>>

None == "none"
Nothing == [id |-> None, task |-> NoTask]
NoRetry == [task |-> None, drawer |-> FALSE]
Idle == [actioning |-> "", cancels |-> [t \in Ids |-> None], retry |-> NoRetry,
         failed |-> None, panel |-> None, refreshing |-> None]

Init == url = None /\ selected = Nothing /\ reads = {} /\ work = Idle

--------------------------------------------------------------------------------
(* The address names a task: the drawer reads it, with nothing to show till then. *)
Opened(t) ==
    /\ url' = t
    /\ IF url = t THEN UNCHANGED <<selected, reads>>
       ELSE selected' = Nothing /\ reads' = reads \cup {t}

(* openTask: a row, or the link of a notification or of another page. *)
OpenTask(t) ==
    /\ url = None
    /\ Opened(t)
    /\ UNCHANGED work

(* closeDetail *)
CloseDetail ==
    /\ url # None
    /\ url' = None /\ selected' = Nothing
    /\ UNCHANGED <<reads, work>>

(* continueCreation, goToResource and inspectRecoveryHost leave the page. *)
Leave ==
    /\ url # None /\ selected # Nothing
    /\ url' = None /\ selected' = Nothing /\ reads' = {} /\ work' = Idle

(* loadDetail, at intervals, and its answer: the task, or an error. *)
PollDetail ==
    /\ url # None
    /\ reads' = reads \cup {url}
    /\ UNCHANGED <<url, selected, work>>

DetailArrives(t) ==
    /\ t \in reads
    /\ reads' = reads \ {t}
    /\ \/ \E task \in Reported : selected' = [id |-> t, task |-> task]
       \/ UNCHANGED selected
    /\ UNCHANGED <<url, work>>

--------------------------------------------------------------------------------
(* A task one may work on: in the drawer that it shows, in the list any that a *)
(* read may have brought by now (load), which makes the list no state here.    *)
Offered(t, task) == url # None => selected = [id |-> t, task |-> task]

(* action(item, 'cancel'): in the list not while another is under way. A call  *)
(* remembers whether it was made in the drawer of its task.                    *)
Cancel(t) ==
    /\ work.actioning # t /\ work.cancels[t] = None
    /\ IF url = None THEN work.actioning = "" ELSE work.retry = NoRetry
    /\ \E task \in Reported : Offered(t, task) /\ CanCancel(task)
    /\ work' = [work EXCEPT !.actioning = t,
                            !.cancels[t] = IF url = t THEN "drawer" ELSE "list"]
    /\ UNCHANGED <<url, selected, reads>>

(* The answer goes to the drawer if that was where it was asked, and to the list. *)
Canceled(t) ==
    /\ work.cancels[t] \in {"drawer", "list"}
    /\ IF work.cancels[t] = "drawer"
         THEN /\ \E task \in Reported : selected' = [id |-> t, task |-> task]
              /\ reads' = reads \cup {t}
         ELSE UNCHANGED <<selected, reads>>
    /\ work' = [work EXCEPT !.cancels[t] = "reading"]
    /\ UNCHANGED url

(* The list was read again, or the cancellation failed. *)
CancelSettled(t) ==
    /\ work.cancels[t] # None
    /\ work' = [work EXCEPT !.cancels[t] = None, !.actioning = ""]
    /\ UNCHANGED <<url, selected, reads>>

(* action(item, 'retry'), and the same from the hook's panel. *)
Retry(t) ==
    /\ \/ /\ work.actioning = ""
          /\ \E task \in Reported : Offered(t, task) /\ CanRetryTask(task) /\ ~InspectHost(task)
       \/ work.failed = t /\ url # t
    /\ work.failed = t => work.panel = "ready"
    /\ work.retry = NoRetry
    /\ work' = [work EXCEPT !.retry = [task |-> t, drawer |-> url = t],
                            !.failed = None, !.panel = None]
    /\ UNCHANGED <<url, selected, reads>>

(* Accepted, the page opens the task it made, n. *)
Retried(n) ==
    /\ work.retry.task \notin {None, n}
    /\ work' = [work EXCEPT !.retry = NoRetry]
    /\ Opened(n)

NotRetried ==
    /\ work.retry # NoRetry
    /\ \E panel \in {"stale", "ready"} :
         work' = [work EXCEPT !.retry = NoRetry, !.failed = work.retry.task, !.panel = panel]
    /\ reads' = IF work.retry.drawer THEN reads \cup {work.retry.task} ELSE reads
    /\ UNCHANGED <<url, selected>>

(* refreshRetryEvidence, of the panel. *)
RefreshEvidence ==
    /\ work.failed # None /\ work.retry = NoRetry /\ work.refreshing = None
    /\ work' = [work EXCEPT !.refreshing = IF url = None THEN "list" ELSE url]
    /\ UNCHANGED <<url, selected, reads>>

(* It finds a successor, which the page opens, or shows what it found; then the *)
(* page reads the task that was open when it was asked for.                     *)
ReadAgain == IF work.refreshing = "list" THEN {} ELSE {work.refreshing}

Followed(n) ==
    /\ work.refreshing # None
    /\ work' = [work EXCEPT !.refreshing = None, !.failed = None, !.panel = None]
    /\ url' = n
    /\ IF url = n THEN reads' = reads \cup ReadAgain /\ UNCHANGED selected
       ELSE reads' = reads \cup {n} \cup ReadAgain /\ selected' = Nothing

NotFollowed ==
    /\ work.refreshing # None
    /\ \E panel \in IF work.failed = None THEN {None} ELSE {"stale", "ready"} :
         work' = [work EXCEPT !.refreshing = None, !.panel = panel]
    /\ reads' = reads \cup ReadAgain
    /\ UNCHANGED <<url, selected>>

ClosePanel ==
    /\ work.failed # None
    /\ work' = [work EXCEPT !.failed = None, !.panel = None]
    /\ UNCHANGED <<url, selected, reads>>

Next ==
    \/ \E t \in Ids : \/ OpenTask(t) \/ DetailArrives(t)
                      \/ Cancel(t) \/ Canceled(t) \/ CancelSettled(t)
                      \/ Retry(t) \/ Retried(t) \/ Followed(t)
    \/ CloseDetail \/ Leave \/ PollDetail
    \/ NotRetried \/ RefreshEvidence \/ NotFollowed \/ ClosePanel

Spec == Init /\ [][Next]_tasksPage

--------------------------------------------------------------------------------
(* Every part of the state is of its type. *)
TypeOK ==
    /\ url \in Ids \cup {None}
    /\ selected \in [id : Ids \cup {None}, task : Reported \cup {NoTask}]
    /\ reads \subseteq Ids
    /\ work \in [actioning : Ids \cup {""},
                 cancels : [Ids -> {None, "drawer", "list", "reading"}],
                 retry : [task : Ids \cup {None}, drawer : BOOLEAN],
                 failed : Ids \cup {None}, panel : {None, "stale", "ready"},
                 refreshing : Ids \cup {None, "list"}]

(* The page is never locked by a cancellation that is over: where it shows one *)
(* under way, it is, although another may have ended since.                    *)
ActioningReleased == work.actioning # "" => work.cancels[work.actioning] # None
================================================================================
