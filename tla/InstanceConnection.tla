--------------------------- MODULE InstanceConnection ----------------------------
(* The tabs of the page of one database (src/frontend/src/pages/              *)
(* InstanceDetailPage.tsx): its credentials, its logs, and the ways from what *)
(* was recovered or deployed to the credentials. What the page does to the    *)
(* database is in InstanceActions.                                            *)
(*                                                                            *)
(* The page reads the database and its tasks at intervals, so news may arrive *)
(* at any time and bring any of the values the server may have. A read is in  *)
(* flight until its answer is handled, wherever the user is by then.          *)
EXTENDS TaskRules

CONSTANTS Statuses, \* statuses of the database
          Newest    \* the newest task there may be

ConnectionAssumption == Newest \subseteq Task \cup {NoTask}

VARIABLES known,       \* the database and its tasks, as read last
          tab,         \* activeTab
          credentials, \* the connection shown, its error, and whether it is being read
          logs,        \* whether logs are shown, and being read; logsAutoRefresh
          confirming   \* requestedRecoveryTaskID: a recovery is to be confirmed

vars == <<known, tab, credentials, logs, confirming>>

None == "none"
Tabs == {"overview", "connection", "logs"}
Offer == {None, "recovered", "deployed"}

Init ==
    /\ known = [status |-> None, newest |-> NoTask, inventory |-> "loading", offer |-> None]
    /\ tab \in Tabs
    /\ credentials = [shown |-> FALSE, error |-> FALSE, loading |-> FALSE]
    /\ logs = [shown |-> FALSE, reading |-> FALSE, auto |-> TRUE]
    /\ confirming \in BOOLEAN

--------------------------------------------------------------------------------
Loaded == known.status # None
Operation == OperationTask(known.newest, known.status \in RecoverableStatuses)

(* load: the database, then its tasks; either may fail. What the tasks offer   *)
(* beside the newest is a recovery to confirm, or a deployment that is ready.  *)
Arrives ==
    /\ \E status \in Statuses, newest \in Newest, offer \in Offer :
         \/ known' = [status |-> status, newest |-> newest, inventory |-> "ready", offer |-> offer]
         \/ known' = [known EXCEPT !.status = status, !.inventory = "error"]
    /\ UNCHANGED <<tab, credentials, logs, confirming>>

(* The effect on activeTab drops the credentials. *)
ShowTab(to) ==
    /\ tab' = to
    /\ credentials' =
         IF to = "connection" THEN credentials ELSE [credentials EXCEPT !.shown = FALSE, !.error = FALSE]

(* changeTab, which the buttons for the logs call too, or another tab in the URL. *)
ChangeTab(to) ==
    /\ Loaded /\ to # tab
    /\ ShowTab(to)
    /\ UNCHANGED <<known, logs, confirming>>

(* loadConnection, unless its button spins. *)
LoadConnection ==
    /\ Loaded /\ tab = "connection" /\ ~credentials.loading
    /\ credentials' = [credentials EXCEPT !.loading = TRUE]
    /\ UNCHANGED <<known, tab, logs, confirming>>

(* recoveryConfirmationPanel with a recovery that is ready, or deploymentReadyPanel. *)
HandoffOffered ==
    /\ tab = "overview" /\ Operation = NoTask /\ known.status = "running"
    /\ IF confirming THEN known.inventory = "ready" /\ known.offer = "recovered"
       ELSE known.offer = "deployed"

ShowConnectionHandoff ==
    /\ HandoffOffered /\ ~credentials.loading
    /\ tab' = "connection"
    /\ credentials' = [credentials EXCEPT !.loading = TRUE]
    /\ UNCHANGED <<known, logs, confirming>>

(* The answer is kept, wherever the user is by then; a failure keeps what is shown. *)
ConnectionArrives ==
    /\ credentials.loading
    /\ \/ credentials' = [shown |-> TRUE, error |-> FALSE, loading |-> FALSE]
       \/ credentials' = [credentials EXCEPT !.error = TRUE, !.loading = FALSE]
    /\ UNCHANGED <<known, tab, logs, confirming>>

HideConnection ==
    /\ tab = "connection" /\ credentials.shown
    /\ credentials' = [credentials EXCEPT !.shown = FALSE, !.error = FALSE]
    /\ UNCHANGED <<known, tab, logs, confirming>>

(* loadLogs: when the tab is shown, at intervals, or asked for. *)
LoadLogs ==
    /\ Loaded /\ tab = "logs"
    /\ logs' = [logs EXCEPT !.reading = TRUE]
    /\ UNCHANGED <<known, tab, credentials, confirming>>

LogsArrive ==
    /\ logs.reading
    /\ \E shown \in {TRUE, logs.shown} : logs' = [logs EXCEPT !.shown = shown, !.reading = FALSE]
    /\ UNCHANGED <<known, tab, credentials, confirming>>

SetAutoRefresh ==
    /\ Loaded /\ tab = "logs"
    /\ logs' = [logs EXCEPT !.auto = ~@]
    /\ UNCHANGED <<known, tab, credentials, confirming>>

FinishConfirmation ==
    /\ Loaded /\ confirming /\ tab = "overview"
    /\ known.inventory # "ready" \/ known.offer # "recovered" \/ Operation = NoTask
    /\ confirming' = FALSE
    /\ UNCHANGED <<known, tab, credentials, logs>>

Next ==
    \/ Arrives \/ LoadConnection \/ ShowConnectionHandoff \/ ConnectionArrives \/ HideConnection
    \/ \E to \in Tabs : ChangeTab(to)
    \/ LoadLogs \/ LogsArrive \/ SetAutoRefresh \/ FinishConfirmation

Spec == Init /\ [][Next]_vars

--------------------------------------------------------------------------------
(* Every part of the state is of its type. *)
TypeOK ==
    /\ known \in [status : Statuses \cup {None}, newest : Newest \cup {NoTask},
                  inventory : {"loading", "ready", "error"}, offer : Offer]
    /\ tab \in Tabs
    /\ credentials \in [shown : BOOLEAN, error : BOOLEAN, loading : BOOLEAN]
    /\ logs \in [shown : BOOLEAN, reading : BOOLEAN, auto : BOOLEAN]
    /\ confirming \in BOOLEAN

(* Credentials are kept while their tab is shown and no longer: leaving it     *)
(* drops them, and nothing that was under way then brings them back.           *)
ClearedOffTab == credentials.shown => tab = "connection"
================================================================================
