-------------------------------- MODULE Browser --------------------------------
(* The parts of the browser together, one of which is mounted: the others do  *)
(* not move, so that the states of the parts add up instead of multiplying.   *)
(* They share no state; what joins them is the server, whose answers each of  *)
(* them takes as they may come.                                               *)
EXTENDS RetryRequest

CONSTANTS
    Databases, Versions, \* what is listed: databases, versions of the templates, ...
    Machines, TaskIds,   \* ... hosts, tasks
    Lifecycle, DatabaseStatuses,
    (* What the server may answer: the newest task of a database, of a row, of a *)
    (* host, of what wants attention; the task a user came from; any task.       *)
    Newest, RowTasks, Probes, Attention, Origin, Reported,
    (* The form of a host, and the draft of a database. *)
    Connections, KeyOf, Stored, Fitting, Runs, Sizes, Preset,
    (* Bounds. *)
    MaxLoads, MaxDeletes, MaxSaves, MaxProven, MaxWork, MaxCopies, MaxFollowed

VARIABLES mounted,
          dialog, reviews, deletes, purges, unreviewed,
          hostRows, proven, saves, returning, list, editor,
          shownInstance, tab, credentials, logs, confirming,
          known, ops, ui,
          drawer, contexts, recovery, hostWork, removal,
          data, address, wizard, createFailure, createWork,
          ready, handoff, current, copies,
          shown, rowDialog, alert, made, polls, rowRetry,
          url, selected, reads, taskWork,
          board, loading, boardWork

dialogVars == <<dialog, reviews, deletes, purges, unreviewed>>
editorVars == <<hostRows, proven, saves, returning, list, editor>>
connectionVars == <<shownInstance, tab, credentials, logs, confirming>>
actionVars == <<known, ops, ui>>
hostVars == <<drawer, contexts, recovery, hostWork, removal>>
creationVars == <<data, address, wizard, createFailure, createWork>>
handoffVars == <<ready, handoff, current, copies>>
rowVars == <<shown, rowDialog, alert, made, polls, rowRetry>>
tasksVars == <<url, selected, reads, taskWork>>
boardVars == <<board, loading, boardWork>>

CR == INSTANCE CleanupReview
HE == INSTANCE HostEditor WITH rows <- hostRows
CN == INSTANCE InstanceConnection WITH known <- shownInstance, Statuses <- DatabaseStatuses
IA == INSTANCE InstanceActions WITH Statuses <- DatabaseStatuses
HD == INSTANCE HostDetails WITH
        reads <- contexts, work <- hostWork, Hosts <- Machines, Newest <- Probes
IC == INSTANCE InstanceCreation WITH
        url <- address, failure <- createFailure, work <- createWork, Hosts <- Machines
QH == INSTANCE QuickHandoff WITH Items <- Databases, MaxRequests <- MaxCopies
RA == INSTANCE RowActions WITH
        dialog <- rowDialog, retry <- rowRetry, Items <- Databases, Statuses <- DatabaseStatuses,
        Reported <- RowTasks, MaxTasks <- MaxFollowed, MaxRetries <- MaxWork
TP == INSTANCE TasksPage WITH work <- taskWork, Ids <- TaskIds
DP == INSTANCE DashboardPage WITH work <- boardWork, Items <- Databases, Reported <- Attention

(* The constants are what the parts assume of them. *)
ASSUME PartsAssumption ==
    /\ CR!CleanupAssumption /\ HE!EditorAssumption /\ CN!ConnectionAssumption
    /\ IA!ActionsAssumption /\ HD!HostsAssumption /\ IC!CreationAssumption
    /\ QH!HandoffAssumption /\ RA!RowsAssumption /\ TP!TasksAssumption /\ DP!DashboardAssumption

(* A part that is not mounted has no state; the retry and the dialog keep their *)
(* first one.                                                                  *)
Off == "not mounted"

BrowserInit ==
    /\ mounted \in {"retry", "delete dialog", "host editor", "connection", "actions",
                   "host details", "creation", "handoff", "row actions", "tasks",
                   "dashboard"}
    /\ Init /\ CR!Init
    /\ IF mounted = "host editor" THEN HE!Init
       ELSE /\ hostRows = Off /\ proven = Off /\ saves = Off /\ returning = Off
            /\ list = Off /\ editor = Off
    /\ IF mounted = "connection" THEN CN!Init
       ELSE /\ shownInstance = Off /\ tab = Off /\ credentials = Off /\ logs = Off
            /\ confirming = Off
    /\ IF mounted = "actions" THEN IA!Init ELSE known = Off /\ ops = Off /\ ui = Off
    /\ IF mounted = "host details" THEN HD!Init
       ELSE /\ drawer = Off /\ contexts = Off /\ recovery = Off /\ hostWork = Off
            /\ removal = Off
    /\ IF mounted = "creation" THEN IC!Init
       ELSE /\ data = Off /\ address = Off /\ wizard = Off /\ createFailure = Off
            /\ createWork = Off
    /\ IF mounted = "handoff" THEN QH!Init
       ELSE ready = Off /\ handoff = Off /\ current = Off /\ copies = Off
    /\ IF mounted = "row actions" THEN RA!Init
       ELSE /\ shown = Off /\ rowDialog = Off /\ alert = Off /\ made = Off /\ polls = Off
            /\ rowRetry = Off
    /\ IF mounted = "tasks" THEN TP!Init
       ELSE url = Off /\ selected = Off /\ reads = Off /\ taskWork = Off
    /\ IF mounted = "dashboard" THEN DP!Init
       ELSE board = Off /\ loading = Off /\ boardWork = Off

BrowserNext ==
    \/ /\ mounted = "retry" /\ Next
       /\ UNCHANGED <<dialogVars, editorVars, connectionVars, actionVars, hostVars, creationVars,
                      handoffVars, rowVars, tasksVars, boardVars, mounted>>
    \/ /\ mounted = "delete dialog" /\ CR!Next
       /\ UNCHANGED <<vars, editorVars, connectionVars, actionVars, hostVars, creationVars,
                      handoffVars, rowVars, tasksVars, boardVars, mounted>>
    \/ /\ mounted = "host editor" /\ HE!Next
       /\ UNCHANGED <<vars, dialogVars, connectionVars, actionVars, hostVars, creationVars,
                      handoffVars, rowVars, tasksVars, boardVars, mounted>>
    \/ /\ mounted = "connection" /\ CN!Next
       /\ UNCHANGED <<vars, dialogVars, editorVars, actionVars, hostVars, creationVars,
                      handoffVars, rowVars, tasksVars, boardVars, mounted>>
    \/ /\ mounted = "actions" /\ IA!Next
       /\ UNCHANGED <<vars, dialogVars, editorVars, connectionVars, hostVars, creationVars,
                      handoffVars, rowVars, tasksVars, boardVars, mounted>>
    \/ /\ mounted = "host details" /\ HD!Next
       /\ UNCHANGED <<vars, dialogVars, editorVars, connectionVars, actionVars, creationVars,
                      handoffVars, rowVars, tasksVars, boardVars, mounted>>
    \/ /\ mounted = "creation" /\ IC!Next
       /\ UNCHANGED <<vars, dialogVars, editorVars, connectionVars, actionVars, hostVars,
                      handoffVars, rowVars, tasksVars, boardVars, mounted>>
    \/ /\ mounted = "handoff" /\ QH!Next
       /\ UNCHANGED <<vars, dialogVars, editorVars, connectionVars, actionVars, hostVars,
                      creationVars, rowVars, tasksVars, boardVars, mounted>>
    \/ /\ mounted = "row actions" /\ RA!Next
       /\ UNCHANGED <<vars, dialogVars, editorVars, connectionVars, actionVars, hostVars,
                      creationVars, handoffVars, tasksVars, boardVars, mounted>>
    \/ /\ mounted = "tasks" /\ TP!Next
       /\ UNCHANGED <<vars, dialogVars, editorVars, connectionVars, actionVars, hostVars,
                      creationVars, handoffVars, rowVars, boardVars, mounted>>
    \/ /\ mounted = "dashboard" /\ DP!Next
       /\ UNCHANGED <<vars, dialogVars, editorVars, connectionVars, actionVars, hostVars,
                      creationVars, handoffVars, rowVars, tasksVars, mounted>>

BrowserVars == <<mounted, vars, dialogVars, editorVars, connectionVars, actionVars, hostVars,
                 creationVars, handoffVars, rowVars, tasksVars, boardVars>>
BrowserSpec == BrowserInit /\ [][BrowserNext]_BrowserVars

--------------------------------------------------------------------------------
(* The part that is mounted is of its type. *)
PagesTypeOK ==
    /\ mounted = "retry" => TypeOK
    /\ mounted = "delete dialog" => CR!TypeOK
    /\ mounted = "host editor" => HE!TypeOK
    /\ mounted = "connection" => CN!TypeOK
    /\ mounted = "actions" => IA!TypeOK
    /\ mounted = "host details" => HD!TypeOK
    /\ mounted = "creation" => IC!TypeOK
    /\ mounted = "handoff" => QH!TypeOK
    /\ mounted = "row actions" => RA!TypeOK
    /\ mounted = "tasks" => TP!TypeOK
    /\ mounted = "dashboard" => DP!TypeOK

(* HostEditor: what is stored for a host was found to work for it. *)
SavedVerified == mounted = "host editor" => HE!SavedVerified

(* QuickHandoff: a copy that was overtaken changes nothing of the dialog. *)
HandoffCurrent == mounted = "handoff" => QH!HandoffCurrent

(* InstanceCreation: a failure that is being checked is being checked by a refresh. *)
NeverStuckChecking == mounted = "creation" => IC!NeverStuckChecking

(* CleanupReview: no deletion is sent again before evidence of the failed one. *)
ReviewedSinceFailure == CR!ReviewedSinceFailure

(* No page is locked by an operation of its own that is over. *)
ActioningReleased ==
    /\ mounted = "actions" => IA!ActioningReleased
    /\ mounted = "host details" => HD!ActioningReleased
    /\ mounted = "tasks" => TP!ActioningReleased
    /\ mounted = "dashboard" => DP!PlaceholderReleased
================================================================================
