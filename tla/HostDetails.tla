------------------------------- MODULE HostDetails -------------------------------
(* The drawer of a host and the dialog that deletes one (src/frontend/src/    *)
(* pages/HostsPage.tsx; its editor is HostEditor): what is read of the host's *)
(* databases and tasks, the probe, the retry of its task or of the task of a  *)
(* database the user came from, and the deletion.                             *)
(*                                                                            *)
(* Lists are read at intervals, so news may arrive at any time and bring any  *)
(* of the values the server may have. A host's context is read when it is     *)
(* opened, at intervals and after what is done to it, any number of reads may *)
(* be under way and take any time, and an answer is kept although another     *)
(* host is shown by then, or none. A retry goes on likewise, and its answer   *)
(* opens the host again that it was sent from. Operations, also two of a      *)
(* kind, may be under way together: each clears `actioning` when it ends.     *)
EXTENDS TaskRules, Naturals

CONSTANTS Hosts,  \* the hosts there may be
          Newest, \* the newest task of a host there may be
          Origin, \* the task of a database the user may have come from
          MaxWork \* bound on operations, and a refresh of the panel, under way at a time

HostsAssumption ==
    /\ {"none", "settling"} \cap Hosts = {}
    /\ Newest \subseteq Task \cup {NoTask} /\ Origin \subseteq Task /\ MaxWork \in Nat

VARIABLES drawer,   \* the host shown, and what is read of it
          reads,    \* the hosts whose context has been asked for
          recovery, \* the task in the URL: asked for, as read
          work,     \* operations under way, actioning, and the state of the hook
          removal   \* the dialog that deletes a host

vars == <<drawer, reads, recovery, work, removal>>

None == "none"
Operations == {"probe", "retry", "retry-recovery"}
Slots == 1 .. MaxWork

(* hostContextState; once read, the host has databases or not. *)
Read == {"free", "in use"}

Closed == [host |-> None, online |-> FALSE, context |-> "idle", newest |-> NoTask]
NoRecovery == [asked |-> FALSE, task |-> NoTask]
NoOp == [kind |-> None, at |-> None]
NoRefresh == [on |-> FALSE, host |-> None, preserve |-> FALSE]
NoRemoval == [host |-> None, typed |-> FALSE, needsRefresh |-> FALSE, deleting |-> FALSE,
              refreshing |-> None]

Init ==
    /\ drawer = Closed
    /\ reads = {}
    /\ recovery \in [asked : BOOLEAN, task : {NoTask}]
    /\ work = [ops |-> [s \in Slots |-> NoOp], actioning |-> "", submitting |-> FALSE,
               panel |-> None, refresh |-> NoRefresh]
    /\ removal = NoRemoval

--------------------------------------------------------------------------------
Shown == drawer.host # None
Uncovered == removal.host = None
FailedOne == FailedTask(drawer.newest, ~drawer.online)
HostActive == IsActive(drawer.newest)

(* A button is disabled during another operation and loading during its own. *)
Idle == work.actioning = ""

(* The bound on what is under way, which a refresh of the panel counts against. *)
Free == {s \in Slots : work.ops[s] = NoOp}

(* hostTaskRecoveryPhase; the task is of the host in the URL. *)
RecoveryPhase ==
    IF recovery.task = NoTask THEN None
    ELSE HostRecoveryPhase(recovery.task, TRUE, drawer.online, HostActive)

(* load: the list, from which the drawer takes its host. *)
ListArrives ==
    /\ Shown
    /\ drawer' = [drawer EXCEPT !.online = ~@]
    /\ UNCHANGED <<reads, recovery, work, removal>>

(* openDetail, or another host in the URL: the effect on its id reads its context. *)
OpenDetail(h) ==
    /\ drawer.host # h /\ Uncovered
    /\ \E online \in BOOLEAN :
         drawer' = [drawer EXCEPT !.host = h, !.online = online, !.context = "loading"]
    /\ reads' = reads \cup {h}
    /\ recovery' = IF Shown THEN NoRecovery ELSE recovery
    /\ UNCHANGED <<work, removal>>

(* closeDetail: the effect on the id forgets the context. *)
CloseDetail ==
    /\ Shown /\ Uncovered
    /\ drawer' = Closed
    /\ recovery' = NoRecovery
    /\ UNCHANGED <<reads, work, removal>>

(* loadHostContext: the answer is kept whichever host is shown by then. *)
ContextArrives(h) ==
    /\ h \in reads
    /\ \E newest \in Newest, context \in Read :
         drawer' = [drawer EXCEPT !.context = context, !.newest = newest]
    /\ UNCHANGED <<reads, recovery, work, removal>>

ContextFails(h) ==
    /\ h \in reads
    /\ drawer' = [drawer EXCEPT !.context = "error"]
    /\ UNCHANGED <<reads, recovery, work, removal>>

(* loadRecoveryTask: at first, at intervals or on request. *)
RecoveryArrives ==
    /\ Shown /\ recovery.asked
    /\ \E task \in Origin : recovery' = [recovery EXCEPT !.task = task]
    /\ UNCHANGED <<drawer, reads, work, removal>>

--------------------------------------------------------------------------------
(* The probe and the retries. *)

(* An operation o on host h, in a free slot: of the host until it is answered, *)
(* then settling. A retry is what the hook is submitting.                      *)
Send(o, h, panel) ==
    /\ \E s \in Slots :
         /\ s \in Free /\ \A r \in Free : s <= r
         /\ work.refresh.on => Free # {s}
         /\ work' = [work EXCEPT !.ops[s] = [kind |-> o, at |-> h], !.actioning = o,
                                !.submitting = @ \/ o # "probe", !.panel = panel]
    /\ UNCHANGED <<drawer, reads, recovery, removal>>

Sent(s) == work.ops[s].at \in Hosts
IsProbe(s) == work.ops[s].kind = "probe"

(* action(item, 'probe'), in the drawer; in the list whatever its tasks are. *)
Probe(h) ==
    /\ Uncovered /\ Idle
    /\ Shown => h = drawer.host /\ ~HostActive
    /\ Send("probe", h, work.panel)

Probed(s) ==
    /\ Sent(s) /\ IsProbe(s)
    /\ work' = [work EXCEPT !.ops[s].at = "settling"]
    /\ \E newest \in Newest : IsActive(newest) /\ drawer' = [drawer EXCEPT !.newest = newest]
    /\ reads' = reads \cup {work.ops[s].at}
    /\ UNCHANGED <<recovery, removal>>

(* retryTask: of the failed task of the host. The button is hidden only while  *)
(* the panel is about this very task; tasks are not told apart here.           *)
Retry ==
    /\ Shown /\ Uncovered /\ Idle
    /\ FailedOne # NoTask /\ ~recovery.asked
    /\ Send("retry", drawer.host, None)

(* retryRecoveryTask: of the task the user came from; hidden likewise. *)
RetryRecovery ==
    /\ Shown /\ Uncovered /\ Idle
    /\ recovery.asked /\ RecoveryPhase = "ready"
    /\ Send("retry-recovery", drawer.host, None)

(* submitTaskRetry from the panel of the hook, which may be about either and   *)
(* waits only while the hook is submitting, not for what is settling.          *)
RetryPanel(o) ==
    /\ Shown /\ Uncovered /\ work.panel = "ready" /\ ~work.submitting
    /\ o = "retry" \/ (o = "retry-recovery" /\ recovery.asked)
    /\ Send(o, drawer.host, None)

(* applyAcceptedRetry, for host h: of the task the user came from, the address *)
(* becomes that of h and of the new task, whatever is shown by now.            *)
Accepted(h, preserve) ==
    /\ recovery' = IF preserve THEN [asked |-> TRUE, task |-> NoTask] ELSE recovery
    /\ \E newest \in Newest \ {NoTask} :
         \/ /\ preserve => drawer.host = h
            /\ drawer' = [drawer EXCEPT !.newest = newest]
         \/ /\ preserve /\ drawer.host # h
            /\ \E online \in BOOLEAN :
                 drawer' = [host |-> h, online |-> online, context |-> "loading", newest |-> newest]

Retried(s) ==
    /\ Sent(s) /\ ~IsProbe(s)
    /\ Accepted(work.ops[s].at, work.ops[s].kind = "retry-recovery")
    /\ work' = [work EXCEPT !.ops[s].at = "settling", !.submitting = FALSE]
    /\ UNCHANGED <<reads, removal>>

(* A retry that was not accepted leaves the panel of the hook. *)
NotRetried(s) ==
    /\ Sent(s) /\ ~IsProbe(s)
    /\ \E panel \in {"stale", "ready"} :
         work' = [work EXCEPT !.ops[s].at = "settling", !.submitting = FALSE, !.panel = panel]
    /\ UNCHANGED <<drawer, reads, recovery, removal>>

(* refreshTaskRetryEvidence, of the panel, with the host shown at that moment. *)
RefreshRetry ==
    /\ work.panel # None /\ Uncovered /\ ~work.refresh.on /\ ~work.submitting
    /\ Free # {}
    /\ work' = [work EXCEPT !.refresh = [on |-> TRUE, host |-> drawer.host,
                                         preserve |-> Shown /\ recovery.asked]]
    /\ UNCHANGED <<drawer, reads, recovery, removal>>

(* It finds that the retry was accepted after all; ... *)
RetryFound ==
    /\ work.refresh.on
    /\ Accepted(work.refresh.host, work.refresh.preserve)
    /\ work' = [work EXCEPT !.panel = None, !.refresh = NoRefresh]
    /\ UNCHANGED <<reads, removal>>

(* ... or what shows the panel again, although it was closed; or it fails. *)
RetryNotFound ==
    /\ work.refresh.on
    /\ \E panel \in {"stale", "ready", work.panel} :
         work' = [work EXCEPT !.panel = panel, !.refresh = NoRefresh]
    /\ UNCHANGED <<drawer, reads, recovery, removal>>

ClosePanel ==
    /\ work.panel # None /\ Uncovered
    /\ work' = [work EXCEPT !.panel = None]
    /\ UNCHANGED <<drawer, reads, recovery, removal>>

Settles(s) == work.ops[s].at = "settling" \/ (Sent(s) /\ IsProbe(s))

(* The reads that follow are over, or a probe has failed. *)
Settle(s) ==
    /\ Settles(s)
    /\ work' = [work EXCEPT !.ops[s] = NoOp, !.actioning = ""]
    /\ UNCHANGED <<drawer, reads, recovery, removal>>

--------------------------------------------------------------------------------
(* The deletion. *)

(* showDelete, from the drawer. *)
ShowDelete ==
    /\ Shown /\ Uncovered
    /\ drawer.context = "free" /\ ~HostActive /\ Idle
    /\ removal' = [removal EXCEPT !.host = drawer.host, !.typed = FALSE, !.needsRefresh = FALSE]
    /\ UNCHANGED <<drawer, reads, recovery, work>>

TypeName ==
    /\ removal.host # None /\ ~removal.needsRefresh /\ ~removal.deleting
    /\ \E matches \in BOOLEAN : removal' = [removal EXCEPT !.typed = matches]
    /\ UNCHANGED <<drawer, reads, recovery, work>>

CloseDelete ==
    /\ removal.host # None /\ ~removal.deleting
    /\ removal' = [NoRemoval EXCEPT !.refreshing = removal.refreshing]
    /\ UNCHANGED <<drawer, reads, recovery, work>>

(* remove *)
Remove ==
    /\ removal.host # None /\ ~removal.deleting
    /\ removal.typed /\ ~removal.needsRefresh /\ drawer.context \in Read
    /\ removal' = [removal EXCEPT !.deleting = TRUE]
    /\ UNCHANGED <<drawer, reads, recovery, work>>

Removed ==
    /\ removal.deleting /\ removal.host # None
    /\ removal' = [removal EXCEPT !.host = None, !.typed = FALSE]
    /\ drawer' = Closed /\ recovery' = NoRecovery
    /\ UNCHANGED <<reads, work>>

RemovalSettled ==
    /\ removal.deleting /\ removal.host = None
    /\ removal' = [removal EXCEPT !.deleting = FALSE]
    /\ UNCHANGED <<drawer, reads, recovery, work>>

(* Refused, or lost while the server went on: the dialog waits for evidence. *)
RemoveFails ==
    /\ removal.deleting /\ removal.host # None
    /\ removal' = [removal EXCEPT !.deleting = FALSE, !.typed = FALSE, !.needsRefresh = TRUE]
    /\ UNCHANGED <<drawer, reads, recovery, work>>

(* refreshDeleteEvidence: the list, then, if the host is in it, its context;   *)
(* it goes on when the dialog is closed.                                       *)
RefreshEvidence ==
    /\ removal.needsRefresh /\ removal.refreshing = None
    /\ removal' = [removal EXCEPT !.refreshing = removal.host]
    /\ UNCHANGED <<drawer, reads, recovery, work>>

HostGone ==
    /\ removal.refreshing # None
    /\ removal' = [removal EXCEPT !.host = None, !.needsRefresh = FALSE, !.refreshing = None]
    /\ drawer' = Closed /\ recovery' = NoRecovery
    /\ UNCHANGED <<reads, work>>

HostStill ==
    /\ removal.refreshing # None
    /\ \E newest \in Newest, context \in Read :
         drawer' = [drawer EXCEPT !.context = context, !.newest = newest]
    /\ removal' = [removal EXCEPT !.refreshing = None, !.needsRefresh = FALSE]
    /\ UNCHANGED <<reads, recovery, work>>

NoEvidence ==
    /\ removal.refreshing # None
    /\ removal' = [removal EXCEPT !.refreshing = None]
    /\ drawer' \in {drawer, [drawer EXCEPT !.context = "error"]}
    /\ UNCHANGED <<reads, recovery, work>>

Next ==
    \/ ListArrives \/ CloseDetail \/ RecoveryArrives
    \/ \E h \in Hosts : OpenDetail(h) \/ ContextArrives(h) \/ ContextFails(h) \/ Probe(h)
    \/ Retry \/ RetryRecovery \/ \E o \in Operations : RetryPanel(o)
    \/ \E s \in Slots : Probed(s) \/ Retried(s) \/ NotRetried(s) \/ Settle(s)
    \/ RefreshRetry \/ RetryFound \/ RetryNotFound \/ ClosePanel
    \/ ShowDelete \/ TypeName \/ CloseDelete \/ Remove \/ Removed \/ RemovalSettled
    \/ RemoveFails \/ RefreshEvidence \/ HostGone \/ HostStill \/ NoEvidence

Spec == Init /\ [][Next]_vars

--------------------------------------------------------------------------------
(* Every part of the state is of its type. *)
TypeOK ==
    /\ drawer \in [host : Hosts \cup {None}, online : BOOLEAN,
                   context : {"idle", "loading", "error"} \cup Read, newest : Newest \cup {NoTask}]
    /\ reads \subseteq Hosts
    /\ recovery \in [asked : BOOLEAN, task : Origin \cup {NoTask}]
    /\ work \in [ops : [Slots -> {NoOp} \cup [kind : Operations, at : {"settling"} \cup Hosts]],
                 actioning : Operations \cup {""}, submitting : BOOLEAN,
                 panel : {None, "stale", "ready"},
                 refresh : [on : BOOLEAN, host : Hosts \cup {None}, preserve : BOOLEAN]]
    /\ removal \in [host : Hosts \cup {None}, typed : BOOLEAN, needsRefresh : BOOLEAN,
                    deleting : BOOLEAN, refreshing : Hosts \cup {None}]

(* The page is never locked by an operation that is over: what it says is     *)
(* under way still is, whichever of several operations ended first.           *)
ActioningReleased ==
    work.actioning # "" => \E s \in Slots : work.ops[s].kind = work.actioning
================================================================================
