------------------------------- MODULE DashboardPage -------------------------------
(* The workbench (src/frontend/src/pages/DashboardPage.tsx,                   *)
(* lib/dashboard-attention.ts): the tasks and resources that want attention,  *)
(* beside counts and an onboarding hint that are only shown.                  *)
(*                                                                            *)
(* Every load hides the page behind its placeholder; several may be under way, *)
(* and the first that ends shows it again.                                    *)
EXTENDS TaskRules, Integers

CONSTANTS Items,    \* what may want attention
          Reported, \* the task of such an item; NoTask for a resource that failed on its own
          MaxLoads  \* bound on the loads under way

DashboardAssumption == Reported \subseteq Task \cup {NoTask} /\ MaxLoads \in Nat \ {0}

VARIABLES board,   \* the items, as read last
          loading, \* the loads under way, and whether the page says so
          work     \* the retry under way and the hook's panel

dashboard == <<board, loading, work>>

None == "none"
Unread == [read |-> FALSE, items |-> <<>>]
Idle == [retry |-> None, failed |-> None, panel |-> None, refreshing |-> FALSE]

Init ==
    /\ board = Unread
    /\ loading = [count |-> 1, shown |-> TRUE]
    /\ work = Idle

--------------------------------------------------------------------------------
(* dashboardAttentionGuidance looks at the error, whatever became of the task. *)
AttentionInspectsHost(task) == task # NoTask /\ task.error \in HostErrors
AttentionCanRetry(task) == task.status \in {"failed", "interrupted"}

Load ==
    /\ loading.count < MaxLoads
    /\ loading' = [count |-> loading.count + 1, shown |-> TRUE]

Ended(read) == [count |-> loading.count - 1, shown |-> FALSE]

(* load ends: with an answer, which need not be of the newest, or a failure. *)
Loaded ==
    /\ loading.count > 0
    /\ \E wanting \in SUBSET Items :
         \E tasks \in [wanting -> Reported] : board' = [read |-> TRUE, items |-> tasks]
    /\ loading' = Ended(TRUE)
    /\ UNCHANGED work

LoadFails ==
    /\ loading.count > 0
    /\ loading' = Ended(FALSE)
    /\ UNCHANGED <<board, work>>

(* The refresh button, or the one of a failed load. *)
Refresh == ~loading.shown /\ Load /\ UNCHANGED <<board, work>>

(* Links lead away, that of the header at any time: the page comes back new. *)
Leave ==
    /\ board' = Unread /\ loading' = [count |-> 1, shown |-> TRUE] /\ work' = Idle

(* retryTask: of an item the hook's panel is not about, or by that panel. *)
Retry(i) ==
    /\ ~loading.shown /\ work.retry = None
    /\ \/ /\ i \in DOMAIN board.items
          /\ AttentionCanRetry(board.items[i]) /\ ~AttentionInspectsHost(board.items[i])
          /\ work.failed # i
       \/ work.failed = i /\ work.panel = "ready"
    /\ work' = [work EXCEPT !.retry = i, !.failed = None, !.panel = None]
    /\ UNCHANGED <<board, loading>>

(* It was accepted, or left the panel: the page loads again. *)
RetryEnds ==
    /\ work.retry # None
    /\ \/ work' = [work EXCEPT !.retry = None]
       \/ \E panel \in {"stale", "ready"} :
            work' = [work EXCEPT !.retry = None, !.failed = work.retry, !.panel = panel]
    /\ Load
    /\ UNCHANGED board

(* refreshTaskRetryEvidence *)
RefreshEvidence ==
    /\ ~loading.shown /\ work.failed # None /\ work.retry = None /\ ~work.refreshing
    /\ work' = [work EXCEPT !.refreshing = TRUE]
    /\ UNCHANGED <<board, loading>>

EvidenceEnds ==
    /\ work.refreshing
    /\ \/ work' = [work EXCEPT !.refreshing = FALSE, !.failed = None, !.panel = None]
       \/ /\ work.failed # None
          /\ \E panel \in {"stale", "ready"} :
               work' = [work EXCEPT !.refreshing = FALSE, !.panel = panel]
    /\ Load
    /\ UNCHANGED board

ClosePanel ==
    /\ ~loading.shown /\ work.failed # None
    /\ work' = [work EXCEPT !.failed = None, !.panel = None]
    /\ UNCHANGED <<board, loading>>

Next ==
    \/ Loaded \/ LoadFails \/ Refresh \/ Leave
    \/ \E i \in Items : Retry(i)
    \/ RetryEnds \/ RefreshEvidence \/ EvidenceEnds \/ ClosePanel

Spec == Init /\ [][Next]_dashboard

--------------------------------------------------------------------------------
(* Every part of the state is of its type. *)
TypeOK ==
    /\ board \in [read : BOOLEAN,
                  items : UNION {[wanting -> Reported] : wanting \in SUBSET Items}]
    /\ loading \in [count : 0 .. MaxLoads, shown : BOOLEAN]
    /\ work \in [retry : Items \cup {None}, failed : Items \cup {None},
                 panel : {None, "stale", "ready"}, refreshing : BOOLEAN]

(* The page is never left behind its placeholder: where it shows one, a load   *)
(* is under way, whichever of several ended first.                             *)
PlaceholderReleased == loading.shown => loading.count > 0
================================================================================
