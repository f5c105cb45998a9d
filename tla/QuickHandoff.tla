------------------------------- MODULE QuickHandoff -------------------------------
(* The dialog of the databases page that copies a connection to hand over     *)
(* (src/frontend/src/pages/InstancesPage.tsx; lib/instance-handoff.ts says    *)
(* for which rows). It shows one database at a time. A copy reads, waits for  *)
(* the clipboard, then tells the dialog; it goes on when the dialog is closed *)
(* or shows another database, and its number, given by handoffRequestID,      *)
(* tells whether the dialog is still its own.                                 *)
EXTENDS Integers

CONSTANTS Items,      \* the databases listed
          MaxRequests \* bound on handoffRequestID

HandoffAssumption == MaxRequests \in Nat

VARIABLES ready,   \* the databases that run, as read last
          handoff, \* handoffItem, handoffLoading, handoffError, handoffResult
          current, \* handoffRequestID
          copies   \* the copies under way

quickHandoff == <<ready, handoff, current, copies>>

None == "none"
Closed == [item |-> None, loading |-> FALSE, error |-> FALSE, result |-> None]

Init == ready = {} /\ handoff = Closed /\ current = 0 /\ copies = {}

(* load: any of them may run or not. *)
Arrives(running) ==
    /\ ready' = running
    /\ UNCHANGED <<handoff, current, copies>>

NewRequest ==
    /\ current < MaxRequests
    /\ current' = current + 1

(* openConnectionHandoff *)
Open(item) ==
    /\ handoff.item = None /\ item \in ready
    /\ NewRequest
    /\ handoff' = [Closed EXCEPT !.item = item]
    /\ UNCHANGED <<ready, copies>>

(* closeConnectionHandoff *)
Close ==
    /\ handoff.item # None
    /\ NewRequest
    /\ handoff' = Closed
    /\ UNCHANGED <<ready, copies>>

(* copyConnectionHandoff *)
Copy ==
    /\ handoff.item # None /\ ~handoff.loading
    /\ NewRequest
    /\ handoff' = [Closed EXCEPT !.item = handoff.item, !.loading = TRUE]
    /\ copies' = copies \cup {[id |-> current + 1, item |-> handoff.item, step |-> "reading"]}
    /\ UNCHANGED ready

(* Mutant: a copy that was overtaken is not told apart. *)
IsCurrentAlways(copy) == copy.id > 0

IsCurrent(copy) == copy.id = current

(* The reads arrived. A copy that was overtaken copies nothing. *)
ReadsArrive(copy) ==
    /\ copy \in copies /\ copy.step = "reading"
    /\ copies' = (copies \ {copy}) \cup
                   (IF IsCurrent(copy) THEN {[copy EXCEPT !.step = "copying"]} ELSE {})
    /\ UNCHANGED <<ready, handoff, current>>

Copied(copy) ==
    /\ copy \in copies /\ copy.step = "copying"
    /\ copies' = copies \ {copy}
    /\ handoff' = IF IsCurrent(copy) THEN [handoff EXCEPT !.loading = FALSE, !.result = copy.item]
                  ELSE handoff
    /\ UNCHANGED <<ready, current>>

(* A read failed, or the clipboard was refused. *)
CopyFails(copy) ==
    /\ copy \in copies
    /\ copies' = copies \ {copy}
    /\ handoff' = IF IsCurrent(copy) THEN [handoff EXCEPT !.loading = FALSE, !.error = TRUE]
                  ELSE handoff
    /\ UNCHANGED <<ready, current>>

Next ==
    \/ \E running \in SUBSET Items : Arrives(running)
    \/ \E item \in Items : Open(item)
    \/ Close \/ Copy
    \/ \E copy \in copies : ReadsArrive(copy) \/ Copied(copy) \/ CopyFails(copy)

Spec == Init /\ [][Next]_quickHandoff

--------------------------------------------------------------------------------
(* Every part of the state is of its type. *)
TypeOK ==
    /\ ready \subseteq Items
    /\ handoff \in [item : Items \cup {None}, loading : BOOLEAN, error : BOOLEAN,
                    result : Items \cup {None}]
    /\ current \in 0 .. MaxRequests
    /\ copies \subseteq [id : 1 .. MaxRequests, item : Items, step : {"reading", "copying"}]

(* The dialog says of no database what another copy did: the endpoint it shows *)
(* is of the database it is open for, and while it waits, a copy of that       *)
(* database is under way. A copy that was overtaken changes neither.           *)
HandoffCurrent ==
    /\ handoff.result # None => handoff.result = handoff.item
    /\ handoff.loading => \E copy \in copies : copy.item = handoff.item /\ copy.id = current
================================================================================
