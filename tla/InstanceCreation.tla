----------------------------- MODULE InstanceCreation -----------------------------
(* The drawer in which a database is created, in three steps, and what it does *)
(* about a creation that failed (src/frontend/src/pages/InstancesPage.tsx,    *)
(* lib/instance-create-recovery.ts, lib/host-capacity.ts, and for the         *)
(* templates lib/mvp-instance-create.ts).                                     *)
(*                                                                            *)
(* What the page reads is which hosts are online and how much each has free,  *)
(* CPU, memory and disk as one quantity. The page is left for the hosts page  *)
(* when there is no host to create on, and comes back with the request it left *)
(* with, one host in it; it is left for good when the database exists. Reads  *)
(* that are under way then have nobody to tell. The user is an operator; a    *)
(* version stays selectable.                                                  *)
EXTENDS Integers

CONSTANTS Hosts, Versions,
          Runs,    \* version |-> the hosts of an architecture it has images for
          Sizes,   \* what a database may ask for
          Preset   \* version |-> the first of its resource profiles

CreationAssumption ==
    /\ Runs \in [Versions -> SUBSET Hosts]
    /\ Sizes \subseteq Nat \ {0} /\ Preset \in [Versions -> Sizes]

VARIABLES data,    \* what load, or a refresh, read last
          url,     \* the creation the address of the page asks for
          wizard,  \* the drawer and its draft
          failure, \* createFailure, or NoFailure
          work     \* the creation and the refreshes under way

creation == <<data, url, wizard, failure, work>>

None == "none"
NoFailure == [code |-> None, context |-> "ready", existing |-> FALSE]
Codes == {"network_error", "resource_conflict", "invalid_input"}
Rejected(f) == f.code # "network_error"

Plain == [create |-> FALSE, version |-> None, host |-> None]
Requests == [create : {TRUE}, version : Versions \cup {None}, host : Hosts \cup {None}]
Amounts == {0} \cup Sizes
Unread == [loading |-> TRUE, error |-> FALSE, ready |-> FALSE, online |-> {},
           free |-> [h \in Hosts |-> 0]]
Empty == [version |-> None, named |-> FALSE, size |-> 0, host |-> None]
Closed == [open |-> FALSE, step |-> 0, draft |-> Empty]
Rest == [creating |-> "no", refreshes |-> {}, spinning |-> FALSE]

(* The page, mounted at an address. *)
Mounted(u) ==
    /\ data' = Unread /\ url' = u /\ wizard' = Closed /\ failure' = NoFailure /\ work' = Rest

Init ==
    /\ data = Unread /\ url \in Requests \cup {Plain} /\ wizard = Closed
    /\ failure = NoFailure /\ work = Rest

--------------------------------------------------------------------------------
(* templateCompatibleHosts: any host online runs what is not chosen yet. *)
Compatible(d, version) == IF version = None THEN d.online ELSE d.online \cap Runs[version]

draft == wizard.draft
HostFits == draft.host = None \/ draft.host \in Compatible(data, draft.version)

(* hostCanAccept, of what reservations leave of a host; the draft names no port. *)
CanAccept(h, size) == size <= data.free[h]

(* capacityCandidates: any host, while the draft asks for nothing yet. *)
Candidates ==
    LET hosts == Compatible(data, draft.version)
        scope == IF draft.host \in hosts THEN {draft.host} ELSE hosts
    IN {h \in scope : CanAccept(h, draft.size)}

DraftReady ==
    /\ data.ready /\ draft.version # None /\ draft.named /\ draft.size > 0
    /\ HostFits /\ Candidates # {}

(* canRetryInstanceCreateRequest *)
RetryAllowed ==
    /\ Rejected(failure) /\ failure.code # "invalid_input"
    /\ failure.context = "ready" /\ ~failure.existing /\ DraftReady

RecoveryStep ==
    IF draft.version = None \/ ~draft.named \/ failure.code = "invalid_input" THEN 0
    ELSE IF draft.size = 0 \/ Candidates = {} \/ ~HostFits THEN 1 ELSE 2

(* The effects on the form: a version comes with a size of its own, and a host *)
(* that does not run it is dropped.                                            *)
Sized(old, new) ==
    IF new.version # None /\ new.version # old.version
      THEN [new EXCEPT !.size = Preset[new.version]] ELSE new
Kept(new, d) ==
    IF new.version # None /\ new.host \notin Compatible(d, new.version)
      THEN [new EXCEPT !.host = None] ELSE new

Opened(new, d) == [open |-> TRUE, step |-> 0, draft |-> Kept(Sized(Empty, new), d)]

--------------------------------------------------------------------------------
(* The request in the address: it opens the drawer, once the page has read     *)
(* what that takes, or leads to the page where a host is added.                *)
Requested(d) ==
    LET hosts == Compatible(d, url.version) IN
    IF hosts = {} THEN \E h \in Hosts \cup {url.host} : Mounted([url EXCEPT !.host = h])
    ELSE /\ data' = d
         /\ wizard' = Opened([Empty EXCEPT !.version = url.version,
                                           !.host = IF url.host \in hosts THEN url.host ELSE None], d)
         /\ failure' = NoFailure
         /\ UNCHANGED <<url, work>>

Arrives ==
    /\ data.loading
    /\ \E error, ready \in BOOLEAN, online \in SUBSET Hosts, free \in [Hosts -> Amounts] :
         LET d == [loading |-> FALSE, error |-> error, ready |-> ready,
                   online |-> online, free |-> free] IN
         IF url.create /\ ~wizard.open /\ ~error /\ ready THEN Requested(d)
         ELSE /\ data' = d
              /\ wizard' = [wizard EXCEPT !.draft = Kept(@, d)]
              /\ UNCHANGED <<url, failure, work>>

Reload ==
    /\ ~data.loading /\ ~wizard.open
    /\ data' = [data EXCEPT !.loading = TRUE]
    /\ UNCHANGED <<url, wizard, failure, work>>

(* addRequiredHost leaves the page, which comes back for a host or as it left. *)
AddHost == \E h \in Hosts \cup {url.host} : Mounted([url EXCEPT !.create = TRUE, !.host = h])

(* openCreate *)
OpenCreate ==
    /\ ~wizard.open /\ data.ready
    /\ IF data.online = {} THEN AddHost
       ELSE /\ wizard' = Opened(Empty, data)
            /\ failure' = NoFailure
            /\ UNCHANGED <<data, url, work>>

(* closeCreate: what a confirmed discard does, too. *)
Close ==
    /\ wizard.open /\ work.creating = "no"
    /\ url' = Plain /\ wizard' = Closed /\ failure' = NoFailure
    /\ UNCHANGED <<data, work>>

--------------------------------------------------------------------------------
(* The steps of the drawer. *)

Fill(new) ==
    /\ wizard' = [wizard EXCEPT !.draft = Kept(Sized(draft, new), data)]
    /\ UNCHANGED <<data, url, failure, work>>

Choose(version) == wizard.open /\ wizard.step = 0 /\ Fill([draft EXCEPT !.version = version])
TypeName(named) == wizard.open /\ wizard.step = 0 /\ Fill([draft EXCEPT !.named = named])
TypeSize(size) == wizard.open /\ wizard.step = 1 /\ Fill([draft EXCEPT !.size = size])

PickHost(h) ==
    /\ wizard.open /\ wizard.step = 1
    /\ h # None => h \in Compatible(data, draft.version) /\ CanAccept(h, draft.size)
    /\ Fill([draft EXCEPT !.host = h])

AddCompatibleHost ==
    /\ wizard.open /\ wizard.step = 0
    /\ draft.version # None /\ Compatible(data, draft.version) = {}
    /\ AddHost

GoTo(step) ==
    /\ wizard' = [wizard EXCEPT !.step = step]
    /\ failure' = NoFailure
    /\ UNCHANGED <<data, url, work>>

(* next, where the fields of the step are valid. *)
NextStep ==
    /\ wizard.open /\ work.creating = "no"
    /\ \/ /\ wizard.step = 0
          /\ draft.version # None /\ draft.named /\ Compatible(data, draft.version) # {}
       \/ wizard.step = 1 /\ draft.size > 0 /\ Candidates # {}
    /\ GoTo(wizard.step + 1)

(* Mutant: the first step has a way back. *)
PreviousAlways ==
    /\ wizard.open /\ work.creating = "no"
    /\ GoTo(wizard.step - 1)

Previous ==
    /\ wizard.open /\ work.creating = "no" /\ wizard.step > 0
    /\ GoTo(wizard.step - 1)

(* The step a failed creation is to be reviewed in, while it is being checked too. *)
Review ==
    /\ wizard.step = 2 /\ failure # NoFailure /\ ~failure.existing /\ RecoveryStep < 2
    /\ GoTo(RecoveryStep)

--------------------------------------------------------------------------------
(* create *)
Create ==
    /\ wizard.open /\ wizard.step = 2 /\ work.creating = "no"
    /\ failure # NoFailure => RetryAllowed
    /\ work' = [work EXCEPT !.creating = "posting"]
    /\ failure' = NoFailure
    /\ UNCHANGED <<data, url, wizard>>

(* The page of the new database takes its place, or of the one there was. *)
Created == work.creating = "posting" /\ Mounted(Plain)
OpenExisting == wizard.step = 2 /\ failure.existing /\ Mounted(Plain)

CreateFails ==
    /\ work.creating = "posting"
    /\ \E code \in Codes : failure' = [code |-> code, context |-> "checking", existing |-> FALSE]
    /\ work' = [creating |-> "checking", refreshes |-> work.refreshes \cup {"create"}, spinning |-> TRUE]
    /\ UNCHANGED <<data, url, wizard>>

(* refreshCreateContext from the failure's button; one such at a time (a bound). *)
Refresh ==
    /\ wizard.step = 2 /\ failure # NoFailure
    /\ ~work.spinning /\ "manual" \notin work.refreshes
    /\ failure' = [failure EXCEPT !.context = "checking", !.existing = FALSE]
    /\ work' = [work EXCEPT !.refreshes = @ \cup {"manual"}, !.spinning = TRUE]
    /\ UNCHANGED <<data, url, wizard>>

(* Mutant: the failure is told of a refresh only if all of its reads arrived. *)
ToldWhenComplete(instances, supporting, existing) ==
    IF failure = NoFailure \/ ~(instances /\ supporting) THEN failure
    ELSE [failure EXCEPT !.context = "ready", !.existing = existing]

(* The failure there is by then, if there is one, is told. *)
Told(instances, supporting, existing) ==
    IF failure = NoFailure THEN NoFailure
    ELSE [failure EXCEPT !.context = IF instances /\ supporting THEN "ready" ELSE "failed",
                         !.existing = existing]

Refreshed(by) ==
    /\ by \in work.refreshes
    /\ \E instances, supporting, existing \in BOOLEAN, online \in SUBSET Hosts,
          free \in [Hosts -> Amounts] :
         LET d == [data EXCEPT !.ready = supporting, !.online = online, !.free = free] IN
         /\ existing => instances
         /\ data' = d
         /\ wizard' = [wizard EXCEPT !.draft = Kept(@, d)]
         /\ failure' = Told(instances, supporting, existing)
    /\ work' = [creating |-> IF by = "create" THEN "no" ELSE work.creating,
                refreshes |-> work.refreshes \ {by}, spinning |-> FALSE]
    /\ UNCHANGED url

Next ==
    \/ Arrives \/ Reload \/ OpenCreate \/ Close
    \/ \E v \in Versions : Choose(v)
    \/ \E b \in BOOLEAN : TypeName(b)
    \/ \E size \in Amounts : TypeSize(size)
    \/ \E h \in Hosts \cup {None} : PickHost(h)
    \/ AddCompatibleHost \/ NextStep \/ Previous \/ Review
    \/ Create \/ Created \/ OpenExisting \/ CreateFails \/ Refresh
    \/ \E by \in {"create", "manual"} : Refreshed(by)

Spec == Init /\ [][Next]_creation

--------------------------------------------------------------------------------
(* Every part of the state is of its type. *)
TypeOK ==
    /\ data \in [loading : BOOLEAN, error : BOOLEAN, ready : BOOLEAN,
                 online : SUBSET Hosts, free : [Hosts -> Amounts]]
    /\ url \in Requests \cup {Plain}
    /\ wizard \in [open : BOOLEAN, step : 0 .. 2,
                   draft : [version : Versions \cup {None}, named : BOOLEAN, size : Amounts,
                            host : Hosts \cup {None}]]
    /\ failure \in [code : Codes \cup {None}, context : {"checking", "ready", "failed"},
                    existing : BOOLEAN]
    /\ work \in [creating : {"no", "posting", "checking"},
                 refreshes : SUBSET {"create", "manual"}, spinning : BOOLEAN]

(* A failed creation never waits for a refresh that is over: however reads of  *)
(* an older draft overtake it, and whatever the user did to the draft          *)
(* meanwhile, a failure that is being checked is being checked by a refresh.   *)
NeverStuckChecking == failure.context = "checking" => work.refreshes # {}
================================================================================
