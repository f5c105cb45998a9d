------------------------------- MODULE HostEditor -------------------------------
(* The form that adds a host or changes one (src/frontend/src/pages/          *)
(* HostsPage.tsx, its editor; lib/host-verification.ts), the way back to the  *)
(* creation of a database that a host was missing for (lib/                   *)
(* deployment-continuation.ts), and the requests of the server behind them    *)
(* (api/hosts.go, api/host_verification.go).                                  *)
(*                                                                            *)
(* A connection is everything a test depends on but the credential, which is  *)
(* there or not. The form can be changed while a test or a save is in flight, *)
(* and a save may go on at the server after the page has given its answer up. *)
(* The list is read at intervals, so a read may end at any time; it is taken  *)
(* to be current when the form is opened, and grows old while the form is.    *)
EXTENDS Integers, FiniteSets

CONSTANTS Connections, \* what may be entered
          KeyOf,       \* the host key of the machine a connection reaches
          Stored,      \* the connection of the host there is at first
          Fitting,     \* connections to machines the wanted version runs on
          MaxSaves,    \* bound on saves under way at the server
          MaxProven    \* bound on the tests that succeed

None == "none"

EditorAssumption ==
    /\ None \notin Connections /\ Stored \in Connections /\ Fitting \subseteq Connections
    /\ MaxSaves \in Nat /\ MaxProven \in Nat

VARIABLES rows,      \* server: the connection of each host
          proven,    \* history: which connection a test succeeded for, and for which host
          saves,     \* server: requests to save
          returning, \* returnTo: the page was opened from the creation of a database
          list,      \* what the hosts and templates read last come to
          editor     \* the form and what the page knows of its test

vars == <<rows, proven, saves, returning, list, editor>>

Hosts == 1 .. 2
Slots == 1 .. MaxSaves
Exists(h) == rows[h] # None

NoToken == [host |-> 0, conn |-> None]
Token == [host : {0} \cup Hosts, conn : Connections]
NoSave == [step |-> "free"]
Save == [step : {"sent", "read", "saved", "refused"}, host : {0} \cup Hosts, conn : Connections,
         secret : BOOLEAN, token : Token \cup {NoToken}, home : BOOLEAN]

Closed == [open |-> FALSE, host |-> 0, base |-> None, conn |-> None, secret |-> FALSE,
           print |-> FALSE, token |-> NoToken, dirty |-> FALSE, test |-> None, saving |-> "no"]

(* What was read last: loading, failed in part or whole, or read; whether the  *)
(* wanted template is known; and what the hosts read are good for, as long as  *)
(* that is asked.                                                              *)
Reads == [read : {"loading", "failed", "read"}, known : BOOLEAN,
          online : {"none", "other", "compatible"}]
Unread == [read |-> "loading", known |-> FALSE, online |-> "none"]

Init ==
    /\ rows = [h \in Hosts |-> IF h = 1 THEN Stored ELSE None]
    /\ proven = {[host |-> 1, conn |-> Stored]}
    /\ saves = [s \in Slots |-> NoSave]
    /\ returning \in BOOLEAN
    /\ list = Unread
    /\ editor = Closed

--------------------------------------------------------------------------------
(* The server. *)

(* hostVerificationRequired *)
VerificationRequired(h, conn, secret) == secret \/ conn # rows[h]

(* Mutant: the settings that were tested are not compared with the submitted. *)
VerifiedUncompared(token, host, conn) == token # NoToken /\ token.host = host

(* verifyHostVerification, as long as the token has not expired. *)
Verified(token, host, conn) == token = [host |-> host, conn |-> conn]

Step(s, step) == saves' = [saves EXCEPT ![s].step = step]

(* A save is refused for what the token is not, or for its age, a name that is *)
(* taken, a pool or a root that is in use, an active task, a lost database.   *)
Refuse(s) ==
    /\ saves[s].step \in {"sent", "read"}
    /\ Step(s, "refused")
    /\ UNCHANGED <<rows, proven, returning, list, editor>>

(* createHost *)
CreateHost(s, h) ==
    /\ saves[s].step = "sent" /\ saves[s].host = 0
    /\ saves[s].secret /\ Verified(saves[s].token, 0, saves[s].conn)
    /\ ~Exists(h)
    /\ rows' = [rows EXCEPT ![h] = saves[s].conn]
    /\ Step(s, "saved")
    /\ UNCHANGED <<proven, returning, list, editor>>

(* updateHost reads the host to see whether the change needs a test. *)
ReadHost(s) ==
    /\ saves[s].step = "sent" /\ saves[s].host # 0
    /\ VerificationRequired(saves[s].host, saves[s].conn, saves[s].secret) =>
         saves[s].secret /\ Verified(saves[s].token, saves[s].host, saves[s].conn)
    /\ Step(s, "read")
    /\ UNCHANGED <<rows, proven, returning, list, editor>>

(* It writes what was submitted over whatever the host has become since. *)
WriteHost(s) ==
    /\ saves[s].step = "read"
    /\ rows' = [rows EXCEPT ![saves[s].host] = saves[s].conn]
    /\ Step(s, "saved")
    /\ UNCHANGED <<proven, returning, list, editor>>

(* Another tab tests and saves another way to the machine. *)
Elsewhere(h, conn) ==
    /\ Exists(h) /\ conn # rows[h] /\ KeyOf[conn] = KeyOf[rows[h]]
    /\ rows' = [rows EXCEPT ![h] = conn]
    /\ proven' = proven \cup {[host |-> h, conn |-> conn]} /\ Cardinality(proven') <= MaxProven
    /\ UNCHANGED <<saves, returning, list, editor>>

(* Nobody waits for the answer any more. *)
Forget(s) ==
    /\ saves[s].step \in {"saved", "refused"} /\ ~saves[s].home
    /\ saves' = [saves EXCEPT ![s] = NoSave]
    /\ UNCHANGED <<rows, proven, returning, list, editor>>

--------------------------------------------------------------------------------
(* What the list of hosts says to who is creating a database. *)

(* What the online hosts that have been read are good for. *)
Online(hosts) ==
    IF \E h \in hosts : rows[h] \in Fitting THEN "compatible" ELSE IF hosts # {} THEN "other" ELSE "none"

(* continuationState *)
Continuation ==
    CASE list.read = "loading" -> "loading"
      [] list.read = "failed" \/ (list.read = "read" /\ ~list.known) -> "unavailable"
      [] OTHER -> CASE list.online = "compatible" -> "ready"
                    [] list.online = "other" -> "incompatible"
                    [] list.online = "none" -> "pending"

SaveBlocked == returning /\ editor.host = 0 /\ Continuation \in {"loading", "unavailable"}

ProbeIncompatible ==
    returning /\ editor.host = 0 /\ editor.token # NoToken /\ list.known /\ editor.token.conn \notin Fitting

(* load: the hosts, then the databases and, on the way back, the templates,  *)
(* either of which may fail alone.                                            *)
ListArrives ==
    /\ \/ \E known \in BOOLEAN :
            /\ known => returning
            /\ list' = [read |-> "failed", known |-> known, online |-> "none"]
       \/ list' = [read |-> "read", known |-> FALSE, online |-> "none"]
       \/ /\ returning
          /\ \E hosts \in SUBSET {h \in Hosts : Exists(h)} :
               list' = [read |-> "read", known |-> TRUE, online |-> Online(hosts)]
    /\ UNCHANGED <<rows, proven, saves, returning, editor>>

ListFails ==
    /\ list' = [list EXCEPT !.read = "failed", !.online = "none"]
    /\ UNCHANGED <<rows, proven, saves, returning, editor>>

Reload ==
    /\ list.read = "failed" \/ (returning /\ Continuation = "unavailable")
    /\ list' = [list EXCEPT !.read = "loading", !.online = "none"]
    /\ UNCHANGED <<rows, proven, saves, returning, editor>>

--------------------------------------------------------------------------------
(* The form. *)

(* show() *)
Show(h) ==
    /\ ~editor.open
    /\ h # 0 => Exists(h)
    /\ LET conn == IF h = 0 THEN None ELSE rows[h]
       IN editor' = [Closed EXCEPT !.open = TRUE, !.host = h, !.base = conn, !.conn = conn,
                                   !.print = (h # 0), !.saving = editor.saving]
    /\ UNCHANGED <<rows, proven, saves, returning, list>>

Required == editor.host = 0 \/ editor.dirty
VerificationReady ==
    \/ ~Required /\ editor.token = NoToken
    \/ editor.print /\ editor.token # NoToken

(* hostConnectionReady: there is a connection, and the credential it takes. *)
ConnectionReady == editor.conn # None /\ (Required => editor.secret)

(* invalidateVerification: back at what is stored, the stored key will do; *)
(* otherwise what a test has found is forgotten.                           *)
Edit(conn, secret) ==
    /\ editor.open /\ <<conn, secret>> # <<editor.conn, editor.secret>>
    /\ LET form == [editor EXCEPT !.conn = conn, !.secret = secret]
       IN editor' =
            IF editor.host # 0 /\ conn = editor.base /\ ~secret
              THEN [form EXCEPT !.print = TRUE, !.token = NoToken, !.dirty = FALSE]
            ELSE IF ~editor.print /\ ~editor.dirty THEN form
            ELSE [form EXCEPT !.print = FALSE, !.token = NoToken, !.dirty = TRUE]
    /\ UNCHANGED <<rows, proven, saves, returning, list>>

(* test(): of the values of that moment. *)
Test ==
    /\ editor.open /\ editor.test = None /\ editor.saving = "no"
    /\ Required \/ ~editor.print
    /\ ConnectionReady
    /\ editor' = [editor EXCEPT !.test = editor.conn, !.print = FALSE, !.token = NoToken]
    /\ UNCHANGED <<rows, proven, saves, returning, list>>

(* The server tests a host that is there with its stored key. *)
Tested ==
    /\ editor.test # None
    /\ editor.host # 0 => KeyOf[editor.test] = KeyOf[rows[editor.host]]
    /\ LET token == [host |-> editor.host, conn |-> editor.test]
       IN /\ editor' = [editor EXCEPT !.test = None, !.print = TRUE, !.token = token, !.dirty = FALSE]
          /\ proven' = proven \cup {token} /\ Cardinality(proven') <= MaxProven
    /\ UNCHANGED <<rows, saves, returning, list>>

TestFails ==
    /\ editor.test # None
    /\ editor' = [editor EXCEPT !.test = None]
    /\ UNCHANGED <<rows, proven, saves, returning, list>>

(* submit() *)
Submit(s) ==
    /\ saves[s] = NoSave /\ \A r \in 1 .. s - 1 : saves[r] # NoSave
    /\ editor.open /\ editor.test = None /\ editor.saving = "no"
    /\ VerificationReady /\ ~SaveBlocked /\ ~ProbeIncompatible
    /\ ConnectionReady
    /\ saves' = [saves EXCEPT ![s] =
         [step |-> "sent", host |-> editor.host, conn |-> editor.conn, secret |-> editor.secret,
          token |-> editor.token, home |-> TRUE]]
    /\ editor' = [editor EXCEPT !.saving = "sent"]
    /\ UNCHANGED <<rows, proven, returning, list>>

(* The answer: the page is left on the way back to the creation, at once or by *)
(* way of the new host's probe; otherwise the list is read.                    *)
Saved(s) ==
    /\ saves[s].step = "saved" /\ saves[s].home
    /\ \E online \in BOOLEAN :
         IF returning /\ (saves[s].host = 0 \/ online)
           THEN editor' = Closed /\ list' = Unread
           ELSE editor' = [editor EXCEPT !.open = FALSE, !.saving = "settling"] /\ UNCHANGED list
    /\ saves' = [saves EXCEPT ![s] = NoSave]
    /\ UNCHANGED <<rows, proven, returning>>

SaveSettled ==
    /\ editor.saving = "settling"
    /\ editor' = [editor EXCEPT !.saving = "no"]
    /\ UNCHANGED <<rows, proven, saves, returning, list>>

(* A refusal, or no answer while the server goes on. *)
SaveFails(s) ==
    /\ saves[s] # NoSave /\ saves[s].home
    /\ editor' = [editor EXCEPT !.saving = "no"]
    /\ saves' = [saves EXCEPT ![s] =
         IF saves[s].step = "refused" THEN NoSave ELSE [saves[s] EXCEPT !.home = FALSE]]
    /\ UNCHANGED <<rows, proven, returning, list>>

(* closeEditor, confirmed or with nothing to discard. *)
Close ==
    /\ editor.open /\ editor.test = None /\ editor.saving = "no"
    /\ editor' = Closed
    /\ UNCHANGED <<rows, proven, saves, returning, list>>

(* cancelDatabaseCreation, or the button of a ready continuation. *)
GoBack ==
    /\ returning
    /\ editor.open \/ Continuation \in {"ready", "incompatible", "pending"}
    /\ editor.saving = "no" /\ editor.test = None
    /\ editor' = Closed /\ list' = Unread
    /\ UNCHANGED <<rows, proven, saves, returning>>

Next ==
    \/ \E s \in Slots :
         \/ Refuse(s) \/ ReadHost(s) \/ WriteHost(s) \/ Forget(s)
         \/ Submit(s) \/ Saved(s) \/ SaveFails(s)
         \/ \E h \in Hosts : CreateHost(s, h)
    \/ \E h \in Hosts, conn \in Connections : Elsewhere(h, conn)
    \/ ListArrives \/ ListFails \/ Reload
    \/ \E h \in {0} \cup Hosts : Show(h)
    \/ \E conn \in Connections, secret \in BOOLEAN : Edit(conn, secret)
    \/ Test \/ Tested \/ TestFails \/ SaveSettled \/ Close \/ GoBack

Spec == Init /\ [][Next]_vars

--------------------------------------------------------------------------------
(* Every part of the state is of its type. *)
TypeOK ==
    /\ rows \in [Hosts -> Connections \cup {None}]
    /\ proven \subseteq Token
    /\ saves \in [Slots -> {NoSave} \cup Save]
    /\ returning \in BOOLEAN
    /\ list \in Reads
    /\ editor \in [open : BOOLEAN, host : {0} \cup Hosts, base : Connections \cup {None},
                   conn : Connections \cup {None}, secret : BOOLEAN, print : BOOLEAN,
                   token : Token \cup {NoToken}, dirty : BOOLEAN,
                   test : Connections \cup {None}, saving : {"no", "sent", "settling"}]

(* What is stored as a host's connection was found to work for that host, or  *)
(* as a new one's, although the form may be changed while it is tested, the   *)
(* answer of a test then enables the form's save, and a save writes over what *)
(* another tab has saved since it was checked.                                *)
SavedVerified ==
    \A h \in Hosts : Exists(h) =>
        [host |-> h, conn |-> rows[h]] \in proven \/ [host |-> 0, conn |-> rows[h]] \in proven
================================================================================
