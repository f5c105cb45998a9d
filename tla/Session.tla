-------------------------------- MODULE Session --------------------------------
(* One browser tab and its session: who the tab thinks is logged in           *)
(* (src/frontend/src/contexts/AuthContext.tsx), what it mounts for that       *)
(* (App.tsx, contexts/SystemSettingsContext.tsx, pages/AuthPages.tsx), and    *)
(* what the header and the account dialog of layouts/AppLayout.tsx change.    *)
(*                                                                            *)
(* A call travels in steps of its own: sent with the cookie of that moment,   *)
(* served at any time later, and answered, or lost, later still; the handler  *)
(* runs when the answer arrives. There is one user, the administrator. Other  *)
(* browsers end the sessions of this one. The language of the pages is left   *)
(* out, with the switch of the login page that changes nothing else, and so   *)
(* is what is typed into the account dialog.                                  *)
EXTENDS Integers, FiniteSets

CONSTANTS MaxSessions, \* bound on the sessions the server issues to this tab
          MaxCalls     \* bound on the calls in flight

ASSUME SessionAssumption == MaxSessions \in Nat \ {0} /\ MaxCalls \in Nat

Pages == {"dashboard", "tasks"}
Polling == {"tasks"}    \* pages with an interval: tasks, hosts and the detail of an instance

VARIABLES configured,  \* server: the platform has its administrator
          live,        \* server: sessions of this tab that have not ended
          issued,      \* server: how many sessions it has issued
          cookie,      \* the session the browser sends, 0 for none
          calls,       \* calls in flight
          loading,     \* AuthProvider: still asking who is logged in
          initialized, \* AuthProvider: whether to show the setup page
          user,        \* AuthProvider: whether it holds the user
          expired,     \* AuthProvider: sessionExpired
          loaded,      \* SystemSettingsProvider: loadedUserID is the user's
          page,        \* the route
          dialog       \* AppLayout: the account dialog, or which of its tabs is being saved

server == <<configured, live, issued>>
auth == <<loading, initialized, user, expired>>
vars == <<server, cookie, calls, auth, loaded, page, dialog>>

Sessions == 1 .. MaxSessions
Anonymous == {"status", "login", "setup"}
Ops == Anonymous \cup {"me", "settings", "read", "logout", "locale", "profile", "password"}

(* home: the component that sent the call is still mounted. *)
Call == [op : Ops, sid : 0 .. MaxSessions, home : BOOLEAN,
         answer : {"none", "ok", "unconfigured", "unauthorized"}, new : 0 .. MaxSessions]

New(op, sid) == [op |-> op, sid |-> sid, home |-> TRUE, answer |-> "none", new |-> 0]

Dialog == {"closed", "open", "profile", "password"}

Init ==
    /\ configured \in BOOLEAN
    /\ issued \in {0, 1} /\ live = 1 .. issued /\ (issued = 1 => configured)
    /\ cookie = issued
    /\ calls = {New("status", cookie)}
    /\ loading = TRUE /\ initialized = TRUE /\ user = FALSE /\ expired = FALSE
    /\ loaded = FALSE
    /\ page \in Pages
    /\ dialog = "closed"

(* One call of a kind at a time, but for the settings; reads come at intervals, *)
(* whatever else is in flight.                                                *)
Send(op) ==
    /\ Cardinality(calls) < MaxCalls \/ op = "read"
    /\ \A c \in calls : c.op # op
    /\ calls' = calls \cup {New(op, cookie)}

--------------------------------------------------------------------------------
(* The server. *)

Authorized(c) == c.op \in Anonymous \/ c.sid \in live

Answered(c, answer, new) ==
    calls' = (calls \ {c}) \cup {[c EXCEPT !.answer = answer, !.new = new]}

NewSession ==
    /\ issued < MaxSessions
    /\ issued' = issued + 1
    /\ live' = live \cup {issued + 1}

(* The middleware refuses every call of a session that ended, or that it fails *)
(* to look up; a login is refused for its password, or when a lookup fails.   *)
Refuse(c) ==
    /\ c.answer = "none" /\ c.op \notin {"status", "setup"}
    /\ Answered(c, "unauthorized", 0)
    /\ UNCHANGED <<server, cookie, auth, loaded, page, dialog>>

Serve(c) ==
    /\ c.answer = "none" /\ Authorized(c)
    /\ CASE c.op = "setup" ->
              /\ ~configured /\ NewSession /\ configured' = TRUE
              /\ Answered(c, "ok", issued + 1)
         [] c.op = "login" ->
              /\ configured /\ NewSession /\ UNCHANGED configured
              /\ Answered(c, "ok", issued + 1)
         [] c.op = "status" ->
              /\ Answered(c, IF configured THEN "ok" ELSE "unconfigured", 0) /\ UNCHANGED server
         [] c.op = "password" ->
              /\ live' = live \cap {c.sid} /\ Answered(c, "ok", 0)
              /\ UNCHANGED <<configured, issued>>
         [] c.op = "logout" ->
              /\ live' = live \ {c.sid} /\ Answered(c, "ok", 0)
              /\ UNCHANGED <<configured, issued>>
         [] OTHER -> Answered(c, "ok", 0) /\ UNCHANGED server
    /\ UNCHANGED <<cookie, auth, loaded, page, dialog>>

(* Another browser changes the password, or the session reaches its age. *)
Revoke ==
    /\ live # {}
    /\ live' = {}
    /\ UNCHANGED <<configured, issued, cookie, calls, auth, loaded, page, dialog>>

--------------------------------------------------------------------------------
(* Answers. *)

Gate == loading \/ (user /\ ~loaded)
Mounted == ~Gate /\ initialized /\ user
AuthPage == ~Gate /\ (~initialized \/ ~user)

(* The rest of the calls once c is answered; what the layout sent has no home *)
(* when the layout goes.                                                      *)
Rest(c, gone) == {IF gone THEN [d EXCEPT !.home = FALSE] ELSE d : d \in calls \ {c}}

(* setUser(null): the layout goes, and SystemSettingsProvider forgets whose     *)
(* settings it has, unless there was no user any more: the end of a settings  *)
(* read then counts for whoever comes next.                                   *)
Leave(c) ==
    /\ user' = FALSE /\ dialog' = "closed"
    /\ loaded' = (~user /\ (loaded \/ c.op = "settings"))
    /\ calls' = Rest(c, TRUE)

(* setUser of a new object: SystemSettingsProvider asks for the settings again. *)
Hold(c, sid) ==
    /\ user' = TRUE
    /\ calls' = Rest(c, FALSE) \cup {New("settings", sid)}

(* Mutant: the listener keeps the user of the render that installed it. *)
InvalidateCaptured(c, lost) ==
    /\ ~lost /\ c.answer = "unauthorized"
    /\ calls' = Rest(c, FALSE)
    /\ loading' = (loading /\ c.op # "me")
    /\ UNCHANGED <<initialized, cookie, user, expired, loaded, dialog>>

(* Any 401: api() tells AuthProvider, then throws. *)
Invalidate(c, lost) ==
    /\ ~lost
    /\ c.answer = "unauthorized"
    /\ expired' = (expired \/ user)
    /\ Leave(c)
    /\ loading' = (loading /\ c.op # "me")
    /\ UNCHANGED <<initialized, cookie>>

(* reload(): who is logged in. *)
Asked(c, lost) ==
    /\ c.op = "status"
    /\ \/ /\ ~lost /\ c.answer = "ok"
          /\ initialized' = TRUE
          /\ calls' = Rest(c, FALSE) \cup {New("me", cookie)}
          /\ UNCHANGED <<loading, user, loaded, dialog>>
       \/ /\ \/ ~lost /\ c.answer = "unconfigured" /\ initialized' = FALSE
             \/ lost /\ UNCHANGED initialized
          /\ loading' = FALSE
          /\ Leave(c)
    /\ UNCHANGED <<cookie, expired>>

Me(c, lost) ==
    /\ c.op = "me" /\ loading' = FALSE
    /\ \/ ~lost /\ c.answer = "ok" /\ expired' = FALSE /\ Hold(c, cookie)
             /\ UNCHANGED <<loaded, dialog>>
       \/ lost /\ Leave(c) /\ UNCHANGED expired
    /\ UNCHANGED <<cookie, initialized>>

(* Mutant: the answer to the setup does not end the setup page. *)
LoggedInSetup(c, lost) ==
    /\ c.op \in {"login", "setup"}
    /\ IF lost THEN calls' = Rest(c, FALSE) /\ UNCHANGED <<cookie, expired, user>>
       ELSE c.answer = "ok" /\ cookie' = c.new /\ expired' = FALSE /\ Hold(c, c.new)
    /\ UNCHANGED <<initialized, loading, loaded, dialog>>

LoggedIn(c, lost) ==
    /\ c.op \in {"login", "setup"}
    /\ \/ /\ ~lost /\ c.answer = "ok"
          /\ cookie' = c.new
          /\ initialized' = (initialized \/ c.op = "setup")
          /\ expired' = FALSE
          /\ Hold(c, c.new)
       \/ /\ lost
          /\ calls' = Rest(c, FALSE)
          /\ UNCHANGED <<cookie, initialized, expired, user>>
    /\ UNCHANGED <<loading, loaded, dialog>>

LoggedOut(c, lost) ==
    /\ c.op = "logout"
    /\ \/ ~lost /\ c.answer = "ok" /\ cookie' = 0 /\ expired' = FALSE /\ Leave(c)
       \/ lost /\ calls' = Rest(c, FALSE) /\ UNCHANGED <<cookie, expired, user, loaded, dialog>>
    /\ UNCHANGED <<loading, initialized>>

(* updateLocale. *)
LocaleSaved(c, lost) ==
    /\ c.op = "locale"
    /\ \/ ~lost /\ c.answer = "ok" /\ Hold(c, cookie)
       \/ lost /\ calls' = Rest(c, FALSE) /\ UNCHANGED user
    /\ UNCHANGED <<cookie, loading, initialized, expired, loaded, dialog>>

SaveEnded(c) == dialog' = IF c.home THEN "open" ELSE dialog

ProfileSaved(c, lost) ==
    /\ c.op = "profile"
    /\ \/ ~lost /\ c.answer = "ok" /\ Hold(c, cookie)
       \/ lost /\ calls' = Rest(c, FALSE) /\ UNCHANGED user
    /\ SaveEnded(c)
    /\ UNCHANGED <<cookie, loading, initialized, expired, loaded>>

PasswordSaved(c, lost) ==
    /\ c.op = "password" /\ (lost \/ c.answer = "ok")
    /\ calls' = Rest(c, FALSE)
    /\ SaveEnded(c)
    /\ UNCHANGED <<cookie, auth, loaded>>

(* Mutant: only settings that arrive count. *)
SettingsReadOk(c, lost) ==
    /\ c.op = "settings" /\ (lost \/ c.answer = "ok")
    /\ loaded' = (loaded \/ ~lost)
    /\ calls' = Rest(c, FALSE)
    /\ UNCHANGED <<cookie, auth, dialog>>

(* SystemSettingsProvider: the settings are loaded once the read has ended, *)
(* for the user it was sent for, however it ended.                            *)
SettingsRead(c, lost) ==
    /\ c.op = "settings" /\ (lost \/ c.answer = "ok")
    /\ loaded' = TRUE
    /\ calls' = Rest(c, FALSE)
    /\ UNCHANGED <<cookie, auth, dialog>>

PageRead(c, lost) ==
    /\ c.op = "read" /\ (lost \/ c.answer = "ok")
    /\ calls' = Rest(c, FALSE)
    /\ UNCHANGED <<cookie, auth, loaded, dialog>>

Handle(c, lost) ==
    /\ \/ Invalidate(c, lost) \/ Asked(c, lost) \/ Me(c, lost)
       \/ LoggedIn(c, lost) \/ LoggedOut(c, lost)
       \/ LocaleSaved(c, lost) \/ ProfileSaved(c, lost) \/ PasswordSaved(c, lost)
       \/ SettingsRead(c, lost) \/ PageRead(c, lost)
    /\ UNCHANGED <<server, page>>

--------------------------------------------------------------------------------
(* The pages. *)

SubmitLogin ==
    /\ AuthPage /\ initialized
    /\ Send("login")
    /\ UNCHANGED <<server, cookie, auth, loaded, page, dialog>>

SubmitSetup ==
    /\ AuthPage /\ ~initialized
    /\ Send("setup")
    /\ UNCHANGED <<server, cookie, auth, loaded, page, dialog>>

(* A page asks for its data: when it is mounted, refreshed, or by its interval. *)
Read ==
    /\ Mounted
    /\ Send("read")
    /\ UNCHANGED <<server, cookie, auth, loaded, page, dialog>>

Navigate(to) ==
    /\ Mounted /\ page # to
    /\ page' = to
    /\ UNCHANGED <<server, cookie, calls, auth, loaded, dialog>>

(* The browser reloads the page it shows: the answers to come find nobody. *)
Reload ==
    /\ ~Gate
    /\ calls' = {New("status", cookie)}
    /\ loading' = TRUE /\ initialized' = TRUE /\ user' = FALSE /\ expired' = FALSE
    /\ loaded' = FALSE /\ dialog' = "closed"
    /\ UNCHANGED <<server, cookie, page>>

LanguageSaving == \E c \in calls : c.op = "locale" /\ c.home

(* The header's language button, not while its last call is in flight. *)
SwitchLanguage ==
    /\ Mounted /\ dialog = "closed" /\ ~LanguageSaving
    /\ Send("locale")
    /\ UNCHANGED <<server, cookie, auth, loaded, page, dialog>>

Logout ==
    /\ Mounted /\ dialog = "closed"
    /\ Send("logout")
    /\ UNCHANGED <<server, cookie, auth, loaded, page, dialog>>

OpenAccount ==
    /\ Mounted /\ dialog = "closed"
    /\ dialog' = "open"
    /\ UNCHANGED <<server, cookie, calls, auth, loaded, page>>

(* Saves of the two tabs keep each other, and closing, waiting. *)
Save(draft) ==
    /\ Mounted /\ dialog = "open"
    /\ Send(draft)
    /\ dialog' = draft
    /\ UNCHANGED <<server, cookie, auth, loaded, page>>

CloseAccount ==
    /\ Mounted /\ dialog = "open"
    /\ dialog' = "closed"
    /\ UNCHANGED <<server, cookie, calls, auth, loaded, page>>

Answer(c) == Refuse(c) \/ Serve(c)

Next ==
    \/ \E c \in calls : Answer(c) \/ \E lost \in BOOLEAN : Handle(c, lost)
    \/ Revoke
    \/ SubmitLogin \/ SubmitSetup \/ Reload
    \/ Read \/ SwitchLanguage \/ Logout
    \/ \E to \in Pages : Navigate(to)
    \/ OpenAccount \/ CloseAccount
    \/ \E draft \in {"profile", "password"} : Save(draft)

(* Every call ends, and its handler runs. A page with an interval goes on     *)
(* reading, and some of the reads it goes on sending are served and answered. *)
Fairness ==
    /\ \A op \in Ops : WF_vars(\E c \in calls, lost \in BOOLEAN : c.op = op /\ Handle(c, lost))
    /\ WF_vars(page \in Polling /\ Read)
    /\ SF_vars(\E c \in calls : c.op = "read" /\ Answer(c))
    /\ SF_vars(\E c \in calls : c.op = "read" /\ Handle(c, FALSE))

Spec == Init /\ [][Next]_vars /\ Fairness

--------------------------------------------------------------------------------
(* Every part of the state is of its type, and a user is held only by a tab   *)
(* that has asked who is logged in and found the platform initialized.        *)
TypeOK ==
    /\ configured \in BOOLEAN
    /\ issued \in 0 .. MaxSessions /\ live \subseteq 1 .. issued /\ cookie \in 0 .. issued
    /\ calls \subseteq Call
    /\ loading \in BOOLEAN /\ initialized \in BOOLEAN /\ expired \in BOOLEAN
    /\ user \in BOOLEAN
    /\ loaded \in BOOLEAN /\ page \in Pages
    /\ dialog \in Dialog
    /\ user => initialized /\ ~loading

(* A tab whose session ended, at the server, by another browser or with a     *)
(* lost answer to its own logout, does not go on showing the administrator's  *)
(* pages on a page that reads at intervals.                                   *)
Ghost == user /\ cookie \notin live
GhostEnds == (Ghost /\ page \in Polling) ~> (~Ghost \/ page \notin Polling)

(* The spinner always ends, whatever calls fail and in whatever order answers *)
(* come: nothing but an answer to a call in flight opens it.                  *)
GateOpens == Gate ~> ~Gate
================================================================================
