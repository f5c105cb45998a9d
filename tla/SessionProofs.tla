---------------------------- MODULE SessionProofs ----------------------------
(***************************************************************************)
(* What Session keeps for any number of sessions and of calls in flight:   *)
(* whatever is lost, refused, answered late or served for a page that is   *)
(* gone, a user is held only once the tab has asked who is logged in and   *)
(* found the platform initialized.                                         *)
(***************************************************************************)
EXTENDS Session, TLAPS

\* The two calls by which the tab asks who is logged in.
Asking == {"status", "me"}

(* The inductive invariant.  TypeOK alone is not inductive: the answer that   *)
(* brings a user comes from a call of an earlier state, so the calls remember *)
(* what the tab knew when it sent them.                                      *)

\* The answer to a login names a session that was issued.
SessionsIssued == \A c \in calls : c.new \in 0 .. issued

\* Nothing but the two questions and the setup is sent before the tab knows
\* that the platform is initialized.
SentInitialized == \A c \in calls : c.op \notin {"status", "setup"} => initialized

\* While the tab asks, its question is the only call there is.
AsksAlone ==
  /\ \A c \in calls : c.op \in Asking <=> loading
  /\ \A c, d \in calls : loading => c = d

\* The first question needs no session.
StatusPublic == \A c \in calls : c.op = "status" => c.answer # "unauthorized"

IInv == TypeOK /\ SessionsIssued /\ SentInitialized /\ AsksAlone /\ StatusPublic

LEMMA InitIInv == Init => IInv
<1> SUFFICES ASSUME Init PROVE IInv
  OBVIOUS
<1>1. issued \in 0 .. MaxSessions /\ live \subseteq 1 .. issued /\ cookie \in 0 .. issued
  BY SessionAssumption DEF Init, SessionAssumption
<1> DEFINE first == New("status", cookie)
<1>2. /\ first.op = "status" /\ first.answer = "none" /\ first.new = 0
      /\ first \in Call
  BY <1>1, SessionAssumption DEF SessionAssumption, New, Call, Ops, Anonymous
<1>3. calls = {first} /\ loading = TRUE /\ initialized = TRUE /\ user = FALSE
  BY DEF Init
<1> HIDE DEF first
<1>4. TypeOK
  BY <1>1, <1>2, <1>3 DEF Init, TypeOK, Dialog
<1>5. SessionsIssued /\ SentInitialized /\ StatusPublic
  BY <1>1, <1>2, <1>3 DEF SessionsIssued, SentInitialized, StatusPublic
<1>6. AsksAlone
  BY <1>2, <1>3 DEF AsksAlone, Asking
<1>7. QED
  BY <1>4, <1>5, <1>6 DEF IInv

--------------------------------------------------------------------------------
(* Calls *)

LEMMA NewCall ==
  ASSUME TypeOK, NEW op \in Ops, NEW sid \in 0 .. issued
  PROVE  /\ New(op, sid) \in Call
         /\ New(op, sid).op = op /\ New(op, sid).answer = "none"
         /\ New(op, sid).new = 0 /\ 0 \in 0 .. issued
BY SessionAssumption DEF SessionAssumption, TypeOK, New, Call

\* The calls that remain once one is answered.
LEMMA RestCalls ==
  ASSUME IInv, NEW c \in calls, NEW gone \in BOOLEAN
  PROVE  /\ \A e \in Rest(c, gone) :
              /\ e \in Call
              /\ \E d \in calls : e.op = d.op /\ e.answer = d.answer /\ e.new = d.new
         /\ loading => Rest(c, gone) = {}
<1>1. ASSUME NEW d \in calls
      PROVE  /\ d \in Call /\ [d EXCEPT !.home = FALSE] \in Call
             /\ [d EXCEPT !.home = FALSE].op = d.op
             /\ [d EXCEPT !.home = FALSE].answer = d.answer
             /\ [d EXCEPT !.home = FALSE].new = d.new
  BY <1>1 DEF IInv, TypeOK, Call
<1>2. loading => calls \ {c} = {}
  BY DEF IInv, AsksAlone
<1>3. QED
  BY <1>1, <1>2 DEF Rest

\* A handler that leaves the tab knowing who is logged in, or that nobody is.
LEMMA HandlerStep ==
  ASSUME IInv, NEW c \in calls, NEW gone \in BOOLEAN, NEW sid \in 0 .. issued,
         calls' = Rest(c, gone) \/ (calls' = Rest(c, gone) \cup {New("settings", sid)} /\ initialized'),
         initialized => initialized' \/ loading,
         loading' = FALSE,
         cookie' \in 0 .. issued,
         initialized' \in BOOLEAN, expired' \in BOOLEAN, user' \in BOOLEAN, loaded' \in BOOLEAN,
         dialog' \in Dialog, user' => initialized',
         UNCHANGED <<server, page>>
  PROVE  IInv'
<1> DEFINE new == New("settings", sid)
<1>1. /\ new \in Call /\ new.op = "settings" /\ new.answer = "none" /\ new.new \in 0 .. issued
  BY NewCall DEF IInv, Ops
<1> HIDE DEF new
<1>2. \A e \in calls' : \/ e \in Rest(c, gone)
                        \/ e = new /\ initialized'
  BY DEF new
<1>3. calls' \subseteq Call
  BY <1>1, <1>2, RestCalls
<1>4. UNCHANGED <<configured, live, issued, page>>
  BY DEF server
<1>5. TypeOK'
  BY <1>3, <1>4 DEF IInv, TypeOK
<1>6. SessionsIssued'
  BY <1>1, <1>2, <1>4, RestCalls DEF IInv, SessionsIssued
<1>7. SentInitialized'
  BY <1>2, RestCalls DEF IInv, SentInitialized
<1>8. AsksAlone'
  <2>1. ASSUME NEW e \in calls' PROVE e.op \notin Asking
    BY <1>1, <1>2, <2>1, RestCalls DEF IInv, AsksAlone, Asking
  <2>2. QED
    BY <2>1 DEF AsksAlone
<1>9. StatusPublic'
  BY <1>1, <1>2, RestCalls DEF IInv, StatusPublic
<1>10. QED
  BY <1>5, <1>6, <1>7, <1>8, <1>9 DEF IInv

\* A page or the layout sends a call.
LEMMA SendStep ==
  ASSUME IInv, NEW op \in Ops \ Asking, Send(op), ~loading, op # "setup" => initialized,
         dialog' \in Dialog,
         UNCHANGED <<server, cookie, auth, loaded, page>>
  PROVE  IInv'
<1> DEFINE new == New(op, cookie)
<1>1. cookie \in 0 .. issued /\ UNCHANGED <<configured, live, issued, loading, initialized, user, expired>>
  BY DEF IInv, TypeOK, server, auth
<1>2. /\ new \in Call /\ new.op = op /\ new.answer = "none" /\ new.new \in 0 .. issued
  BY <1>1, NewCall DEF IInv
<1>3. calls' = calls \cup {new}
  BY DEF Send
<1> HIDE DEF new
<1>4. TypeOK'
  BY <1>1, <1>2, <1>3 DEF IInv, TypeOK
<1>5. SessionsIssued' /\ StatusPublic'
  BY <1>1, <1>2, <1>3 DEF IInv, SessionsIssued, StatusPublic
<1>6. SentInitialized'
  BY <1>1, <1>2, <1>3 DEF IInv, SentInitialized, Asking
<1>7. AsksAlone'
  BY <1>1, <1>2, <1>3 DEF IInv, AsksAlone, Asking
<1>8. QED
  BY <1>4, <1>5, <1>6, <1>7 DEF IInv

\* The calls and what the tab knows are left alone.
LEMMA QuietStep ==
  ASSUME IInv, UNCHANGED <<configured, issued, cookie, calls, auth>>, live' \subseteq live,
         loaded' \in BOOLEAN, page' \in Pages, dialog' \in Dialog
  PROVE  IInv'
<1>1. UNCHANGED <<loading, initialized, user, expired>>
  BY DEF auth
<1>2. TypeOK'
  BY <1>1 DEF IInv, TypeOK
<1>3. QED
  BY <1>1, <1>2 DEF IInv, SessionsIssued, SentInitialized, AsksAlone, StatusPublic

--------------------------------------------------------------------------------
(* The server *)

\* An answer is put on a call; a session may have been issued or ended for it.
LEMMA AnswerStep ==
  ASSUME IInv, NEW c \in calls, NEW answer \in {"ok", "unconfigured", "unauthorized"},
         configured' \in BOOLEAN, issued' \in issued .. MaxSessions, live' \subseteq 1 .. issued',
         NEW new \in 0 .. issued', Answered(c, answer, new),
         c.op = "status" => answer # "unauthorized",
         UNCHANGED <<cookie, auth, loaded, page, dialog>>
  PROVE  IInv'
<1> DEFINE e == [c EXCEPT !.answer = answer, !.new = new]
<1>1. c \in Call /\ issued \in 0 .. MaxSessions /\ issued' \in 0 .. MaxSessions /\ issued <= issued'
  BY SessionAssumption DEF SessionAssumption, IInv, TypeOK
<1>1a. new \in 0 .. MaxSessions
  BY <1>1, SessionAssumption DEF SessionAssumption
<1>2. e \in Call /\ e.op = c.op /\ e.answer = answer /\ e.new = new
  BY <1>1, <1>1a DEF Call
<1>3. calls' = (calls \ {c}) \cup {e}
  BY DEF Answered
<1> HIDE DEF e
<1>4. UNCHANGED <<loading, initialized, user, expired>>
  BY DEF auth
<1>5. cookie' \in 0 .. issued'
  BY <1>1 DEF IInv, TypeOK
<1>6. TypeOK'
  BY <1>1, <1>2, <1>3, <1>4, <1>5 DEF IInv, TypeOK
<1>7. SessionsIssued'
  BY <1>1, <1>2, <1>3 DEF IInv, SessionsIssued
<1>8. SentInitialized' /\ StatusPublic'
  BY <1>2, <1>3, <1>4 DEF IInv, SentInitialized, StatusPublic
<1>9. AsksAlone'
  BY <1>2, <1>3, <1>4 DEF IInv, AsksAlone
<1>10. QED
  BY <1>6, <1>7, <1>8, <1>9 DEF IInv

LEMMA ServerStep ==
  ASSUME IInv, NEW c \in calls, Answer(c)
  PROVE  IInv'
<1>1. /\ configured \in BOOLEAN /\ issued \in 0 .. MaxSessions /\ live \subseteq 1 .. issued
      /\ issued \in issued .. MaxSessions /\ 0 \in 0 .. issued
  BY SessionAssumption DEF SessionAssumption, IInv, TypeOK
<1>2. UNCHANGED <<cookie, auth, loaded, page, dialog>>
  BY DEF Answer, Refuse, Serve
<1>3. CASE Refuse(c)
  <2>1. UNCHANGED <<configured, live, issued>> /\ Answered(c, "unauthorized", 0) /\ c.op # "status"
    BY <1>3 DEF Refuse, server
  <2>2. QED
    BY <1>1, <1>2, <2>1, AnswerStep
<1>4. CASE Serve(c)
  <2>1. CASE c.op \in {"setup", "login"}
    <3>1. /\ NewSession /\ Answered(c, "ok", issued + 1) /\ configured' \in BOOLEAN
      BY <1>1, <1>4, <2>1 DEF Serve
    <3>2. issued' = issued + 1 /\ live' = live \cup {issued + 1} /\ issued < MaxSessions
      BY <3>1 DEF NewSession
    <3>3. issued' \in issued .. MaxSessions /\ issued + 1 \in 0 .. issued'
      BY <1>1, <3>2, SessionAssumption DEF SessionAssumption
    <3>4. live' \subseteq 1 .. issued'
      BY <1>1, <3>2
    <3>5. QED
      BY <1>2, <3>1, <3>3, <3>4, AnswerStep
  <2>2. CASE c.op = "status"
    <3>1. PICK answer \in {"ok", "unconfigured"} : Answered(c, answer, 0)
      BY <1>4, <2>2 DEF Serve
    <3>2. UNCHANGED <<configured, live, issued>>
      BY <1>4, <2>2 DEF Serve, server
    <3>3. QED
      BY <1>1, <1>2, <3>1, <3>2, AnswerStep
  <2>3. CASE c.op \notin {"setup", "login", "status"}
    <3>1. /\ Answered(c, "ok", 0) /\ UNCHANGED <<configured, issued>> /\ live' \subseteq live
      BY <1>4, <2>3 DEF Serve, server
    <3>2. QED
      BY <1>1, <1>2, <3>1, AnswerStep
  <2>4. QED
    BY <2>1, <2>2, <2>3
<1>5. QED
  BY <1>3, <1>4 DEF Answer

--------------------------------------------------------------------------------
(* Answers *)

\* What a handler may assume of its call.
LEMMA AnsweredCall ==
  ASSUME IInv, NEW c \in calls
  PROVE  /\ c.new \in 0 .. issued /\ cookie \in 0 .. issued /\ 0 \in 0 .. issued
         /\ c.op \in Asking <=> loading
         /\ loading \in BOOLEAN /\ initialized \in BOOLEAN /\ expired \in BOOLEAN
         /\ user \in BOOLEAN /\ loaded \in BOOLEAN /\ dialog \in Dialog
         /\ user => initialized
BY DEF IInv, TypeOK, SessionsIssued, AsksAlone

LEMMA InvalidateStep ==
  ASSUME IInv, NEW c \in calls, NEW lost \in BOOLEAN, Invalidate(c, lost), UNCHANGED <<server, page>>
  PROVE  IInv'
<1>1. c.op # "status"
  BY DEF Invalidate, IInv, StatusPublic
<1>2. loading' = FALSE
  BY <1>1, AnsweredCall DEF Invalidate, Asking
<1>3. calls' = Rest(c, TRUE) /\ user' = FALSE /\ dialog' = "closed" /\ loaded' \in BOOLEAN
  BY DEF Invalidate, Leave
<1>4. UNCHANGED <<initialized, cookie>> /\ expired' \in BOOLEAN
  BY AnsweredCall DEF Invalidate
<1>5. dialog' \in Dialog
  BY <1>3 DEF Dialog
<1>6. QED
  BY <1>2, <1>3, <1>4, <1>5, AnsweredCall, HandlerStep

LEMMA AskedStep ==
  ASSUME IInv, NEW c \in calls, NEW lost \in BOOLEAN, Asked(c, lost), UNCHANGED <<server, page>>
  PROVE  IInv'
<1>1. loading = TRUE
  BY AnsweredCall DEF Asked, Asking
<1>2. CASE loading' = FALSE
  <2>1. c.op = "status" /\ UNCHANGED <<cookie, expired>> /\ initialized' \in BOOLEAN /\ Leave(c)
    BY <1>1, <1>2, AnsweredCall DEF Asked
  <2>2. calls' = Rest(c, TRUE) /\ user' = FALSE /\ dialog' = "closed" /\ loaded' \in BOOLEAN
    BY <2>1 DEF Leave
  <2>3. dialog' \in Dialog
    BY <2>2 DEF Dialog
  <2>4. QED
    BY <1>1, <1>2, <2>1, <2>2, <2>3, AnsweredCall, HandlerStep
<1>3. CASE loading' # FALSE
  <2> DEFINE new == New("me", cookie)
  <2>1. /\ initialized' = TRUE /\ calls' = Rest(c, FALSE) \cup {new}
        /\ UNCHANGED <<loading, user, expired, cookie, loaded, dialog>>
    BY <1>3 DEF Asked
  <2>2. /\ new \in Call /\ new.op = "me" /\ new.answer = "none" /\ new.new = 0
    BY AnsweredCall, NewCall DEF IInv, Ops
  <2> HIDE DEF new
  <2>3. calls' = {new}
    BY <1>1, <2>1, RestCalls
  <2>4. UNCHANGED <<configured, live, issued, page>>
    BY DEF server
  <2>5. TypeOK'
    BY <1>1, <2>1, <2>2, <2>3, <2>4 DEF IInv, TypeOK
  <2>6. SessionsIssued' /\ SentInitialized' /\ StatusPublic'
    BY <2>1, <2>2, <2>3, <2>4, AnsweredCall DEF SessionsIssued, SentInitialized, StatusPublic
  <2>7. AsksAlone'
    BY <1>1, <2>1, <2>2, <2>3 DEF AsksAlone, Asking
  <2>8. QED
    BY <2>5, <2>6, <2>7 DEF IInv
<1>4. QED
  BY <1>2, <1>3

LEMMA MeStep ==
  ASSUME IInv, NEW c \in calls, NEW lost \in BOOLEAN, Me(c, lost), UNCHANGED <<server, page>>
  PROVE  IInv'
<1>1. initialized /\ loading' = FALSE /\ UNCHANGED <<cookie, initialized>>
  BY DEF Me, IInv, SentInitialized
<1>2. CASE Hold(c, cookie) /\ expired' = FALSE /\ UNCHANGED <<loaded, dialog>>
  <2>1. calls' = Rest(c, FALSE) \cup {New("settings", cookie)} /\ user' = TRUE
    BY <1>2 DEF Hold
  <2>2. QED
    BY <1>1, <1>2, <2>1, AnsweredCall, HandlerStep
<1>3. CASE Leave(c) /\ UNCHANGED expired
  <2>1. calls' = Rest(c, TRUE) /\ user' = FALSE /\ dialog' = "closed" /\ loaded' \in BOOLEAN
    BY <1>3 DEF Leave
  <2>2. dialog' \in Dialog
    BY <2>1 DEF Dialog
  <2>3. QED
    BY <1>1, <1>3, <2>1, <2>2, AnsweredCall, HandlerStep
<1>4. QED
  BY <1>2, <1>3 DEF Me

LEMMA LoggedInStep ==
  ASSUME IInv, NEW c \in calls, NEW lost \in BOOLEAN, LoggedIn(c, lost), UNCHANGED <<server, page>>
  PROVE  IInv'
<1>1. c.op \in {"login", "setup"} /\ UNCHANGED <<loading, loaded, dialog>>
  BY DEF LoggedIn
<1>2. loading' = FALSE
  BY <1>1, AnsweredCall DEF Asking
<1>3. CASE Hold(c, c.new)
  <2>1. calls' = Rest(c, FALSE) \cup {New("settings", c.new)} /\ user' = TRUE
    BY <1>3 DEF Hold
  <2>2. CASE lost
    <3>1. calls' = Rest(c, FALSE) /\ UNCHANGED <<cookie, initialized, expired, user>>
      BY <2>2 DEF LoggedIn
    <3>2. QED
      BY <1>1, <1>2, <3>1, AnsweredCall, HandlerStep
  <2>3. CASE ~lost
    <3>1. /\ cookie' = c.new /\ expired' = FALSE
          /\ initialized' = (initialized \/ c.op = "setup")
      BY <2>3 DEF LoggedIn
    <3>2. initialized' /\ initialized' \in BOOLEAN
      BY <1>1, <3>1, AnsweredCall DEF IInv, SentInitialized
    <3>3. QED
      BY <1>1, <1>2, <2>1, <3>1, <3>2, AnsweredCall, HandlerStep
  <2>4. QED
    BY <2>2, <2>3
<1>4. CASE calls' = Rest(c, FALSE) /\ UNCHANGED <<cookie, initialized, expired, user>>
  BY <1>1, <1>2, <1>4, AnsweredCall, HandlerStep
<1>5. QED
  BY <1>3, <1>4 DEF LoggedIn

\* What the layout sent: the tab keeps the user, or loses it by a logout.
LEMMA LayoutStep ==
  ASSUME IInv, NEW c \in calls, NEW lost \in BOOLEAN, UNCHANGED <<server, page>>,
         \/ LoggedOut(c, lost) \/ LocaleSaved(c, lost) \/ ProfileSaved(c, lost)
         \/ PasswordSaved(c, lost) \/ SettingsRead(c, lost) \/ PageRead(c, lost)
  PROVE  IInv'
<1>1. c.op \notin {"status", "me", "setup"} /\ UNCHANGED <<loading, initialized>>
  BY DEF LoggedOut, LocaleSaved, ProfileSaved, PasswordSaved, SettingsRead, PageRead, auth
<1>2. initialized /\ loading' = FALSE
  BY <1>1, AnsweredCall DEF Asking, IInv, SentInitialized
<1>3. CASE LoggedOut(c, lost)
  <2>1. CASE Leave(c)
    <3>1. calls' = Rest(c, TRUE) /\ user' = FALSE /\ dialog' = "closed" /\ loaded' \in BOOLEAN
      BY <2>1 DEF Leave
    <3>2. dialog' \in Dialog /\ cookie' \in 0 .. issued /\ expired' \in BOOLEAN
      BY <1>3, <3>1, AnsweredCall DEF Dialog, LoggedOut
    <3>3. QED
      BY <1>1, <1>2, <3>1, <3>2, AnsweredCall, HandlerStep
  <2>2. CASE calls' = Rest(c, FALSE) /\ UNCHANGED <<cookie, expired, user, loaded, dialog>>
    BY <1>1, <1>2, <2>2, AnsweredCall, HandlerStep
  <2>3. QED
    BY <1>3, <2>1, <2>2 DEF LoggedOut
<1>4. CASE LocaleSaved(c, lost) \/ ProfileSaved(c, lost)
  <2>1. UNCHANGED <<cookie, expired, loaded>> /\ dialog' \in Dialog
    BY <1>4, AnsweredCall DEF LocaleSaved, ProfileSaved, SaveEnded, Dialog
  <2>2. CASE Hold(c, cookie)
    <3>1. calls' = Rest(c, FALSE) \cup {New("settings", cookie)} /\ user' = TRUE
      BY <2>2 DEF Hold
    <3>2. QED
      BY <1>1, <1>2, <2>1, <3>1, AnsweredCall, HandlerStep
  <2>3. CASE calls' = Rest(c, FALSE) /\ UNCHANGED user
    BY <1>1, <1>2, <2>1, <2>3, AnsweredCall, HandlerStep
  <2>4. QED
    BY <1>4, <2>2, <2>3 DEF LocaleSaved, ProfileSaved
<1>5. CASE PasswordSaved(c, lost) \/ SettingsRead(c, lost) \/ PageRead(c, lost)
  <2>1. /\ calls' = Rest(c, FALSE) /\ UNCHANGED <<cookie, expired, user>>
        /\ loaded' \in BOOLEAN /\ dialog' \in Dialog
    BY <1>5, AnsweredCall DEF PasswordSaved, SettingsRead, PageRead, auth, SaveEnded, Dialog
  <2>2. QED
    BY <1>1, <1>2, <2>1, AnsweredCall, HandlerStep
<1>6. QED
  BY <1>3, <1>4, <1>5

LEMMA HandleStep ==
  ASSUME IInv, NEW c \in calls, NEW lost \in BOOLEAN, Handle(c, lost)
  PROVE  IInv'
BY InvalidateStep, AskedStep, MeStep, LoggedInStep, LayoutStep DEF Handle

--------------------------------------------------------------------------------
(* The pages *)

LEMMA PageStep ==
  ASSUME IInv,
         \/ SubmitLogin \/ SubmitSetup \/ Read \/ SwitchLanguage \/ Logout
         \/ \E draft \in {"profile", "password"} : Save(draft)
  PROVE  IInv'
<1>1. Mounted \/ AuthPage
  BY DEF SubmitLogin, SubmitSetup, Read, SwitchLanguage, Logout, Save
<1>2. ~loading
  BY <1>1 DEF Mounted, AuthPage, Gate
<1>3. dialog \in Dialog /\ {"profile", "password"} \subseteq Dialog
  BY DEF IInv, TypeOK, Dialog
<1>4. PICK op \in Ops \ Asking : Send(op) /\ (op # "setup" => initialized)
  BY DEF SubmitLogin, SubmitSetup, Read, SwitchLanguage, Logout, Save, Mounted, Ops, Anonymous, Asking
<1>5. UNCHANGED <<server, cookie, auth, loaded, page>> /\ dialog' \in Dialog
  BY <1>3 DEF SubmitLogin, SubmitSetup, Read, SwitchLanguage, Logout, Save
<1>6. QED
  BY <1>2, <1>4, <1>5, SendStep

LEMMA LayoutMoves ==
  ASSUME IInv,
         \/ Revoke \/ OpenAccount \/ CloseAccount \/ UNCHANGED vars
         \/ \E to \in Pages : Navigate(to)
  PROVE  IInv'
<1>1. loaded \in BOOLEAN /\ page \in Pages /\ dialog \in Dialog /\ {"open", "closed"} \subseteq Dialog
  BY DEF IInv, TypeOK, Dialog
<1>2. UNCHANGED <<configured, issued, cookie, calls, auth, loaded>> /\ live' \subseteq live
  BY DEF Revoke, OpenAccount, CloseAccount, Navigate, vars, server
<1>3. page' \in Pages /\ dialog' \in Dialog
  BY <1>1 DEF Revoke, OpenAccount, CloseAccount, Navigate, vars
<1>4. QED
  BY <1>1, <1>2, <1>3, QuietStep

LEMMA ReloadStep ==
  ASSUME IInv, Reload
  PROVE  IInv'
<1> DEFINE first == New("status", cookie)
<1>1. cookie \in 0 .. issued
  BY DEF IInv, TypeOK
<1>2. first \in Call /\ first.op = "status" /\ first.answer = "none" /\ first.new \in 0 .. issued
  BY <1>1, NewCall DEF IInv, Ops, Anonymous
<1>3. /\ calls' = {first} /\ loading' = TRUE /\ initialized' = TRUE /\ user' = FALSE
      /\ expired' = FALSE /\ loaded' = FALSE /\ dialog' = "closed"
      /\ UNCHANGED <<configured, live, issued, cookie, page>>
  BY DEF Reload, server
<1> HIDE DEF first
<1>4. TypeOK'
  BY <1>2, <1>3 DEF IInv, TypeOK, Dialog
<1>5. SessionsIssued' /\ SentInitialized' /\ StatusPublic'
  BY <1>2, <1>3 DEF SessionsIssued, SentInitialized, StatusPublic
<1>6. AsksAlone'
  BY <1>2, <1>3 DEF AsksAlone, Asking
<1>7. QED
  BY <1>4, <1>5, <1>6 DEF IInv

--------------------------------------------------------------------------------
(* The inductive invariant, for every number of sessions and of calls, and    *)
(* without fairness.                                                         *)
THEOREM Invariance == Spec => []IInv
<1>1. IInv /\ [Next]_vars => IInv'
  BY ServerStep, HandleStep, PageStep, LayoutMoves, ReloadStep DEF Next
<1>2. QED
  BY InitIInv, <1>1, PTL DEF Spec

(* TypeOK: every part of the state is of its type, and a user is held only by *)
(* a tab that has asked who is logged in and found the platform initialized,  *)
(* in whatever order the answers of contexts/AuthContext.tsx come.            *)
THEOREM TypeCorrect == Spec => []TypeOK
<1>1. IInv => TypeOK
  BY DEF IInv
<1>2. QED
  BY <1>1, Invariance, PTL
================================================================================
