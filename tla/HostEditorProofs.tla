---------------------------- MODULE HostEditorProofs ----------------------------
(* Proofs about HostEditor for any connections, machines and numbers of saves   *)
(* and tests: the type invariant, and that what is stored for a host was tested *)
(* for it.                                                                      *)
(*                                                                              *)
(* What is stored is what a save carries, which the server compares with a      *)
(* token or with the row it reads; so the invariant says of every token, and of *)
(* every save that has passed the comparison, what SavedVerified says of rows.  *)
(* A test that has succeeded stays so: the history only grows.                  *)
EXTENDS HostEditor, TLAPS

EditorType ==
    [open : BOOLEAN, host : {0} \cup Hosts, base : Connections \cup {None},
     conn : Connections \cup {None}, secret : BOOLEAN, print : BOOLEAN,
     token : Token \cup {NoToken}, dirty : BOOLEAN,
     test : Connections \cup {None}, saving : {"no", "sent", "settling"}]

(* The connection was found to work for the host, or for a new one. *)
Works(h, conn) == [host |-> h, conn |-> conn] \in proven \/ [host |-> 0, conn |-> conn] \in proven

(* A token stands for a test. *)
Stands(token) == token # NoToken => token \in proven

(* A save carries a token that stands for a test; once it has passed the       *)
(* comparison, its connection works.                                           *)
SaveStands(s) ==
    saves[s] # NoSave =>
      /\ Stands(saves[s].token)
      /\ saves[s].step = "read" => saves[s].host \in Hosts /\ Works(saves[s].host, saves[s].conn)

TokensStand == Stands(editor.token) /\ \A s \in Slots : SaveStands(s)

IInv == TypeOK /\ SavedVerified /\ TokensStand

--------------------------------------------------------------------------------
(* A save that is under way is a record of a save. *)
LEMMA UnderWay ==
    ASSUME TypeOK, NEW s \in Slots, saves[s] # NoSave
    PROVE  saves[s] \in Save
BY DEF TypeOK

LEMMA UnderWayStep ==
    ASSUME TypeOK, NEW s \in Slots, saves[s].step # "free"
    PROVE  saves[s] # NoSave /\ saves[s] \in Save
BY DEF TypeOK, NoSave

(* The history only grows. *)
LEMMA ProvenGrows == [Next]_vars => proven \subseteq proven'
BY DEF Next, vars, Refuse, ReadHost, WriteHost, Forget, Submit, Saved, SaveFails, CreateHost,
       Elsewhere, ListArrives, ListFails, Reload, Show, Edit, Test, Tested, TestFails,
       SaveSettled, Close, GoBack

--------------------------------------------------------------------------------
(* The first state is of its type, and its host was tested. *)
LEMMA InitIInv == EditorAssumption /\ Init => IInv
<1> SUFFICES ASSUME EditorAssumption, Init PROVE IInv
  OBVIOUS
<1> USE DEF EditorAssumption, Init
<1>1. TypeOK
  BY DEF TypeOK, Token, Save, Reads, Unread, Closed, NoToken, NoSave, Hosts
<1>2. SavedVerified
  BY DEF SavedVerified, Exists, Hosts
<1>3. TokensStand
  BY DEF TokensStand, Stands, SaveStands, Closed
<1> QED
  BY <1>1, <1>2, <1>3 DEF IInv

(* Every step keeps the rows, which a save or another tab writes. *)
LEMMA RowsType ==
    ASSUME EditorAssumption, TypeOK, [Next]_vars
    PROVE  rows' \in [Hosts -> Connections \cup {None}]
<1> rows \in [Hosts -> Connections \cup {None}]
  BY DEF TypeOK
<1>1. ASSUME NEW s \in Slots, NEW h \in Hosts, CreateHost(s, h)
      PROVE  rows' \in [Hosts -> Connections \cup {None}]
  <2>1. saves[s] \in Save
    BY <1>1, UnderWayStep DEF CreateHost
  <2> QED
    BY <1>1, <2>1 DEF CreateHost, Save
<1>2. ASSUME NEW s \in Slots, WriteHost(s)
      PROVE  rows' \in [Hosts -> Connections \cup {None}]
  <2>1. saves[s] \in Save
    BY <1>2, UnderWayStep DEF WriteHost
  <2> QED
    BY <1>2, <2>1 DEF WriteHost, Save
<1>3. ASSUME NEW h \in Hosts, NEW conn \in Connections, Elsewhere(h, conn)
      PROVE  rows' \in [Hosts -> Connections \cup {None}]
  BY <1>3 DEF Elsewhere
<1>4. CASE UNCHANGED rows
  BY <1>4
<1> QED
  BY <1>1, <1>2, <1>3, <1>4
  DEF Next, vars, Refuse, ReadHost, Forget, Submit, Saved, SaveFails, ListArrives, ListFails,
      Reload, Show, Edit, Test, Tested, TestFails, SaveSettled, Close, GoBack

(* Every step keeps the history one of tests. *)
LEMMA ProvenType ==
    ASSUME EditorAssumption, TypeOK, [Next]_vars
    PROVE  proven' \subseteq Token
<1> proven \subseteq Token
  BY DEF TypeOK
<1>1. ASSUME NEW h \in Hosts, NEW conn \in Connections, Elsewhere(h, conn)
      PROVE  proven' \subseteq Token
  BY <1>1 DEF Elsewhere, Token
<1>2. ASSUME Tested
      PROVE  proven' \subseteq Token
  BY <1>2 DEF Tested, Token, TypeOK
<1>3. CASE UNCHANGED proven
  BY <1>3
<1> QED
  BY <1>1, <1>2, <1>3
  DEF Next, vars, Refuse, ReadHost, WriteHost, CreateHost, Forget, Submit, Saved, SaveFails,
      ListArrives, ListFails, Reload, Show, Edit, Test, TestFails, SaveSettled, Close, GoBack

(* Every step keeps the saves. *)
LEMMA SavesType ==
    ASSUME EditorAssumption, TypeOK, [Next]_vars
    PROVE  saves' \in [Slots -> {NoSave} \cup Save]
<1> saves \in [Slots -> {NoSave} \cup Save]
  BY DEF TypeOK
<1>1. ASSUME NEW s \in Slots, NEW step \in {"sent", "read", "saved", "refused"},
             saves[s].step # "free", Step(s, step)
      PROVE  saves' \in [Slots -> {NoSave} \cup Save]
  <2>1. saves[s] \in Save
    BY <1>1, UnderWayStep
  <2>2. [saves[s] EXCEPT !.step = step] \in Save
    BY <2>1 DEF Save
  <2>3. saves' = [saves EXCEPT ![s] = [saves[s] EXCEPT !.step = step]]
    BY <1>1 DEF Step
  <2> QED
    BY <2>2, <2>3
<1>2. ASSUME NEW s \in Slots, Refuse(s)
      PROVE  saves' \in [Slots -> {NoSave} \cup Save]
  BY <1>1, <1>2 DEF Refuse
<1>3. ASSUME NEW s \in Slots, NEW h \in Hosts, CreateHost(s, h)
      PROVE  saves' \in [Slots -> {NoSave} \cup Save]
  BY <1>1, <1>3 DEF CreateHost
<1>4. ASSUME NEW s \in Slots, ReadHost(s)
      PROVE  saves' \in [Slots -> {NoSave} \cup Save]
  BY <1>1, <1>4 DEF ReadHost
<1>5. ASSUME NEW s \in Slots, WriteHost(s)
      PROVE  saves' \in [Slots -> {NoSave} \cup Save]
  BY <1>1, <1>5 DEF WriteHost
<1>6. ASSUME NEW s \in Slots, Forget(s) \/ Saved(s)
      PROVE  saves' \in [Slots -> {NoSave} \cup Save]
  BY <1>6 DEF Forget, Saved
<1>7. ASSUME NEW s \in Slots, Submit(s)
      PROVE  saves' \in [Slots -> {NoSave} \cup Save]
  <2> DEFINE save == [step |-> "sent", host |-> editor.host, conn |-> editor.conn,
                      secret |-> editor.secret, token |-> editor.token, home |-> TRUE]
  <2>1. editor.host \in {0} \cup Hosts /\ editor.conn \in Connections
        /\ editor.secret \in BOOLEAN /\ editor.token \in Token \cup {NoToken}
    BY <1>7 DEF TypeOK, Submit, ConnectionReady
  <2>2. save \in Save
    BY <2>1 DEF Save
  <2>3. saves' = [saves EXCEPT ![s] = save]
    BY <1>7 DEF Submit
  <2> QED
    BY <2>2, <2>3
<1>8. ASSUME NEW s \in Slots, SaveFails(s)
      PROVE  saves' \in [Slots -> {NoSave} \cup Save]
  <2>1. [saves[s] EXCEPT !.home = FALSE] \in Save
    <3>1. saves[s] \in Save
      BY <1>8, UnderWay DEF SaveFails
    <3> QED
      BY <3>1 DEF Save
  <2> QED
    BY <1>8, <2>1 DEF SaveFails
<1>9. CASE UNCHANGED saves
  BY <1>9
<1> QED
  BY <1>2, <1>3, <1>4, <1>5, <1>6, <1>7, <1>8, <1>9
  DEF Next, vars, Elsewhere, ListArrives, ListFails, Reload, Show, Edit, Test, Tested, TestFails,
      SaveSettled, Close, GoBack

(* Every step keeps what was read. *)
LEMMA ListType ==
    ASSUME EditorAssumption, TypeOK, [Next]_vars
    PROVE  list' \in Reads /\ returning' \in BOOLEAN
<1> list \in Reads /\ returning \in BOOLEAN
  BY DEF TypeOK
<1>0. returning' = returning
  BY DEF Next, vars, Refuse, ReadHost, WriteHost, Forget, Submit, Saved, SaveFails, CreateHost,
         Elsewhere, ListArrives, ListFails, Reload, Show, Edit, Test, Tested, TestFails,
         SaveSettled, Close, GoBack
<1>1. ASSUME ListArrives PROVE list' \in Reads
  <2>1. ASSUME NEW known \in BOOLEAN, NEW read \in {"failed", "read"},
               list' = [read |-> read, known |-> known, online |-> "none"]
        PROVE  list' \in Reads
    BY <2>1 DEF Reads
  <2>2. ASSUME NEW hosts, list' = [read |-> "read", known |-> TRUE, online |-> Online(hosts)]
        PROVE  list' \in Reads
    <3>1. Online(hosts) \in {"none", "other", "compatible"}
      BY DEF Online
    <3> QED
      BY <2>2, <3>1 DEF Reads
  <2> QED
    BY <1>1, <2>1, <2>2 DEF ListArrives
<1>2. ASSUME ListFails \/ Reload PROVE list' \in Reads
  BY <1>2 DEF ListFails, Reload, Reads
<1>3. ASSUME list' = Unread PROVE list' \in Reads
  BY <1>3 DEF Unread, Reads
<1>4. CASE UNCHANGED list
  BY <1>4, <1>0
<1> QED
  BY <1>0, <1>1, <1>2, <1>3, <1>4
  DEF Next, vars, Refuse, ReadHost, WriteHost, CreateHost, Forget, Submit, Saved, SaveFails,
      Elsewhere, Show, Edit, Test, Tested, TestFails, SaveSettled, Close, GoBack

(* Every step keeps the form. *)
LEMMA FormType ==
    ASSUME EditorAssumption, TypeOK, [Next]_vars
    PROVE  editor' \in EditorType
<1>0. editor \in EditorType
  BY DEF TypeOK, EditorType
<1>1. Closed \in EditorType
  BY DEF Closed, EditorType
<1>2. ASSUME NEW h \in {0} \cup Hosts, Show(h) PROVE editor' \in EditorType
  <2>1. editor.saving \in {"no", "sent", "settling"}
    BY <1>0 DEF EditorType
  <2>2. (IF h = 0 THEN None ELSE rows[h]) \in Connections \cup {None}
    BY <1>2 DEF TypeOK
  <2> QED
    BY <1>1, <1>2, <2>1, <2>2, ZenonT(60) DEF Show, EditorType
<1>3. ASSUME NEW conn \in Connections, NEW secret \in BOOLEAN, Edit(conn, secret)
      PROVE  editor' \in EditorType
  BY <1>0, <1>3, ZenonT(60) DEF Edit, EditorType
<1>4. ASSUME Test PROVE editor' \in EditorType
  BY <1>0, <1>4 DEF Test, EditorType
<1>5. ASSUME Tested PROVE editor' \in EditorType
  <2>1. [host |-> editor.host, conn |-> editor.test] \in Token
    BY <1>0, <1>5 DEF Tested, EditorType, Token
  <2> QED
    BY <1>0, <1>5, <2>1 DEF Tested, EditorType
<1>6. ASSUME TestFails \/ SaveSettled PROVE editor' \in EditorType
  BY <1>0, <1>6 DEF TestFails, SaveSettled, EditorType
<1>7. ASSUME NEW s \in Slots, Submit(s) \/ Saved(s) \/ SaveFails(s) PROVE editor' \in EditorType
  <2>1. ASSUME NEW saving \in {"no", "sent"}, editor' = [editor EXCEPT !.saving = saving]
        PROVE  editor' \in EditorType
    BY <1>0, <2>1 DEF EditorType
  <2>2. ASSUME editor' = [editor EXCEPT !.open = FALSE, !.saving = "settling"]
        PROVE  editor' \in EditorType
    BY <1>0, <2>2 DEF EditorType
  <2> QED
    BY <1>1, <1>7, <2>1, <2>2 DEF Submit, Saved, SaveFails
<1>8. ASSUME Close \/ GoBack PROVE editor' \in EditorType
  BY <1>1, <1>8 DEF Close, GoBack
<1>9. CASE UNCHANGED editor
  BY <1>0, <1>9
<1> QED
  BY <1>2, <1>3, <1>4, <1>5, <1>6, <1>7, <1>8, <1>9
  DEF Next, vars, Refuse, ReadHost, WriteHost, CreateHost, Forget, Elsewhere, ListArrives,
      ListFails, Reload

(* A step keeps the type of the state. *)
LEMMA TypeStep == EditorAssumption /\ TypeOK /\ [Next]_vars => TypeOK'
BY RowsType, ProvenType, SavesType, ListType, FormType DEF TypeOK, EditorType

--------------------------------------------------------------------------------
(* What is written to a row was tested: by the tab that writes it, or as the    *)
(* save's comparison has found.                                                 *)
LEMMA SavedVerifiedStep ==
    ASSUME EditorAssumption, IInv, [Next]_vars
    PROVE  SavedVerified'
<1> USE DEF IInv
<1>0. proven \subseteq proven'
  BY ProvenGrows
<1>1. CASE UNCHANGED rows
  BY <1>0, <1>1 DEF SavedVerified, Exists
<1>2. ASSUME NEW host \in Hosts, NEW conn \in Connections, rows' = [rows EXCEPT ![host] = conn],
             [host |-> host, conn |-> conn] \in proven' \/ [host |-> 0, conn |-> conn] \in proven'
      PROVE  SavedVerified'
  <2> SUFFICES ASSUME NEW h \in Hosts, rows'[h] # None
               PROVE  [host |-> h, conn |-> rows'[h]] \in proven'
                      \/ [host |-> 0, conn |-> rows'[h]] \in proven'
    BY DEF SavedVerified, Exists
  <2> rows \in [Hosts -> Connections \cup {None}]
    BY DEF TypeOK
  <2>1. CASE h = host
    BY <1>2, <2>1
  <2>2. CASE h # host
    BY <1>0, <1>2, <2>2 DEF SavedVerified, Exists
  <2> QED
    BY <2>1, <2>2
<1>3. ASSUME NEW s \in Slots, NEW h \in Hosts, CreateHost(s, h) PROVE SavedVerified'
  <2>1. saves[s] # NoSave /\ saves[s] \in Save
    BY <1>3, UnderWayStep DEF CreateHost
  <2>2. saves[s].conn \in Connections
    BY <2>1 DEF Save
  <2>3. saves[s].token = [host |-> 0, conn |-> saves[s].conn]
    BY <1>3 DEF CreateHost, Verified
  <2>4. saves[s].token # NoToken
    BY <2>2, <2>3 DEF NoToken, EditorAssumption
  <2>5. saves[s].token \in proven
    BY <2>1, <2>4 DEF TokensStand, SaveStands, Stands
  <2> QED
    BY <1>0, <1>2, <1>3, <2>2, <2>3, <2>5 DEF CreateHost
<1>4. ASSUME NEW s \in Slots, WriteHost(s) PROVE SavedVerified'
  <2>1. saves[s] # NoSave /\ saves[s] \in Save
    BY <1>4, UnderWayStep DEF WriteHost
  <2>2. saves[s].conn \in Connections
    BY <2>1 DEF Save
  <2>3. saves[s].host \in Hosts /\ Works(saves[s].host, saves[s].conn)
    BY <1>4, <2>1 DEF TokensStand, SaveStands, WriteHost
  <2> QED
    BY <1>0, <1>2, <1>4, <2>2, <2>3 DEF WriteHost, Works
<1>5. ASSUME NEW h \in Hosts, NEW conn \in Connections, Elsewhere(h, conn) PROVE SavedVerified'
  BY <1>2, <1>5 DEF Elsewhere
<1> QED
  BY <1>1, <1>3, <1>4, <1>5
  DEF Next, vars, Refuse, ReadHost, Forget, Submit, Saved, SaveFails, ListArrives, ListFails,
      Reload, Show, Edit, Test, Tested, TestFails, SaveSettled, Close, GoBack

(* The form's token is one it has been given, or none. *)
LEMMA FormStandsStep ==
    ASSUME EditorAssumption, IInv, [Next]_vars
    PROVE  Stands(editor.token)'
<1> USE DEF IInv
<1>0. proven \subseteq proven' /\ Stands(editor.token) /\ editor \in EditorType
  BY ProvenGrows DEF TokensStand, TypeOK, EditorType
<1>1. ASSUME editor'.token = editor.token \/ editor'.token = NoToken PROVE Stands(editor.token)'
  BY <1>0, <1>1 DEF Stands
<1>2. ASSUME NEW h \in {0} \cup Hosts, Show(h) PROVE editor'.token = NoToken
  BY <1>2 DEF Show, Closed
<1>3. ASSUME NEW conn \in Connections, NEW secret \in BOOLEAN, Edit(conn, secret)
      PROVE  editor'.token = editor.token \/ editor'.token = NoToken
  BY <1>0, <1>3 DEF Edit, EditorType
<1>4. ASSUME Test \/ TestFails \/ SaveSettled
      PROVE  editor'.token = editor.token \/ editor'.token = NoToken
  BY <1>0, <1>4 DEF Test, TestFails, SaveSettled, EditorType
<1>5. ASSUME Tested PROVE Stands(editor.token)'
  <2>1. editor'.token = [host |-> editor.host, conn |-> editor.test]
    BY <1>0, <1>5 DEF Tested, EditorType
  <2> QED
    BY <1>5, <2>1 DEF Tested, Stands
<1>6. ASSUME NEW s \in Slots, Submit(s) \/ Saved(s) \/ SaveFails(s)
      PROVE  editor'.token = editor.token \/ editor'.token = NoToken
  <2>1. Closed.token = NoToken
    BY DEF Closed
  <2>2. ASSUME NEW saving \in {"no", "sent"}, editor' = [editor EXCEPT !.saving = saving]
        PROVE  editor'.token = editor.token
    BY <1>0, <2>2 DEF EditorType
  <2>3. ASSUME editor' = [editor EXCEPT !.open = FALSE, !.saving = "settling"]
        PROVE  editor'.token = editor.token
    BY <1>0, <2>3 DEF EditorType
  <2> QED
    BY <1>6, <2>1, <2>2, <2>3 DEF Submit, Saved, SaveFails
<1>7. ASSUME Close \/ GoBack PROVE editor'.token = NoToken
  BY <1>7 DEF Close, GoBack, Closed
<1>8. CASE UNCHANGED editor
  BY <1>1, <1>8
<1> QED
  BY <1>1, <1>2, <1>3, <1>4, <1>5, <1>6, <1>7, <1>8
  DEF Next, vars, Refuse, ReadHost, WriteHost, CreateHost, Forget, Elsewhere, ListArrives,
      ListFails, Reload

(* A save takes the form's token along. The comparison that lets a change pass  *)
(* finds a token for it, or that it changes nothing of the connection.          *)
LEMMA SavesStandStep ==
    ASSUME EditorAssumption, IInv, [Next]_vars, NEW s \in Slots
    PROVE  SaveStands(s)'
<1> USE DEF IInv
<1>0. /\ proven \subseteq proven' /\ SaveStands(s)
      /\ saves \in [Slots -> {NoSave} \cup Save]
  BY ProvenGrows DEF TokensStand, TypeOK
<1>1. ASSUME saves'[s] = saves[s] \/ saves'[s] = NoSave PROVE SaveStands(s)'
  BY <1>0, <1>1 DEF SaveStands, Stands, Works
<1>2. ASSUME NEW step \in {"saved", "refused"}, saves[s].step # "free", Step(s, step)
      PROVE  SaveStands(s)'
  <2>1. saves[s] # NoSave /\ saves[s] \in Save
    BY <1>2, UnderWayStep
  <2>2. saves'[s].token = saves[s].token /\ saves'[s].step = step
    BY <1>0, <1>2, <2>1 DEF Step, Save
  <2> QED
    BY <1>0, <2>1, <2>2 DEF SaveStands, Stands
<1>3. ASSUME ReadHost(s) PROVE SaveStands(s)'
  <2>1. saves[s] # NoSave /\ saves[s] \in Save
    BY <1>3, UnderWayStep DEF ReadHost
  <2>2. /\ saves[s].host \in Hosts /\ saves[s].conn \in Connections
        /\ Stands(saves[s].token)
    BY <1>0, <1>3, <2>1 DEF ReadHost, Save, SaveStands
  <2>3. /\ saves'[s].token = saves[s].token /\ saves'[s].host = saves[s].host
        /\ saves'[s].conn = saves[s].conn
    BY <1>0, <1>3, <2>1 DEF ReadHost, Step, Save
  <2>4. Works(saves[s].host, saves[s].conn)
    <3>1. CASE VerificationRequired(saves[s].host, saves[s].conn, saves[s].secret)
      <4>1. saves[s].token = [host |-> saves[s].host, conn |-> saves[s].conn]
        BY <1>3, <3>1 DEF ReadHost, Verified
      <4>2. saves[s].token # NoToken
        BY <2>2, <4>1 DEF NoToken, EditorAssumption
      <4> QED
        BY <2>2, <4>1, <4>2 DEF Stands, Works
    <3>2. CASE ~VerificationRequired(saves[s].host, saves[s].conn, saves[s].secret)
      <4>1. saves[s].conn = rows[saves[s].host] /\ saves[s].conn # None
        BY <2>2, <3>2 DEF VerificationRequired, EditorAssumption
      <4> QED
        BY <2>2, <4>1 DEF SavedVerified, Exists, Works
    <3> QED
      BY <3>1, <3>2
  <2> QED
    BY <1>0, <2>2, <2>3, <2>4 DEF SaveStands, Stands, Works
<1>4. ASSUME Submit(s) PROVE SaveStands(s)'
  <2>1. saves'[s].token = editor.token /\ saves'[s].step = "sent"
    BY <1>0, <1>4 DEF Submit
  <2> QED
    BY <1>0, <2>1 DEF TokensStand, SaveStands, Stands
<1>5. ASSUME SaveFails(s) PROVE SaveStands(s)'
  <2>1. saves[s] # NoSave /\ saves[s] \in Save
    BY <1>5, UnderWay DEF SaveFails
  <2>2. saves'[s] = NoSave \/ saves'[s] = [saves[s] EXCEPT !.home = FALSE]
    BY <1>0, <1>5 DEF SaveFails
  <2>3. CASE saves'[s] = [saves[s] EXCEPT !.home = FALSE]
    <3>1. /\ saves'[s].token = saves[s].token /\ saves'[s].host = saves[s].host
          /\ saves'[s].conn = saves[s].conn /\ saves'[s].step = saves[s].step
      BY <2>1, <2>3 DEF Save
    <3> QED
      BY <1>0, <2>1, <3>1 DEF SaveStands, Stands, Works
  <2> QED
    BY <1>1, <2>2, <2>3
<1>6. ASSUME Refuse(s) PROVE SaveStands(s)'
  BY <1>2, <1>6 DEF Refuse
<1>7. ASSUME NEW h \in Hosts, CreateHost(s, h) PROVE SaveStands(s)'
  BY <1>2, <1>7 DEF CreateHost
<1>8. ASSUME WriteHost(s) PROVE SaveStands(s)'
  BY <1>2, <1>8 DEF WriteHost
<1>9. ASSUME Forget(s) \/ Saved(s) PROVE SaveStands(s)'
  <2>1. saves'[s] = NoSave
    BY <1>0, <1>9 DEF Forget, Saved
  <2> QED
    BY <1>1, <2>1
<1>10. ASSUME NEW r \in Slots, r # s,
              \/ Refuse(r) \/ ReadHost(r) \/ WriteHost(r) \/ Forget(r)
              \/ Submit(r) \/ Saved(r) \/ SaveFails(r)
              \/ \E h \in Hosts : CreateHost(r, h)
       PROVE  SaveStands(s)'
  <2>1. \E save : saves' = [saves EXCEPT ![r] = save]
    BY <1>10 DEF Refuse, ReadHost, WriteHost, Forget, Submit, Saved, SaveFails, CreateHost, Step
  <2>2. saves'[s] = saves[s]
    BY <1>0, <1>10, <2>1
  <2> QED
    BY <1>1, <2>2
<1>11. CASE UNCHANGED saves
  BY <1>1, <1>11
<1>12. ASSUME NEW r \in Slots,
              \/ Refuse(r) \/ ReadHost(r) \/ WriteHost(r) \/ Forget(r)
              \/ Submit(r) \/ Saved(r) \/ SaveFails(r)
              \/ \E h \in Hosts : CreateHost(r, h)
       PROVE  SaveStands(s)'
  BY <1>3, <1>4, <1>5, <1>6, <1>7, <1>8, <1>9, <1>10, <1>12
<1> QED
  BY <1>11, <1>12
  DEF Next, vars, Elsewhere, ListArrives, ListFails, Reload, Show, Edit, Test, Tested, TestFails,
      SaveSettled, Close, GoBack

(* A step keeps the invariant. *)
LEMMA IInvStep == EditorAssumption /\ IInv /\ [Next]_vars => IInv'
BY TypeStep, SavedVerifiedStep, FormStandsStep, SavesStandStep DEF IInv, TokensStand, Slots

LEMMA Invariant ==
    ASSUME EditorAssumption
    PROVE  Spec => []IInv
<1>1. Init => IInv
  BY InitIInv
<1>2. IInv /\ [Next]_vars => IInv'
  BY IInvStep
<1> QED
  BY <1>1, <1>2, PTL DEF Spec

(* The rows, the requests to save and the form are always of their types, for   *)
(* any connections and any number of saves.                                     *)
THEOREM TypeCorrect ==
    ASSUME EditorAssumption
    PROVE  Spec => []TypeOK
<1>1. IInv => TypeOK
  BY DEF IInv
<1> QED
  BY <1>1, Invariant, PTL

(* A host is never stored with a connection that nobody has tested for it, or   *)
(* for a new host, whatever is entered while a test or a save is under way and  *)
(* whatever another tab saves (createHost, updateHost and their comparison of   *)
(* the token).                                                                  *)
THEOREM StoredWasTested ==
    ASSUME EditorAssumption
    PROVE  Spec => []SavedVerified
<1>1. IInv => SavedVerified
  BY DEF IInv
<1> QED
  BY <1>1, Invariant, PTL
================================================================================
