---------------------------- MODULE BrowserProofs -----------------------------
(* Proofs about the pages of the browser (Browser), for any databases, hosts,  *)
(* versions and tasks, any answers of the server and any bounds on what is     *)
(* under way: the types of all of them, and the properties of each that the    *)
(* run checks.                                                                 *)
(*                                                                             *)
(* A page moves by itself, so each has an invariant of its own, which its own  *)
(* steps keep; those of the others leave it alone. The proofs about the retry  *)
(* and the form of a host are in the modules of these.                         *)
EXTENDS Browser, RetryRequestProofs

(* A step is one of the page that is mounted. The retry and the dialog that    *)
(* deletes keep their state when they are not mounted, the others have none.   *)
LEMMA PageStep ==
    ASSUME [BrowserNext]_BrowserVars
    PROVE  /\ mounted' = mounted
           /\ [Next]_vars
           /\ [CR!Next]_CR!cleanup
           /\ mounted = "host editor" => [HE!Next]_HE!vars
           /\ mounted = "connection" => [CN!Next]_CN!vars
           /\ mounted = "actions" => [IA!Next]_IA!vars
           /\ mounted = "host details" => [HD!Next]_HD!vars
           /\ mounted = "creation" => [IC!Next]_IC!creation
           /\ mounted = "handoff" => [QH!Next]_QH!quickHandoff
           /\ mounted = "row actions" => [RA!Next]_RA!rowActions
           /\ mounted = "tasks" => [TP!Next]_TP!tasksPage
           /\ mounted = "dashboard" => [DP!Next]_DP!dashboard
BY DEF BrowserNext, BrowserVars, vars, dialogVars, editorVars, connectionVars, actionVars, hostVars,
       creationVars, handoffVars, rowVars, tasksVars, boardVars, CR!cleanup, HE!vars, CN!vars,
       IA!vars, HD!vars, IC!creation, QH!quickHandoff, RA!rowActions, TP!tasksPage, DP!dashboard

--------------------------------------------------------------------------------
(* The dialog that copies a connection (QuickHandoff) *)

(* No copy is newer than the dialog's number, and one that has that number is   *)
(* a copy of the database the dialog is open for: opening, closing and copying  *)
(* all take a new number.                                                       *)
CopiesNumbered ==
    \A copy \in copies : copy.id <= current /\ (copy.id = current => copy.item = handoff.item)

HandoffInv == QH!TypeOK /\ QH!HandoffCurrent /\ CopiesNumbered

HandoffType == [item : Databases \cup {"none"}, loading : BOOLEAN, error : BOOLEAN,
                result : Databases \cup {"none"}]
CopyType == [id : 1 .. MaxCopies, item : Databases, step : {"reading", "copying"}]

LEMMA HandoffInit == QH!Init => HandoffInv
BY PartsAssumption DEF QH!Init, HandoffInv, QH!TypeOK, QH!HandoffCurrent, CopiesNumbered, QH!Closed, QH!None,
       QH!HandoffAssumption

(* A new number, under which no copy goes on yet. *)
LEMMA Renumbered ==
    ASSUME HandoffInv, current' = current + 1, current < MaxCopies
    PROVE  /\ current' \in 1 .. MaxCopies
           /\ \A copy \in copies : copy.id <= current' /\ copy.id # current'
BY PartsAssumption DEF HandoffInv, QH!TypeOK, CopiesNumbered, QH!HandoffAssumption

LEMMA HandoffStep ==
    ASSUME HandoffInv, QH!Next
    PROVE  HandoffInv'
<1> USE DEF QH!None, HandoffType, CopyType
<1>0. /\ handoff \in HandoffType /\ copies \subseteq CopyType /\ ready \subseteq Databases
      /\ current \in 0 .. MaxCopies /\ MaxCopies \in Nat
  BY PartsAssumption DEF HandoffInv, QH!TypeOK, QH!HandoffAssumption
<1>1. ASSUME NEW running \in SUBSET Databases, QH!Arrives(running) PROVE HandoffInv'
  BY <1>1 DEF QH!Arrives, HandoffInv, QH!TypeOK, QH!HandoffCurrent, CopiesNumbered
<1>2. ASSUME current' = current + 1, current < MaxCopies, copies' = copies, ready' = ready,
             handoff' \in HandoffType, handoff'.result = "none", ~handoff'.loading
      PROVE  HandoffInv'
  BY <1>0, <1>2, Renumbered DEF HandoffInv, QH!TypeOK, QH!HandoffCurrent, CopiesNumbered
<1>3. ASSUME NEW item \in Databases, QH!Open(item) PROVE HandoffInv'
  BY <1>2, <1>3 DEF QH!Open, QH!NewRequest, QH!Closed
<1>4. ASSUME QH!Close PROVE HandoffInv'
  BY <1>2, <1>4 DEF QH!Close, QH!NewRequest, QH!Closed
<1>5. ASSUME QH!Copy PROVE HandoffInv'
  <2> DEFINE fresh == [id |-> current + 1, item |-> handoff.item, step |-> "reading"]
  <2>1. current' = current + 1 /\ current < MaxCopies /\ ready' = ready /\ copies' = copies \cup {fresh}
    BY <1>5 DEF QH!Copy, QH!NewRequest
  <2>2. /\ handoff' \in HandoffType /\ handoff'.item = handoff.item /\ handoff'.result = "none"
        /\ handoff.item \in Databases
    BY <1>0, <1>5 DEF QH!Copy, QH!Closed
  <2>3. fresh \in CopyType /\ fresh.item = handoff'.item /\ fresh.id = current'
    BY <1>0, <2>1, <2>2
  <2> HIDE DEF fresh
  <2>4. QH!TypeOK'
    BY <1>0, <2>1, <2>2, <2>3, Renumbered DEF QH!TypeOK
  <2>5. QH!HandoffCurrent'
    BY <2>1, <2>2, <2>3 DEF QH!HandoffCurrent
  <2>6. CopiesNumbered'
    BY <1>0, <2>1, <2>2, <2>3, Renumbered DEF CopiesNumbered
  <2> QED
    BY <2>4, <2>5, <2>6 DEF HandoffInv
<1>6. ASSUME NEW copy \in copies, QH!ReadsArrive(copy) PROVE HandoffInv'
  <2> DEFINE moved == [copy EXCEPT !.step = "copying"]
  <2>1. /\ ready' = ready /\ handoff' = handoff /\ current' = current
        /\ copies' = (copies \ {copy}) \cup (IF copy.id = current THEN {moved} ELSE {})
    BY <1>6 DEF QH!ReadsArrive, QH!IsCurrent
  <2>2. moved \in CopyType /\ moved.id = copy.id /\ moved.item = copy.item
    BY <1>0
  <2> HIDE DEF moved
  <2>3. QH!TypeOK'
    BY <1>0, <2>1, <2>2 DEF QH!TypeOK
  <2>4. QH!HandoffCurrent'
    BY <2>1, <2>2 DEF HandoffInv, QH!HandoffCurrent
  <2>5. CopiesNumbered'
    BY <2>1, <2>2 DEF HandoffInv, CopiesNumbered
  <2> QED
    BY <2>3, <2>4, <2>5 DEF HandoffInv
<1>7. ASSUME NEW copy \in copies, QH!Copied(copy) \/ QH!CopyFails(copy) PROVE HandoffInv'
  <2>1. ready' = ready /\ current' = current /\ copies' = copies \ {copy}
    BY <1>7 DEF QH!Copied, QH!CopyFails
  <2>2. CASE copy.id # current
    <3>1. handoff' = handoff
      BY <1>7, <2>2 DEF QH!Copied, QH!CopyFails, QH!IsCurrent
    <3> QED
      BY <1>0, <2>1, <2>2, <3>1 DEF HandoffInv, QH!TypeOK, QH!HandoffCurrent, CopiesNumbered
  <2>3. CASE copy.id = current
    <3>1. copy.item = handoff.item /\ copy.item \in Databases
      BY <1>0, <2>3 DEF HandoffInv, CopiesNumbered
    <3>2. /\ handoff' \in HandoffType /\ ~handoff'.loading /\ handoff'.item = handoff.item
          /\ handoff'.result \in {handoff.result, copy.item}
      BY <1>0, <1>7, <2>3, <3>1 DEF QH!Copied, QH!CopyFails, QH!IsCurrent
    <3> QED
      BY <1>0, <2>1, <3>1, <3>2 DEF HandoffInv, QH!TypeOK, QH!HandoffCurrent, CopiesNumbered
  <2> QED
    BY <2>2, <2>3
<1> QED
  BY <1>1, <1>3, <1>4, <1>5, <1>6, <1>7 DEF QH!Next

HandoffPage == mounted = "handoff" => HandoffInv

LEMMA HandoffInvariant == BrowserSpec => []HandoffPage
<1>1. BrowserInit => HandoffPage
  BY HandoffInit DEF BrowserInit, HandoffPage
<1>2. HandoffPage /\ [BrowserNext]_BrowserVars => HandoffPage'
  <2> SUFFICES ASSUME HandoffPage, [BrowserNext]_BrowserVars, mounted' = "handoff"
               PROVE  HandoffInv'
    BY DEF HandoffPage
  <2>1. HandoffInv /\ [QH!Next]_QH!quickHandoff
    BY PageStep DEF HandoffPage
  <2>2. CASE UNCHANGED QH!quickHandoff
    BY <2>1, <2>2
    DEF QH!quickHandoff, HandoffInv, QH!TypeOK, QH!HandoffCurrent, CopiesNumbered
  <2> QED
    BY <2>1, <2>2, HandoffStep
<1> QED
  BY <1>1, <1>2, PTL DEF BrowserSpec

--------------------------------------------------------------------------------
(* The dialog that deletes a database (CleanupReview) *)

DialogType ==
    [open : BOOLEAN, review : CR!Answers \cup {"none"}, loading : BOOLEAN, error : BOOLEAN,
     confirmed : BOOLEAN, submitting : BOOLEAN, failure : BOOLEAN,
     needsRefresh : BOOLEAN, listed : BOOLEAN, listError : BOOLEAN,
     backup : {"none", "picked", "typed"}, purging : BOOLEAN,
     purgeFailure : BOOLEAN, purgeNeedsRefresh : BOOLEAN, queued : BOOLEAN]
ReviewsType == [1 .. MaxLoads -> {CR!NoLoad} \cup CR!Load]

(* Without evidence since a deletion failed, the dialog knows that it needs     *)
(* some, or has been opened again and has read none at all.                     *)
Awaited(d) == d.needsRefresh \/ d.review = "none"
CleanupInv == CR!TypeOK /\ (unreviewed => Awaited(dialog))

(* What a step leaves of the dialog's evidence. *)
SameEvidence(d, e) == e.needsRefresh = d.needsRefresh /\ e.review = d.review

LEMMA CleanupInit == CR!Init => CleanupInv
<1> SUFFICES ASSUME CR!Init PROVE CleanupInv
  OBVIOUS
<1>1. dialog \in DialogType /\ Awaited(dialog)
  BY DEF CR!Init, CR!Fresh, DialogType, Awaited
<1>2. reviews \in ReviewsType
  BY DEF CR!Init, ReviewsType
<1>3. /\ deletes \in [sent : 0 .. MaxDeletes, accepted : 0 .. MaxDeletes]
      /\ purges \in 0 .. MaxDeletes
  BY PartsAssumption DEF CR!Init, CR!CleanupAssumption
<1>4. unreviewed \in BOOLEAN
  BY DEF CR!Init
<1> QED
  BY <1>1, <1>2, <1>3, <1>4 DEF CleanupInv, CR!TypeOK, DialogType, ReviewsType

LEMMA LoadStarts ==
    ASSUME NEW d \in DialogType, NEW clear \in BOOLEAN,
           NEW then \in {"none", "delete", "backup", "retry"},
           reviews \in ReviewsType, CR!StartLoad(d, clear, then)
    PROVE  dialog' \in DialogType /\ reviews' \in ReviewsType /\ SameEvidence(d, dialog')
<1>1. dialog' = [d EXCEPT !.loading = TRUE, !.error = FALSE]
  BY DEF CR!StartLoad
<1>2. dialog' \in DialogType /\ SameEvidence(d, dialog')
  BY <1>1 DEF DialogType, SameEvidence
<1>3. PICK l \in 1 .. MaxLoads :
        reviews' = [reviews EXCEPT ![l] = [clear |-> clear, step |-> "review", then |-> then]]
  BY DEF CR!StartLoad, ReviewsType
<1>4. [clear |-> clear, step |-> "review", then |-> then] \in CR!Load
  BY DEF CR!Load
<1>5. reviews' \in ReviewsType
  BY <1>3, <1>4 DEF ReviewsType
<1> QED
  BY <1>2, <1>5

(* Only a read that succeeded clears the dialog. *)
LEMMA LoadEnds ==
    ASSUME NEW d \in DialogType, NEW good \in BOOLEAN, NEW l \in 1 .. MaxLoads,
           reviews \in ReviewsType, reviews[l] \in CR!Load, CR!EndLoad(l, d, good)
    PROVE  /\ dialog' \in DialogType /\ reviews' \in ReviewsType
           /\ ~good => SameEvidence(d, dialog')
<1> DEFINE done == IF reviews[l].clear /\ good THEN CR!Cleared(d) ELSE d
           quiet == [done EXCEPT !.loading = FALSE]
<1>1. done \in DialogType /\ (~good => SameEvidence(d, done))
  <2>1. CASE reviews[l].clear /\ good
    BY <2>1, ZenonT(60) DEF CR!Cleared, DialogType
  <2>2. CASE ~(reviews[l].clear /\ good)
    BY <2>2 DEF SameEvidence
  <2> QED
    BY <2>1, <2>2
<1>2. dialog' = CR!Ended(quiet, reviews[l].then, good) /\ reviews' = [reviews EXCEPT ![l] = CR!NoLoad]
  BY DEF CR!EndLoad
<1> HIDE DEF done
<1>3. quiet \in DialogType /\ SameEvidence(done, quiet)
  BY <1>1 DEF DialogType, SameEvidence
<1> HIDE DEF quiet
<1>4. dialog' \in DialogType /\ SameEvidence(quiet, dialog')
  <2>1. PICK deleting \in BOOLEAN, purging \in BOOLEAN, blocked \in BOOLEAN :
          dialog' = [quiet EXCEPT !.submitting = deleting, !.purging = purging,
                                  !.purgeNeedsRefresh = blocked]
    BY <1>2, Zenon DEF CR!Ended
  <2> QED
    <3>1. quiet \in DialogType
      BY <1>3
    <3>2. dialog' \in DialogType
      <4> DEFINE c == [quiet EXCEPT !.submitting = deleting]
                 e == [c EXCEPT !.purging = purging]
      <4>1. c \in DialogType
        BY <3>1 DEF DialogType
      <4>2. dialog' = [e EXCEPT !.purgeNeedsRefresh = blocked]
        BY <2>1
      <4> HIDE DEF c
      <4>3. e \in DialogType
        BY <4>1 DEF DialogType
      <4> HIDE DEF e
      <4> QED
        BY <4>2, <4>3 DEF DialogType
    <3>3. dialog'.review = quiet.review
      BY <2>1, <3>1 DEF DialogType
    <3>4. dialog'.needsRefresh = quiet.needsRefresh
      BY <2>1, <3>1 DEF DialogType
    <3> QED
      BY <3>2, <3>3, <3>4 DEF SameEvidence
<1>5. ~good => SameEvidence(d, dialog')
  BY <1>1, <1>3, <1>4, Zenon DEF SameEvidence
<1>6. reviews' \in ReviewsType
  BY <1>2 DEF ReviewsType
<1> QED
  BY <1>4, <1>5, <1>6

(* Steps of the dialog that read nothing. *)
Quiet ==
    \/ CR!Close \/ CR!TypeName \/ CR!SubmitDelete \/ CR!DeleteQueued \/ CR!DeleteFollowed
    \/ CR!PickBackup \/ CR!TypeBackup \/ CR!DropBackup \/ CR!SubmitPurge

LEMMA QuietStep ==
    ASSUME dialog \in DialogType, Quiet
    PROVE  /\ dialog' \in DialogType /\ SameEvidence(dialog, dialog')
           /\ reviews' = reviews /\ unreviewed' = unreviewed
<1>1. reviews' = reviews /\ unreviewed' = unreviewed
  BY DEF Quiet, CR!Close, CR!TypeName, CR!SubmitDelete, CR!DeleteQueued, CR!DeleteFollowed,
         CR!PickBackup, CR!TypeBackup, CR!DropBackup, CR!SubmitPurge
<1>2. ASSUME CR!Close \/ CR!DeleteQueued
      PROVE  dialog' \in DialogType /\ SameEvidence(dialog, dialog')
  BY <1>2 DEF CR!Close, CR!DeleteQueued, DialogType, SameEvidence
<1>3. ASSUME CR!TypeName PROVE dialog' \in DialogType /\ SameEvidence(dialog, dialog')
  BY <1>3 DEF CR!TypeName, DialogType, SameEvidence
<1>4. ASSUME CR!SubmitDelete \/ CR!DeleteFollowed
      PROVE  dialog' \in DialogType /\ SameEvidence(dialog, dialog')
  BY <1>4, ZenonT(60) DEF CR!SubmitDelete, CR!DeleteFollowed, DialogType, SameEvidence
<1>5. ASSUME CR!PickBackup \/ CR!TypeBackup \/ CR!DropBackup
      PROVE  dialog' \in DialogType /\ SameEvidence(dialog, dialog')
  <2>1. ASSUME CR!TypeBackup PROVE dialog' \in DialogType /\ SameEvidence(dialog, dialog')
    BY <2>1 DEF CR!TypeBackup, DialogType, SameEvidence
  <2>2. ASSUME CR!PickBackup PROVE dialog' \in DialogType /\ SameEvidence(dialog, dialog')
    BY <2>2 DEF CR!PickBackup, DialogType, SameEvidence
  <2>3. ASSUME CR!DropBackup PROVE dialog' \in DialogType /\ SameEvidence(dialog, dialog')
    BY <2>3 DEF CR!DropBackup, DialogType, SameEvidence
  <2> QED
    BY <1>5, <2>1, <2>2, <2>3
<1>6. ASSUME CR!SubmitPurge PROVE dialog' \in DialogType /\ SameEvidence(dialog, dialog')
  BY <1>6 DEF CR!SubmitPurge, DialogType, SameEvidence
<1> QED
  BY <1>1, <1>2, <1>3, <1>4, <1>5, <1>6 DEF Quiet

(* The requests in flight stay within their bounds. *)
LEMMA FlightStep ==
    ASSUME CR!TypeOK, CR!Next
    PROVE  /\ deletes' \in [sent : 0 .. MaxDeletes, accepted : 0 .. MaxDeletes]
           /\ purges' \in 0 .. MaxDeletes
           /\ unreviewed' \in BOOLEAN
           /\ deletes'.sent > deletes.sent => CR!SubmitDelete
<1>0. /\ deletes \in [sent : 0 .. MaxDeletes, accepted : 0 .. MaxDeletes]
      /\ purges \in 0 .. MaxDeletes /\ MaxDeletes \in Nat /\ unreviewed \in BOOLEAN
  BY PartsAssumption DEF CR!TypeOK, CR!CleanupAssumption
<1>1. ASSUME CR!SubmitDelete \/ CR!DeleteQueued \/ CR!DeleteFollowed
      PROVE  /\ deletes' \in [sent : 0 .. MaxDeletes, accepted : 0 .. MaxDeletes]
             /\ purges' = purges /\ unreviewed' = unreviewed
             /\ deletes'.sent > deletes.sent => CR!SubmitDelete
  BY <1>0, <1>1 DEF CR!SubmitDelete, CR!DeleteQueued, CR!DeleteFollowed
<1>2. ASSUME CR!DeleteFails
      PROVE  /\ deletes' \in [sent : 0 .. MaxDeletes, accepted : 0 .. MaxDeletes]
             /\ purges' = purges /\ unreviewed' = TRUE
             /\ ~(deletes'.sent > deletes.sent)
  BY <1>0, <1>2 DEF CR!DeleteFails
<1>3. ASSUME CR!SubmitPurge \/ CR!PurgeQueued \/ CR!PurgeFails
      PROVE  purges' \in 0 .. MaxDeletes /\ deletes' = deletes /\ unreviewed' = unreviewed
  <2>1. deletes' = deletes /\ unreviewed' = unreviewed
    BY <1>3 DEF CR!SubmitPurge, CR!PurgeQueued, CR!PurgeFails
  <2>2. (purges < MaxDeletes /\ purges' = purges + 1) \/ (purges > 0 /\ purges' = purges - 1)
    BY <1>3 DEF CR!SubmitPurge, CR!PurgeQueued, CR!PurgeFails
  <2> QED
    BY <1>0, <2>1, <2>2
<1>4. ASSUME NEW l \in 1 .. MaxLoads, CR!ReviewArrives(l) \/ CR!ReviewFails(l) \/ CR!BackupsArrive(l)
      PROVE  purges' = purges /\ deletes' = deletes /\ unreviewed' \in BOOLEAN
  BY <1>0, <1>4, Zenon DEF CR!ReviewArrives, CR!ReviewFails, CR!BackupsArrive
<1>5. ASSUME \/ CR!Open \/ CR!Close \/ CR!RefreshStatus \/ CR!RetryList \/ CR!TypeName
             \/ CR!PickBackup \/ CR!TypeBackup \/ CR!DropBackup
      PROVE  purges' = purges /\ deletes' = deletes /\ unreviewed' = unreviewed
  BY <1>5 DEF CR!Open, CR!Close, CR!RefreshStatus, CR!RetryList, CR!TypeName, CR!PickBackup,
              CR!TypeBackup, CR!DropBackup
<1>6. ASSUME deletes' = deletes PROVE ~(deletes'.sent > deletes.sent)
  BY <1>0, <1>6
<1> QED
  BY <1>0, <1>1, <1>2, <1>3, <1>4, <1>5, <1>6 DEF CR!Next

LEMMA CleanupStep ==
    ASSUME CleanupInv, CR!Next
    PROVE  CleanupInv'
<1>0. dialog \in DialogType /\ reviews \in ReviewsType
  BY DEF CleanupInv, CR!TypeOK, DialogType, ReviewsType
<1>1. ASSUME unreviewed' = unreviewed, SameEvidence(dialog, dialog')
      PROVE  unreviewed' => Awaited(dialog')
  BY <1>1 DEF CleanupInv, Awaited, SameEvidence
<1>2. ASSUME Quiet
      PROVE  /\ dialog' \in DialogType /\ reviews' \in ReviewsType
             /\ unreviewed' => Awaited(dialog')
  BY <1>0, <1>1, <1>2, QuietStep
<1>3. ASSUME CR!Open
      PROVE  /\ dialog' \in DialogType /\ reviews' \in ReviewsType
             /\ unreviewed' => Awaited(dialog')
  <2> DEFINE d == [CR!Fresh EXCEPT !.open = TRUE]
  <2>1. d \in DialogType /\ d.review = "none"
    BY DEF CR!Fresh, DialogType
  <2>2. CR!StartLoad(d, FALSE, "none")
    BY <1>3 DEF CR!Open
  <2> HIDE DEF d
  <2>3. dialog' \in DialogType /\ reviews' \in ReviewsType /\ SameEvidence(d, dialog')
    BY <1>0, <2>1, <2>2, LoadStarts
  <2> QED
    BY <2>1, <2>3 DEF Awaited, SameEvidence
<1>4. ASSUME NEW d \in DialogType, NEW clear \in BOOLEAN,
             NEW then \in {"none", "delete", "backup", "retry"}, CR!StartLoad(d, clear, then),
             SameEvidence(dialog, d), unreviewed' = unreviewed
      PROVE  /\ dialog' \in DialogType /\ reviews' \in ReviewsType
             /\ unreviewed' => Awaited(dialog')
  <2>1. dialog' \in DialogType /\ reviews' \in ReviewsType /\ SameEvidence(d, dialog')
    BY <1>0, <1>4, LoadStarts
  <2>2. SameEvidence(dialog, dialog')
    BY <1>4, <2>1, Zenon DEF SameEvidence
  <2> QED
    BY <1>1, <1>4, <2>1, <2>2
<1>5. ASSUME CR!RefreshStatus \/ CR!RetryList
      PROVE  /\ dialog' \in DialogType /\ reviews' \in ReviewsType
             /\ unreviewed' => Awaited(dialog')
  <2>1. SameEvidence(dialog, dialog)
    BY DEF SameEvidence
  <2> QED
    BY <1>0, <1>4, <1>5, <2>1 DEF CR!RefreshStatus, CR!RetryList
<1>6. ASSUME CR!PurgeQueued \/ CR!PurgeFails
      PROVE  /\ dialog' \in DialogType /\ reviews' \in ReviewsType
             /\ unreviewed' => Awaited(dialog')
  <2> DEFINE queued == [dialog EXCEPT !.queued = TRUE, !.backup = "none"]
             failed == [dialog EXCEPT !.purgeFailure = TRUE, !.purgeNeedsRefresh = TRUE, !.backup = "none"]
  <2>1. queued \in DialogType /\ SameEvidence(dialog, queued)
    BY <1>0 DEF DialogType, SameEvidence
  <2>2. failed \in DialogType /\ SameEvidence(dialog, failed)
    BY <1>0 DEF DialogType, SameEvidence
  <2>3. \/ CR!StartLoad(queued, FALSE, "backup") /\ unreviewed' = unreviewed
        \/ CR!StartLoad(failed, FALSE, "retry") /\ unreviewed' = unreviewed
    BY <1>6 DEF CR!PurgeQueued, CR!PurgeFails
  <2> HIDE DEF queued, failed
  <2> QED
    BY <1>4, <2>1, <2>2, <2>3
<1>7. ASSUME CR!DeleteFails
      PROVE  /\ dialog' \in DialogType /\ reviews' \in ReviewsType
             /\ unreviewed' => Awaited(dialog')
  <2> DEFINE d == [dialog EXCEPT !.failure = TRUE, !.confirmed = FALSE, !.needsRefresh = TRUE]
  <2>1. d \in DialogType /\ d.needsRefresh
    BY <1>0 DEF DialogType
  <2>2. CR!StartLoad(d, FALSE, "delete")
    BY <1>7 DEF CR!DeleteFails
  <2> HIDE DEF d
  <2>3. dialog' \in DialogType /\ reviews' \in ReviewsType /\ SameEvidence(d, dialog')
    BY <1>0, <2>1, <2>2, LoadStarts
  <2> QED
    BY <2>1, <2>3, Zenon DEF Awaited, SameEvidence
<1>8. ASSUME NEW l \in 1 .. MaxLoads, CR!ReviewArrives(l)
      PROVE  /\ dialog' \in DialogType /\ reviews' \in ReviewsType
             /\ unreviewed' => Awaited(dialog')
  <2>0. reviews[l] \in CR!Load /\ unreviewed' = FALSE
    BY <1>0, <1>8 DEF CR!ReviewArrives, CR!Reading, ReviewsType, CR!NoLoad
  <2>1. PICK answer \in CR!Answers :
          LET d == [dialog EXCEPT !.review = answer, !.listError = FALSE]
          IN IF answer = "backups"
               THEN dialog' = d /\ reviews' = [reviews EXCEPT ![l].step = "backups"]
               ELSE CR!EndLoad(l, [d EXCEPT !.listed = FALSE], TRUE)
    BY <1>8 DEF CR!ReviewArrives
  <2> DEFINE d == [dialog EXCEPT !.review = answer, !.listError = FALSE]
  <2>2. d \in DialogType
    BY <1>0 DEF DialogType
  <2>3. CASE answer = "backups"
    <3>1. dialog' = d /\ reviews' = [reviews EXCEPT ![l] = [reviews[l] EXCEPT !.step = "backups"]]
      BY <2>1, <2>3
    <3>2. [reviews[l] EXCEPT !.step = "backups"] \in CR!Load
      BY <2>0 DEF CR!Load
    <3>3. reviews' \in ReviewsType
      BY <1>0, <3>1, <3>2 DEF ReviewsType
    <3> QED
      BY <2>0, <2>2, <3>1, <3>3
  <2>4. CASE answer # "backups"
    <3> DEFINE e == [d EXCEPT !.listed = FALSE]
    <3>1. CR!EndLoad(l, e, TRUE)
      BY <2>1, <2>4
    <3> HIDE DEF d
    <3>2. e \in DialogType
      BY <2>2 DEF DialogType
    <3> HIDE DEF e
    <3> QED
      BY <1>0, <2>0, <3>1, <3>2, LoadEnds
  <2> QED
    BY <2>3, <2>4
<1>9. ASSUME NEW l \in 1 .. MaxLoads, CR!ReviewFails(l)
      PROVE  /\ dialog' \in DialogType /\ reviews' \in ReviewsType
             /\ unreviewed' => Awaited(dialog')
  <2>0. reviews[l] \in CR!Load /\ unreviewed' = unreviewed
    BY <1>0, <1>9 DEF CR!ReviewFails, CR!Reading, ReviewsType, CR!NoLoad
  <2>1. PICK missing \in BOOLEAN :
          CR!EndLoad(l, [dialog EXCEPT !.open = @ /\ ~missing, !.error = @ \/ ~missing], FALSE)
    BY <1>9 DEF CR!ReviewFails
  <2> DEFINE d == [dialog EXCEPT !.open = @ /\ ~missing, !.error = @ \/ ~missing]
  <2>2. d \in DialogType /\ SameEvidence(dialog, d)
    <3>1. PICK open \in BOOLEAN, error \in BOOLEAN : d = [dialog EXCEPT !.open = open, !.error = error]
      BY Zenon
    <3> HIDE DEF d
    <3> QED
      BY <1>0, <3>1 DEF DialogType, SameEvidence
  <2>3. CR!EndLoad(l, d, FALSE)
    BY <2>1
  <2> HIDE DEF d
  <2>4. dialog' \in DialogType /\ reviews' \in ReviewsType /\ SameEvidence(d, dialog')
    BY <1>0, <2>0, <2>2, <2>3, LoadEnds
  <2>5. SameEvidence(dialog, dialog')
    BY <2>2, <2>4, Zenon DEF SameEvidence
  <2> QED
    BY <1>1, <2>0, <2>4, <2>5
<1>10. ASSUME NEW l \in 1 .. MaxLoads, CR!BackupsArrive(l)
       PROVE  /\ dialog' \in DialogType /\ reviews' \in ReviewsType
              /\ unreviewed' => Awaited(dialog')
  <2>0. reviews[l] \in CR!Load
    BY <1>0, <1>10 DEF CR!BackupsArrive, CR!Reading, ReviewsType, CR!NoLoad
  <2>1. PICK listed \in BOOLEAN :
          /\ CR!EndLoad(l, [dialog EXCEPT !.listed = listed, !.listError = ~listed], listed)
          /\ unreviewed' = (unreviewed /\ ~listed)
    BY <1>10 DEF CR!BackupsArrive
  <2> DEFINE d == [dialog EXCEPT !.listed = listed, !.listError = ~listed]
  <2>2. d \in DialogType /\ SameEvidence(dialog, d)
    BY <1>0 DEF DialogType, SameEvidence
  <2>3. CR!EndLoad(l, d, listed)
    BY <2>1
  <2> HIDE DEF d
  <2>4. dialog' \in DialogType /\ reviews' \in ReviewsType /\ (~listed => SameEvidence(d, dialog'))
    BY <1>0, <2>0, <2>2, <2>3, LoadEnds
  <2>5. CASE listed
    BY <2>1, <2>4, <2>5
  <2>6. CASE ~listed
    <3>1. SameEvidence(dialog, dialog')
      BY <2>2, <2>4, <2>6, Zenon DEF SameEvidence
    <3>2. unreviewed' => unreviewed
      BY <2>1
    <3> QED
      BY <2>4, <3>1, <3>2, Zenon DEF CleanupInv, Awaited, SameEvidence
  <2> QED
    BY <2>5, <2>6
<1>11. /\ dialog' \in DialogType /\ reviews' \in ReviewsType
       /\ unreviewed' => Awaited(dialog')
  BY <1>2, <1>3, <1>5, <1>6, <1>7, <1>8, <1>9, <1>10 DEF CR!Next, Quiet
<1> QED
  BY <1>11, FlightStep DEF CleanupInv, CR!TypeOK, DialogType, ReviewsType

LEMMA CleanupInvariant == BrowserSpec => []CleanupInv
<1>1. BrowserInit => CleanupInv
  BY CleanupInit DEF BrowserInit
<1>2. CleanupInv /\ [BrowserNext]_BrowserVars => CleanupInv'
  <2> SUFFICES ASSUME CleanupInv, [BrowserNext]_BrowserVars PROVE CleanupInv'
    OBVIOUS
  <2>1. CASE UNCHANGED CR!cleanup
    BY <2>1 DEF CR!cleanup, CleanupInv, CR!TypeOK, Awaited
  <2> QED
    BY <2>1, PageStep, CleanupStep
<1> QED
  BY <1>1, <1>2, PTL DEF BrowserSpec

(* A deletion is sent by a dialog that has read a review and needs none. *)
LEMMA SubmittedReviewed ==
    ASSUME CleanupInv, [BrowserNext]_BrowserVars
    PROVE  deletes'.sent > deletes.sent => ~unreviewed
<1>1. CASE UNCHANGED CR!cleanup
  <2>1. deletes' = deletes /\ deletes.sent \in Int
    BY <1>1, PartsAssumption DEF CR!cleanup, CleanupInv, CR!TypeOK, CR!CleanupAssumption
  <2> QED
    BY <2>1
<1>2. CASE CR!Next
  <2>1. CR!SubmitDelete => ~Awaited(dialog)
    BY DEF CR!SubmitDelete, CR!CanSubmit, Awaited
  <2> QED
    BY <1>2, <2>1, FlightStep DEF CleanupInv
<1> QED
  BY <1>1, <1>2, PageStep

--------------------------------------------------------------------------------
(* The form of a host (HostEditor), whose invariant HostEditorProofs proves *)

HEP == INSTANCE HostEditorProofs WITH rows <- hostRows

(* The form of the page is the form those proofs are about. *)
LEMMA SameEditor ==
    /\ HE!EditorAssumption => HEP!EditorAssumption
    /\ HE!Init => HEP!Init
    /\ [HE!Next]_HE!vars => [HEP!Next]_HEP!vars
    /\ HEP!TypeOK => HE!TypeOK
    /\ HEP!SavedVerified => HE!SavedVerified
<1> USE DEF HE!None, HEP!None, HE!Hosts, HEP!Hosts, HE!Slots, HEP!Slots, HE!Exists,
        HEP!Exists, HE!NoToken, HEP!NoToken, HE!Token, HEP!Token, HE!NoSave,
        HEP!NoSave, HE!Save, HEP!Save, HE!Closed, HEP!Closed, HE!Unread, HEP!Unread,
        HE!Step, HEP!Step
<1>1. HE!EditorAssumption => HEP!EditorAssumption
  BY DEF HE!EditorAssumption, HEP!EditorAssumption
<1>2. HE!Init => HEP!Init
  BY DEF HE!Init, HEP!Init
<1>3. HEP!TypeOK => HE!TypeOK
  BY DEF HE!TypeOK, HEP!TypeOK, HE!Reads, HEP!Reads
<1>4. HEP!SavedVerified => HE!SavedVerified
  BY DEF HE!SavedVerified, HEP!SavedVerified
<1>5. \A S : HE!Cardinality(S) = HEP!Cardinality(S)
  BY DEF HE!Cardinality, HEP!Cardinality, HE!IsFiniteSet, HEP!IsFiniteSet
<1>6. \A s : HE!Refuse(s) => HEP!Refuse(s)
  BY DEF HE!Refuse, HEP!Refuse
<1>7. \A s, h : HE!CreateHost(s, h) => HEP!CreateHost(s, h)
  BY DEF HE!CreateHost, HEP!CreateHost, HE!Verified, HEP!Verified
<1>8. \A s : HE!ReadHost(s) => HEP!ReadHost(s)
  BY DEF HE!ReadHost, HEP!ReadHost, HE!VerificationRequired, HEP!VerificationRequired,
         HE!Verified, HEP!Verified
<1>9. \A s : HE!WriteHost(s) => HEP!WriteHost(s)
  BY DEF HE!WriteHost, HEP!WriteHost
<1>10. \A h, conn : HE!Elsewhere(h, conn) => HEP!Elsewhere(h, conn)
  BY <1>5 DEF HE!Elsewhere, HEP!Elsewhere
<1>11. \A s : HE!Forget(s) => HEP!Forget(s)
  BY DEF HE!Forget, HEP!Forget
<1>12. HE!ListArrives => HEP!ListArrives
  BY DEF HE!ListArrives, HEP!ListArrives, HE!Online, HEP!Online
<1>13. HE!ListFails => HEP!ListFails
  BY DEF HE!ListFails, HEP!ListFails
<1>14. HE!Reload => HEP!Reload
  BY DEF HE!Reload, HEP!Reload, HE!Continuation, HEP!Continuation
<1>15. \A h : HE!Show(h) => HEP!Show(h)
  BY DEF HE!Show, HEP!Show
<1>16. \A conn, secret : HE!Edit(conn, secret) => HEP!Edit(conn, secret)
  BY DEF HE!Edit, HEP!Edit
<1>17. HE!Test => HEP!Test
  BY DEF HE!Test, HEP!Test, HE!Required, HEP!Required, HE!ConnectionReady,
         HEP!ConnectionReady
<1>18. HE!Tested => HEP!Tested
  BY <1>5 DEF HE!Tested, HEP!Tested
<1>19. HE!TestFails => HEP!TestFails
  BY DEF HE!TestFails, HEP!TestFails
<1>20. \A s : HE!Submit(s) => HEP!Submit(s)
  BY DEF HE!Submit, HEP!Submit, HE!SaveBlocked, HEP!SaveBlocked, HE!Continuation,
         HEP!Continuation, HE!ProbeIncompatible, HEP!ProbeIncompatible,
         HE!VerificationReady, HEP!VerificationReady, HE!Required, HEP!Required,
         HE!ConnectionReady, HEP!ConnectionReady
<1>21. \A s : HE!Saved(s) => HEP!Saved(s)
  BY DEF HE!Saved, HEP!Saved
<1>22. HE!SaveSettled => HEP!SaveSettled
  BY DEF HE!SaveSettled, HEP!SaveSettled
<1>23. \A s : HE!SaveFails(s) => HEP!SaveFails(s)
  BY DEF HE!SaveFails, HEP!SaveFails
<1>24. HE!Close => HEP!Close
  BY DEF HE!Close, HEP!Close
<1>25. HE!GoBack => HEP!GoBack
  BY DEF HE!GoBack, HEP!GoBack, HE!Continuation, HEP!Continuation
<1>26. HE!Next => HEP!Next
  BY <1>6, <1>7, <1>8, <1>9, <1>10, <1>11, <1>12, <1>13, <1>14, <1>15, <1>16, <1>17,
     <1>18, <1>19, <1>20, <1>21, <1>22, <1>23, <1>24, <1>25 DEF HE!Next, HEP!Next
<1> QED
  BY <1>1, <1>2, <1>3, <1>4, <1>26 DEF HE!vars, HEP!vars

EditorPage == mounted = "host editor" => HEP!IInv

LEMMA EditorInvariant == BrowserSpec => []EditorPage
<1>1. BrowserInit => EditorPage
  <2>1. HEP!EditorAssumption /\ HEP!Init => HEP!IInv
    BY HEP!InitIInv
  <2> QED
    BY <2>1, PartsAssumption, SameEditor DEF BrowserInit, EditorPage
<1>2. EditorPage /\ [BrowserNext]_BrowserVars => EditorPage'
  <2>1. HEP!EditorAssumption /\ HEP!IInv /\ [HEP!Next]_HEP!vars => HEP!IInv'
    BY HEP!IInvStep
  <2> QED
    BY <2>1, PartsAssumption, PageStep, SameEditor DEF EditorPage
<1> QED
  BY <1>1, <1>2, PTL DEF BrowserSpec

--------------------------------------------------------------------------------
(* The drawer in which a database is created (InstanceCreation) *)

DataType == [loading : BOOLEAN, error : BOOLEAN, ready : BOOLEAN,
             online : SUBSET Machines, free : [Machines -> IC!Amounts]]
DraftType == [version : Versions \cup {"none"}, named : BOOLEAN, size : IC!Amounts,
              host : Machines \cup {"none"}]
WizardType == [open : BOOLEAN, step : 0 .. 2, draft : DraftType]
FailureType == [code : IC!Codes \cup {"none"}, context : {"checking", "ready", "failed"},
                existing : BOOLEAN]
WorkType == [creating : {"no", "posting", "checking"},
             refreshes : SUBSET {"create", "manual"}, spinning : BOOLEAN]

CreationTyped ==
    /\ data \in DataType /\ address \in IC!Requests \cup {IC!Plain} /\ wizard \in WizardType
    /\ createFailure \in FailureType /\ createWork \in WorkType
CreationInv == CreationTyped /\ IC!NeverStuckChecking

LEMMA CreationTypes == CreationTyped <=> IC!TypeOK
BY DEF CreationTyped, IC!TypeOK, DataType, DraftType, WizardType, FailureType, WorkType, IC!None

(* A choice of the draft leaves a draft. *)
LEMMA DraftKept ==
    ASSUME NEW draft \in DraftType, NEW d
    PROVE  IC!Kept(draft, d) \in DraftType
BY DEF IC!Kept, DraftType, IC!None

LEMMA DraftSized ==
    ASSUME NEW old \in DraftType, NEW draft \in DraftType
    PROVE  IC!Sized(old, draft) \in DraftType
<1>1. CASE draft.version \in Versions
  <2>1. Preset[draft.version] \in IC!Amounts
    BY <1>1, PartsAssumption DEF IC!CreationAssumption, IC!Amounts
  <2> QED
    BY <2>1 DEF IC!Sized, DraftType
<1>2. CASE draft.version \notin Versions
  BY <1>2 DEF IC!Sized, DraftType, IC!None
<1> QED
  BY <1>1, <1>2

LEMMA DraftOpened ==
    ASSUME NEW draft \in DraftType, NEW d
    PROVE  IC!Opened(draft, d) \in WizardType
<1>1. IC!Empty \in DraftType
  BY DEF IC!Empty, DraftType, IC!None, IC!Amounts
<1>2. IC!Kept(IC!Sized(IC!Empty, draft), d) \in DraftType
  BY <1>1, DraftKept, DraftSized
<1> QED
  BY <1>2 DEF IC!Opened, WizardType

(* No failure waits for a refresh where there is none, or none is being checked. *)
LEMMA NothingChecked ==
    ASSUME createFailure' = IC!NoFailure
    PROVE  createFailure' \in FailureType /\ IC!NeverStuckChecking'
BY DEF IC!NoFailure, FailureType, IC!NeverStuckChecking, IC!None

LEMMA MountedStep ==
    ASSUME NEW u \in IC!Requests \cup {IC!Plain}, IC!Mounted(u)
    PROVE  CreationInv'
<1>1. data' \in DataType
  BY DEF IC!Mounted, IC!Unread, DataType, IC!Amounts
<1>2. wizard' \in WizardType
  BY DEF IC!Mounted, IC!Closed, IC!Empty, WizardType, DraftType, IC!None, IC!Amounts
<1>3. createWork' \in WorkType /\ address' = u /\ createFailure' = IC!NoFailure
  BY DEF IC!Mounted, IC!Rest, WorkType
<1> QED
  BY <1>1, <1>2, <1>3, NothingChecked DEF CreationInv, CreationTyped

LEMMA CreationInit == IC!Init => CreationInv
<1> SUFFICES ASSUME IC!Init PROVE CreationInv
  OBVIOUS
<1>1. data \in DataType
  BY DEF IC!Init, IC!Unread, DataType, IC!Amounts
<1>2. wizard \in WizardType
  BY DEF IC!Init, IC!Closed, IC!Empty, WizardType, DraftType, IC!None, IC!Amounts
<1>3. createWork \in WorkType /\ address \in IC!Requests \cup {IC!Plain}
  BY DEF IC!Init, IC!Rest, WorkType
<1>4. createFailure \in FailureType /\ IC!NeverStuckChecking
  BY DEF IC!Init, IC!NoFailure, FailureType, IC!NeverStuckChecking, IC!None
<1> QED
  BY <1>1, <1>2, <1>3, <1>4 DEF CreationInv, CreationTyped

(* The address of a creation, with another host. *)
LEMMA AddressType ==
    ASSUME CreationTyped, NEW h \in Machines \cup {address.host},
           NEW u, u = [address EXCEPT !.create = TRUE, !.host = h]
                  \/ (address.create /\ u = [address EXCEPT !.host = h])
    PROVE  u \in IC!Requests
<1>1. CASE address = IC!Plain
  BY <1>1 DEF IC!Plain, IC!Requests, IC!None
<1>2. CASE address \in IC!Requests
  BY <1>2 DEF IC!Requests, IC!None
<1> QED
  BY <1>1, <1>2 DEF CreationTyped

LEMMA AddressOf ==
    ASSUME CreationTyped
    PROVE  address.version \in Versions \cup {"none"} /\ address.host \in Machines \cup {"none"}
<1>1. CASE address = IC!Plain
  BY <1>1 DEF IC!Plain, IC!None
<1>2. CASE address \in IC!Requests
  BY <1>2 DEF IC!Requests, IC!None
<1> QED
  BY <1>1, <1>2 DEF CreationTyped

LEMMA ArrivesStep ==
    ASSUME CreationInv, IC!Arrives
    PROVE  CreationInv'
<1> CreationTyped
  BY DEF CreationInv
<1>1. PICK error \in BOOLEAN, good \in BOOLEAN, online \in SUBSET Machines,
           free \in [Machines -> IC!Amounts] :
        LET d == [loading |-> FALSE, error |-> error, ready |-> good, online |-> online, free |-> free]
        IN IF address.create /\ ~wizard.open /\ ~error /\ good THEN IC!Requested(d)
           ELSE /\ data' = d
                /\ wizard' = [wizard EXCEPT !.draft = IC!Kept(@, d)]
                /\ UNCHANGED <<address, createFailure, createWork>>
  BY DEF IC!Arrives
<1> DEFINE d == [loading |-> FALSE, error |-> error, ready |-> good, online |-> online, free |-> free]
<1>2. d \in DataType
  BY DEF DataType
<1>3. CASE address.create /\ ~wizard.open /\ ~error /\ good
  <2>1. IC!Requested(d)
    BY <1>1, <1>3
  <2> HIDE DEF d
  <2> DEFINE hosts == IC!Compatible(d, address.version)
             draft == [IC!Empty EXCEPT !.version = address.version,
                                       !.host = IF address.host \in hosts THEN address.host ELSE IC!None]
  <2>2. CASE hosts = {}
    <3>1. PICK h \in Machines \cup {address.host} : IC!Mounted([address EXCEPT !.host = h])
      BY <2>1, <2>2 DEF IC!Requested
    <3> QED
      BY <1>3, <3>1, AddressType, MountedStep
  <2>3. CASE hosts # {}
    <3>1. /\ data' = d /\ wizard' = IC!Opened(draft, d) /\ createFailure' = IC!NoFailure
          /\ address' = address /\ createWork' = createWork
      BY <2>1, <2>3 DEF IC!Requested
    <3> HIDE DEF hosts, draft
    <3>2. address.version \in Versions \cup {"none"}
      BY AddressOf
    <3>3. address.host \in Machines \cup {"none"}
      BY AddressOf
    <3>4. (IF address.host \in hosts THEN address.host ELSE IC!None) \in Machines \cup {"none"}
      BY <3>3 DEF IC!None
    <3>5. draft \in DraftType
      BY <3>2, <3>4 DEF draft, IC!Empty, DraftType, IC!Amounts, IC!None
    <3> QED
      BY <1>2, <3>1, <3>5, DraftOpened, NothingChecked DEF CreationInv, CreationTyped
  <2> QED
    BY <2>2, <2>3
<1>4. CASE ~(address.create /\ ~wizard.open /\ ~error /\ good)
  <2>1. /\ data' = d /\ wizard' = [wizard EXCEPT !.draft = IC!Kept(wizard.draft, d)]
        /\ address' = address /\ createFailure' = createFailure /\ createWork' = createWork
    BY <1>1, <1>4
  <2> HIDE DEF d
  <2>2. IC!Kept(wizard.draft, d) \in DraftType
    BY DraftKept DEF CreationTyped, WizardType
  <2>3. wizard' \in WizardType
    BY <2>1, <2>2 DEF CreationTyped, WizardType
  <2> QED
    BY <1>2, <2>1, <2>3 DEF CreationInv, CreationTyped, IC!NeverStuckChecking
<1> QED
  BY <1>3, <1>4

(* The draft and the steps of the drawer. *)
LEMMA FillStep ==
    ASSUME CreationInv, NEW draft \in DraftType, IC!Fill(draft)
    PROVE  CreationInv'
<1>1. /\ wizard' = [wizard EXCEPT !.draft = IC!Kept(IC!Sized(wizard.draft, draft), data)]
      /\ UNCHANGED <<data, address, createFailure, createWork>>
  BY DEF IC!Fill, IC!draft
<1>2. wizard \in WizardType /\ wizard.draft \in DraftType
  BY DEF CreationInv, CreationTyped, WizardType
<1>3. IC!Kept(IC!Sized(wizard.draft, draft), data) \in DraftType
  BY <1>2, DraftSized, DraftKept
<1>4. wizard' \in WizardType
  BY <1>1, <1>2, <1>3 DEF WizardType
<1> QED
  BY <1>1, <1>4 DEF CreationInv, CreationTyped, IC!NeverStuckChecking

LEMMA GoToStep ==
    ASSUME CreationInv, NEW step \in 0 .. 2, IC!GoTo(step)
    PROVE  CreationInv'
<1>1. wizard' \in WizardType
  BY DEF IC!GoTo, CreationInv, CreationTyped, WizardType
<1> QED
  BY <1>1, NothingChecked DEF IC!GoTo, CreationInv, CreationTyped

LEMMA DrawerStep ==
    ASSUME CreationInv,
           \/ \E v \in Versions : IC!Choose(v)
           \/ \E b \in BOOLEAN : IC!TypeName(b)
           \/ \E size \in IC!Amounts : IC!TypeSize(size)
           \/ \E h \in Machines \cup {IC!None} : IC!PickHost(h)
           \/ IC!NextStep \/ IC!Previous \/ IC!Review
    PROVE  CreationInv'
<1>0. wizard \in WizardType /\ wizard.draft \in DraftType /\ wizard.step \in 0 .. 2
  BY DEF CreationInv, CreationTyped, WizardType
<1>1. ASSUME NEW v \in Versions, IC!Choose(v) PROVE CreationInv'
  <2>1. [wizard.draft EXCEPT !.version = v] \in DraftType
    BY <1>0 DEF DraftType
  <2> QED
    BY <1>1, <2>1, FillStep DEF IC!Choose, IC!draft
<1>2. ASSUME NEW b \in BOOLEAN, IC!TypeName(b) PROVE CreationInv'
  <2>1. [wizard.draft EXCEPT !.named = b] \in DraftType
    BY <1>0 DEF DraftType
  <2> QED
    BY <1>2, <2>1, FillStep DEF IC!TypeName, IC!draft
<1>3. ASSUME NEW size \in IC!Amounts, IC!TypeSize(size) PROVE CreationInv'
  <2>1. [wizard.draft EXCEPT !.size = size] \in DraftType
    BY <1>0 DEF DraftType
  <2> QED
    BY <1>3, <2>1, FillStep DEF IC!TypeSize, IC!draft
<1>4. ASSUME NEW h \in Machines \cup {IC!None}, IC!PickHost(h) PROVE CreationInv'
  <2>1. [wizard.draft EXCEPT !.host = h] \in DraftType
    BY <1>0 DEF DraftType, IC!None
  <2> QED
    BY <1>4, <2>1, FillStep DEF IC!PickHost, IC!draft
<1>5. ASSUME IC!NextStep PROVE CreationInv'
  <2>1. IC!GoTo(wizard.step + 1) /\ wizard.step \in {0, 1}
    BY <1>5 DEF IC!NextStep
  <2> QED
    BY <2>1, GoToStep
<1>6. ASSUME IC!Previous PROVE CreationInv'
  <2>1. IC!GoTo(wizard.step - 1) /\ wizard.step - 1 \in 0 .. 2
    BY <1>0, <1>6 DEF IC!Previous
  <2> QED
    BY <2>1, GoToStep
<1>7. ASSUME IC!Review PROVE CreationInv'
  <2>1. IC!RecoveryStep \in 0 .. 2
    BY DEF IC!RecoveryStep
  <2> QED
    BY <1>7, <2>1, GoToStep DEF IC!Review
<1> QED
  BY <1>1, <1>2, <1>3, <1>4, <1>5, <1>6, <1>7

(* The creation: a failure is checked by the refresh that starts with it, a     *)
(* refresh that was asked for checks it again, and the end of either tells the  *)
(* failure there is by then, although the other may go on.                      *)
LEMMA RefreshedStep ==
    ASSUME CreationInv, NEW by \in {"create", "manual"}, IC!Refreshed(by)
    PROVE  CreationInv'
<1>0. /\ data \in DataType /\ wizard \in WizardType /\ wizard.draft \in DraftType
      /\ createFailure \in FailureType /\ createWork \in WorkType
      /\ address' = address
  BY DEF CreationInv, CreationTyped, WizardType, IC!Refreshed
<1>1. createWork' \in WorkType
  <2>1. /\ (IF by = "create" THEN "no" ELSE createWork.creating) \in {"no", "posting", "checking"}
        /\ createWork.refreshes \ {by} \in SUBSET {"create", "manual"}
    BY <1>0 DEF WorkType
  <2> QED
    BY <2>1 DEF IC!Refreshed, WorkType
<1>2. PICK instances \in BOOLEAN, supporting \in BOOLEAN, existing \in BOOLEAN,
           online \in SUBSET Machines, free \in [Machines -> IC!Amounts] :
        /\ data' = [data EXCEPT !.ready = supporting, !.online = online, !.free = free]
        /\ wizard' = [wizard EXCEPT !.draft = IC!Kept(wizard.draft, data')]
        /\ createFailure' = IC!Told(instances, supporting, existing)
  BY ZenonT(60) DEF IC!Refreshed
<1>3. data' \in DataType
  BY <1>0, <1>2 DEF DataType
<1>4. wizard' \in WizardType
  <2>1. IC!Kept(wizard.draft, data') \in DraftType
    BY <1>0, DraftKept
  <2> QED
    BY <1>0, <1>2, <2>1 DEF WizardType
<1>5. CASE createFailure' = IC!NoFailure
  BY <1>0, <1>1, <1>3, <1>4, <1>5, NothingChecked DEF CreationInv, CreationTyped
<1>6. CASE createFailure' # IC!NoFailure
  <2>1. PICK context \in {"ready", "failed"} :
          createFailure' = [createFailure EXCEPT !.context = context, !.existing = existing]
    BY <1>2, <1>6 DEF IC!Told
  <2>2. createFailure' \in FailureType /\ createFailure'.context # "checking"
    BY <1>0, <2>1 DEF FailureType
  <2> QED
    BY <1>0, <1>1, <1>3, <1>4, <2>2 DEF CreationInv, CreationTyped, IC!NeverStuckChecking
<1> QED
  BY <1>5, <1>6

LEMMA CreationRequestStep ==
    ASSUME CreationInv, IC!Create \/ IC!CreateFails \/ IC!Refresh
    PROVE  CreationInv'
<1>0. createFailure \in FailureType /\ createWork \in WorkType
  BY DEF CreationInv, CreationTyped
<1>1. ASSUME IC!Create PROVE CreationInv'
  <2>1. createWork' \in WorkType
    BY <1>0, <1>1 DEF IC!Create, WorkType
  <2> QED
    BY <1>1, <2>1, NothingChecked DEF IC!Create, CreationInv, CreationTyped
<1>2. ASSUME IC!CreateFails PROVE CreationInv'
  <2>1. createFailure' \in FailureType
    BY <1>2 DEF IC!CreateFails, FailureType
  <2>2. createWork' \in WorkType /\ "create" \in createWork'.refreshes
    BY <1>0, <1>2 DEF IC!CreateFails, WorkType
  <2> QED
    BY <1>2, <2>1, <2>2 DEF IC!CreateFails, CreationInv, CreationTyped, IC!NeverStuckChecking
<1>3. ASSUME IC!Refresh PROVE CreationInv'
  <2>1. createFailure' \in FailureType
    BY <1>0, <1>3 DEF IC!Refresh, FailureType
  <2>2. createWork' \in WorkType /\ "manual" \in createWork'.refreshes
    BY <1>0, <1>3 DEF IC!Refresh, WorkType
  <2> QED
    BY <1>3, <2>1, <2>2 DEF IC!Refresh, CreationInv, CreationTyped, IC!NeverStuckChecking
<1> QED
  BY <1>1, <1>2, <1>3

LEMMA AddHostStep ==
    ASSUME CreationInv, IC!AddHost
    PROVE  CreationInv'
<1>1. PICK h \in Machines \cup {address.host} :
        IC!Mounted([address EXCEPT !.create = TRUE, !.host = h])
  BY DEF IC!AddHost
<1> QED
  BY <1>1, AddressType, MountedStep DEF CreationInv

LEMMA CreationStep ==
    ASSUME CreationInv, IC!Next
    PROVE  CreationInv'
<1>1. ASSUME IC!Reload PROVE CreationInv'
  <2>1. data' \in DataType
    BY <1>1 DEF IC!Reload, CreationInv, CreationTyped, DataType
  <2> QED
    BY <1>1, <2>1 DEF IC!Reload, CreationInv, CreationTyped, IC!NeverStuckChecking
<1>2. ASSUME IC!OpenCreate PROVE CreationInv'
  <2>1. IC!Empty \in DraftType
    BY DEF IC!Empty, DraftType, IC!None, IC!Amounts
  <2>2. CASE data.online = {}
    BY <1>2, <2>2, AddHostStep DEF IC!OpenCreate
  <2>3. CASE data.online # {}
    BY <1>2, <2>1, <2>3, DraftOpened, NothingChecked DEF IC!OpenCreate, CreationInv, CreationTyped
  <2> QED
    BY <2>2, <2>3
<1>3. ASSUME IC!Close PROVE CreationInv'
  <2>1. wizard' \in WizardType
    BY <1>3 DEF IC!Close, IC!Closed, IC!Empty, WizardType, DraftType, IC!None, IC!Amounts
  <2> QED
    BY <1>3, <2>1, NothingChecked DEF IC!Close, CreationInv, CreationTyped
<1>4. ASSUME IC!Created \/ IC!OpenExisting PROVE CreationInv'
  BY <1>4, MountedStep DEF IC!Created, IC!OpenExisting
<1>5. ASSUME IC!AddCompatibleHost PROVE CreationInv'
  BY <1>5, AddHostStep DEF IC!AddCompatibleHost
<1> QED
  BY <1>1, <1>2, <1>3, <1>4, <1>5, ArrivesStep, DrawerStep, CreationRequestStep, RefreshedStep
  DEF IC!Next

CreationPage == mounted = "creation" => CreationInv

LEMMA CreationInvariant == BrowserSpec => []CreationPage
<1>1. BrowserInit => CreationPage
  BY CreationInit DEF BrowserInit, CreationPage
<1>2. CreationPage /\ [BrowserNext]_BrowserVars => CreationPage'
  <2> SUFFICES ASSUME CreationPage, [BrowserNext]_BrowserVars, mounted' = "creation"
               PROVE  CreationInv'
    BY DEF CreationPage
  <2>1. CreationInv /\ [IC!Next]_IC!creation
    BY PageStep DEF CreationPage
  <2>2. CASE UNCHANGED IC!creation
    BY <2>1, <2>2 DEF IC!creation, CreationInv, CreationTyped, IC!NeverStuckChecking
  <2> QED
    BY <2>1, <2>2, CreationStep
<1> QED
  BY <1>1, <1>2, PTL DEF BrowserSpec

--------------------------------------------------------------------------------
(* The tabs of the page of a database (InstanceConnection) *)

LEMMA ConnectionInit == CN!Init => CN!TypeOK
BY DEF CN!Init, CN!TypeOK, CN!Offer, CN!None, CN!NoTask

(* A read of the database may bring a new status without its tasks. *)
LEMMA KnownArrives ==
    ASSUME CN!TypeOK, CN!Arrives
    PROVE  CN!TypeOK'
<1>1. PICK status \in DatabaseStatuses, newest \in Newest, offer \in CN!Offer :
        \/ shownInstance' = [status |-> status, newest |-> newest,
                             inventory |-> "ready", offer |-> offer]
        \/ shownInstance' = [shownInstance EXCEPT !.status = status, !.inventory = "error"]
  BY DEF CN!Arrives
<1> DEFINE ReadType == [status : DatabaseStatuses \cup {"none"}, newest : Newest \cup {CN!NoTask},
                         inventory : {"loading", "ready", "error"}, offer : CN!Offer]
<1>2. shownInstance \in ReadType
  BY DEF CN!TypeOK, CN!None
<1>3. [status |-> status, newest |-> newest, inventory |-> "ready", offer |-> offer] \in ReadType
  OBVIOUS
<1>4. [shownInstance EXCEPT !.status = status, !.inventory = "error"] \in ReadType
  BY <1>2
<1>5. shownInstance' \in ReadType
  BY <1>1, <1>3, <1>4
<1> QED
  BY <1>5 DEF CN!Arrives, CN!TypeOK, CN!None

LEMMA CredentialsStep ==
    ASSUME CN!TypeOK,
           \/ CN!LoadConnection \/ CN!ShowConnectionHandoff \/ CN!ConnectionArrives
           \/ CN!HideConnection \/ \E to \in CN!Tabs : CN!ChangeTab(to)
    PROVE  CN!TypeOK'
<1> DEFINE CredentialsType == [shown : BOOLEAN, error : BOOLEAN, loading : BOOLEAN]
<1>0. credentials \in CredentialsType
  BY DEF CN!TypeOK
<1>1. CASE CN!LoadConnection
  <2>1. credentials' \in CredentialsType
    BY <1>0, <1>1 DEF CN!LoadConnection
  <2> QED
    BY <1>1, <2>1 DEF CN!LoadConnection, CN!TypeOK
<1>2. CASE CN!ShowConnectionHandoff
  <2>1. credentials' \in CredentialsType
    BY <1>0, <1>2 DEF CN!ShowConnectionHandoff
  <2> QED
    BY <1>2, <2>1 DEF CN!ShowConnectionHandoff, CN!TypeOK, CN!Tabs
<1>3. CASE CN!ConnectionArrives
  <2>1. CASE credentials' = [shown |-> TRUE, error |-> FALSE, loading |-> FALSE]
    BY <1>3, <2>1 DEF CN!ConnectionArrives, CN!TypeOK
  <2>2. CASE credentials' = [credentials EXCEPT !.error = TRUE, !.loading = FALSE]
    <3>1. credentials' \in CredentialsType
      BY <1>0, <2>2
    <3> QED
      BY <1>3, <3>1 DEF CN!ConnectionArrives, CN!TypeOK
  <2> QED
    BY <1>3, <2>1, <2>2 DEF CN!ConnectionArrives
<1>4. CASE CN!HideConnection
  <2>1. credentials' \in CredentialsType
    BY <1>0, <1>4 DEF CN!HideConnection
  <2> QED
    BY <1>4, <2>1 DEF CN!HideConnection, CN!TypeOK
<1>5. ASSUME NEW to \in CN!Tabs, CN!ChangeTab(to)
      PROVE  CN!TypeOK'
  <2>1. credentials' \in CredentialsType
    BY <1>0, <1>5 DEF CN!ChangeTab, CN!ShowTab
  <2> QED
    BY <1>5, <2>1 DEF CN!ChangeTab, CN!ShowTab, CN!TypeOK
<1> QED
  BY <1>1, <1>2, <1>3, <1>4, <1>5

LEMMA LogsStep ==
    ASSUME CN!TypeOK, CN!LoadLogs \/ CN!LogsArrive \/ CN!SetAutoRefresh
    PROVE  CN!TypeOK'
<1>1. logs' \in [shown : BOOLEAN, reading : BOOLEAN, auto : BOOLEAN]
  <2>0. logs \in [shown : BOOLEAN, reading : BOOLEAN, auto : BOOLEAN]
    BY DEF CN!TypeOK
  <2>1. CASE CN!LoadLogs
    BY <2>0, <2>1 DEF CN!LoadLogs
  <2>2. CASE CN!LogsArrive
    <3>1. PICK visible \in BOOLEAN : logs' = [logs EXCEPT !.shown = visible, !.reading = FALSE]
      BY <2>0, <2>2, Zenon DEF CN!LogsArrive
    <3> QED
      BY <2>0, <3>1
  <2>3. CASE CN!SetAutoRefresh
    <3>1. PICK auto \in BOOLEAN : logs' = [logs EXCEPT !.auto = auto]
      BY <2>0, <2>3, Zenon DEF CN!SetAutoRefresh
    <3> QED
      BY <2>0, <3>1
  <2> QED
    BY <2>1, <2>2, <2>3
<1> QED
  BY <1>1 DEF CN!LoadLogs, CN!LogsArrive, CN!SetAutoRefresh, CN!TypeOK

LEMMA ConnectionStep ==
    ASSUME CN!TypeOK, CN!Next
    PROVE  CN!TypeOK'
<1>1. CASE CN!FinishConfirmation
  BY <1>1 DEF CN!FinishConfirmation, CN!TypeOK
<1> QED
  BY <1>1, KnownArrives, CredentialsStep, LogsStep DEF CN!Next

ConnectionPage == mounted = "connection" => CN!TypeOK

LEMMA ConnectionInvariant == BrowserSpec => []ConnectionPage
<1>1. BrowserInit => ConnectionPage
  BY ConnectionInit DEF BrowserInit, ConnectionPage
<1>2. ConnectionPage /\ [BrowserNext]_BrowserVars => ConnectionPage'
  <2> SUFFICES ASSUME ConnectionPage, [BrowserNext]_BrowserVars, mounted' = "connection"
               PROVE  CN!TypeOK'
    BY DEF ConnectionPage
  <2>1. CN!TypeOK /\ [CN!Next]_CN!vars
    BY PageStep DEF ConnectionPage
  <2>2. CASE UNCHANGED CN!vars
    BY <2>1, <2>2 DEF CN!vars, CN!TypeOK
  <2> QED
    BY <2>1, <2>2, ConnectionStep
<1> QED
  BY <1>1, <1>2, PTL DEF BrowserSpec

--------------------------------------------------------------------------------
(* What the page of a database does to it (InstanceActions) *)

KnownType == [status : DatabaseStatuses \cup {"none"}, newest : Newest \cup {IA!NoTask}]
UiType == [actioning : IA!Operations \cup {""}, confirm : Lifecycle \cup {"none"},
           failure : [action : Lifecycle \cup {"none"}, code : IA!Codes],
           panel : {"none", "stale", "ready"}, submitted : Lifecycle \cup {"none"},
           refreshing : BOOLEAN, deleteOpen : BOOLEAN]
OpType == [IA!Operations -> {"none", "sent", "accepted", "refused"}]

ActionsInv == IA!TypeOK /\ IA!ActioningReleased

LEMMA ActionsTyped == IA!TypeOK <=> known \in KnownType /\ ops \in OpType /\ ui \in UiType
BY DEF IA!TypeOK, KnownType, OpType, UiType, IA!None

LEMMA ActionsInit == IA!Init => ActionsInv
<1> SUFFICES ASSUME IA!Init PROVE ActionsInv
  OBVIOUS
<1>1. known \in KnownType /\ ops \in OpType
  BY DEF IA!Init, KnownType, OpType, IA!None, IA!NoTask
<1>2. ui \in UiType /\ ui.actioning = ""
  BY DEF IA!Init, UiType, IA!None, IA!NoFailure, IA!Codes
<1> QED
  BY <1>1, <1>2, ActionsTyped DEF ActionsInv, IA!ActioningReleased

(* What leaves the operations in flight and what the page says is under way    *)
(* alone.                                                                      *)
LEMMA PageChanged ==
    ASSUME ActionsInv, ops' = ops, known' \in KnownType, ui' \in UiType,
           ui'.actioning = ui.actioning
    PROVE  ActionsInv'
<1>1. IA!TypeOK'
  BY ActionsTyped DEF ActionsInv, IA!TypeOK, KnownType, OpType, UiType, IA!None
<1> QED
  BY <1>1 DEF ActionsInv, IA!ActioningReleased

LEMMA OperationSent ==
    ASSUME ActionsInv, NEW o \in IA!Operations, NEW u \in UiType, IA!Send(o, u)
    PROVE  ActionsInv'
<1>1. known' \in KnownType /\ ops' \in OpType
  BY ActionsTyped DEF ActionsInv, IA!Send, OpType
<1>2. ui' \in UiType /\ ui'.actioning = o
  BY DEF IA!Send, UiType
<1>3. ops'[o] # "none"
  BY ActionsTyped DEF ActionsInv, IA!Send, OpType
<1>4. IA!TypeOK'
  BY <1>1, <1>2 DEF IA!TypeOK, KnownType, OpType, UiType, IA!None
<1> QED
  BY <1>2, <1>3, <1>4 DEF ActionsInv, IA!ActioningReleased, IA!None

(* An answer: the operation is still in flight. *)
LEMMA OperationAnswered ==
    ASSUME ActionsInv, NEW o \in IA!Operations, NEW answer \in {"accepted", "refused"},
           ops' = [ops EXCEPT ![o] = answer],
           known' \in KnownType, ui' \in UiType, ui'.actioning = ui.actioning
    PROVE  ActionsInv'
<1>0. ops \in OpType /\ ui \in UiType
  BY ActionsTyped DEF ActionsInv
<1>1. ops' \in OpType
  BY <1>0 DEF OpType
<1>2. ui.actioning # "" => ui.actioning \in IA!Operations /\ ops[ui.actioning] # "none"
  BY <1>0 DEF ActionsInv, IA!ActioningReleased, IA!None, UiType
<1>3. ui'.actioning # "" => ops'[ui'.actioning] # "none"
  BY <1>0, <1>2 DEF OpType
<1>4. IA!TypeOK'
  BY <1>1 DEF IA!TypeOK, KnownType, OpType, UiType, IA!None
<1> QED
  BY <1>3, <1>4 DEF ActionsInv, IA!ActioningReleased, IA!None

LEMMA OperationSettled ==
    ASSUME ActionsInv, NEW o \in IA!Operations, IA!Settle(o)
    PROVE  ActionsInv'
<1>0. known \in KnownType /\ ops \in OpType /\ ui \in UiType
  BY ActionsTyped DEF ActionsInv
<1>1. ops' \in OpType /\ known' \in KnownType
  BY <1>0 DEF IA!Settle, OpType, IA!None
<1>2. PICK sent \in Lifecycle \cup {"none"}, asked \in Lifecycle \cup {"none"} :
        ui' = [ui EXCEPT !.actioning = "", !.submitted = sent, !.confirm = asked]
  BY <1>0 DEF IA!Settle, IA!None, UiType
<1>3. ui' \in UiType /\ ui'.actioning = ""
  BY <1>0, <1>2 DEF UiType
<1>4. IA!TypeOK'
  BY <1>1, <1>3 DEF IA!TypeOK, KnownType, OpType, UiType, IA!None
<1> QED
  BY <1>3, <1>4 DEF ActionsInv, IA!ActioningReleased

LEMMA LifecycleStep ==
    ASSUME ActionsInv,
           \/ \E action \in Lifecycle : IA!OpenConfirm(action)
           \/ IA!CloseConfirm \/ IA!SubmitLifecycle \/ IA!LifecycleAccepted \/ IA!LifecycleFails
           \/ IA!Dismiss
    PROVE  ActionsInv'
<1>0. known \in KnownType /\ ops \in OpType /\ ui \in UiType
  BY ActionsTyped DEF ActionsInv
<1>a. IA!NoFailure \in [action : Lifecycle \cup {"none"}, code : IA!Codes]
  BY DEF IA!NoFailure, IA!None, IA!Codes
<1>1. ASSUME NEW action \in Lifecycle, IA!OpenConfirm(action) PROVE ActionsInv'
  <2>1. PICK f \in [action : Lifecycle \cup {"none"}, code : IA!Codes] :
          ui' = [ui EXCEPT !.confirm = action, !.failure = f]
    BY <1>0, <1>a, <1>1 DEF IA!OpenConfirm, UiType
  <2>2. ui' \in UiType /\ ui'.actioning = ui.actioning
    BY <1>0, <2>1 DEF UiType
  <2> QED
    BY <1>0, <1>1, <2>2, PageChanged DEF IA!OpenConfirm
<1>2. CASE IA!CloseConfirm
  <2>1. ui' \in UiType /\ ui'.actioning = ui.actioning
    BY <1>0, <1>2 DEF IA!CloseConfirm, UiType, IA!None
  <2> QED
    BY <1>0, <1>2, <2>1, PageChanged DEF IA!CloseConfirm
<1>3. CASE IA!SubmitLifecycle
  <2>1. [ui EXCEPT !.failure = IA!NoFailure, !.submitted = ui.confirm] \in UiType
    BY <1>0, <1>a DEF UiType
  <2> QED
    BY <1>3, <2>1, OperationSent DEF IA!SubmitLifecycle, IA!Operations
<1>4. CASE IA!LifecycleAccepted
  <2>1. PICK newest \in Newest : IA!Accept("lifecycle", newest, ui)
    BY <1>4 DEF IA!LifecycleAccepted
  <2>2. known' \in KnownType
    BY <1>0, <2>1 DEF IA!Accept, KnownType
  <2> QED
    BY <1>0, <2>1, <2>2, OperationAnswered DEF IA!Accept, IA!Operations
<1>5. CASE IA!LifecycleFails
  <2>1. PICK code \in IA!Codes :
          IA!Refuse("lifecycle", [ui EXCEPT !.failure = [action |-> ui.submitted, code |-> code]])
    BY <1>5 DEF IA!LifecycleFails
  <2>2. [action |-> ui.submitted, code |-> code]
          \in [action : Lifecycle \cup {"none"}, code : IA!Codes]
    BY <1>0 DEF UiType
  <2>3. ui' \in UiType /\ ui'.actioning = ui.actioning
    BY <1>0, <2>1, <2>2 DEF IA!Refuse, UiType
  <2> QED
    BY <1>0, <2>1, <2>3, OperationAnswered DEF IA!Refuse, IA!Operations
<1>6. CASE IA!Dismiss
  <2>1. ui' \in UiType /\ ui'.actioning = ui.actioning
    BY <1>0, <1>a, <1>6 DEF IA!Dismiss, UiType
  <2> QED
    BY <1>0, <1>6, <2>1, PageChanged DEF IA!Dismiss
<1> QED
  BY <1>1, <1>2, <1>3, <1>4, <1>5, <1>6

(* A refresh, a cancellation and a retry are sent and answered alike. *)
LEMMA OtherOperationStep ==
    ASSUME ActionsInv,
           \/ IA!Refresh \/ IA!Refreshed \/ IA!Cancel \/ IA!Canceled \/ IA!CancelFails
           \/ IA!Retry \/ IA!Retried \/ IA!RetryFails
    PROVE  ActionsInv'
<1>0. known \in KnownType /\ ops \in OpType /\ ui \in UiType
  BY ActionsTyped DEF ActionsInv
<1>1. ASSUME NEW o \in IA!Operations, IA!Send(o, ui) \/ IA!Send(o, [ui EXCEPT !.panel = "none"])
      PROVE  ActionsInv'
  <2>1. [ui EXCEPT !.panel = "none"] \in UiType
    BY <1>0 DEF UiType
  <2> QED
    BY <1>0, <1>1, <2>1, OperationSent
<1>2. ASSUME NEW o \in IA!Operations, NEW newest \in Newest \cup {known.newest},
             IA!Accept(o, newest, ui)
      PROVE  ActionsInv'
  <2>1. known' \in KnownType
    BY <1>0, <1>2 DEF IA!Accept, KnownType
  <2> QED
    BY <1>0, <1>2, <2>1, OperationAnswered DEF IA!Accept
<1>3. CASE IA!Refresh \/ IA!Cancel \/ IA!Retry
  BY <1>1, <1>3 DEF IA!Refresh, IA!Cancel, IA!Retry, IA!Operations, IA!None
<1>4. CASE IA!Refreshed \/ IA!Canceled \/ IA!Retried
  BY <1>2, <1>4 DEF IA!Refreshed, IA!Canceled, IA!Retried, IA!Operations
<1>5. CASE IA!CancelFails
  BY <1>0, <1>5, OperationAnswered DEF IA!CancelFails, IA!Refuse, IA!Operations
<1>6. CASE IA!RetryFails
  <2>1. PICK panel \in {"stale", "ready"} : IA!Refuse("retry", [ui EXCEPT !.panel = panel])
    BY <1>6 DEF IA!RetryFails
  <2>2. ui' \in UiType /\ ui'.actioning = ui.actioning
    BY <1>0, <2>1 DEF IA!Refuse, UiType
  <2> QED
    BY <1>0, <2>1, <2>2, OperationAnswered DEF IA!Refuse, IA!Operations
<1> QED
  BY <1>3, <1>4, <1>5, <1>6

LEMMA PanelStep ==
    ASSUME ActionsInv,
           \/ IA!RefreshPanel \/ IA!RetryFound \/ IA!RetryNotFound \/ IA!ClosePanel
           \/ IA!OpenDelete \/ IA!CloseDelete
    PROVE  ActionsInv'
<1>0. known \in KnownType /\ ops \in OpType /\ ui \in UiType
  BY ActionsTyped DEF ActionsInv
<1>1. CASE IA!RefreshPanel
  <2>1. ui' \in UiType /\ ui'.actioning = ui.actioning
    BY <1>0, <1>1 DEF IA!RefreshPanel, UiType
  <2> QED
    BY <1>0, <1>1, <2>1, PageChanged DEF IA!RefreshPanel
<1>2. CASE IA!RetryFound
  <2>1. ui' \in UiType /\ ui'.actioning = ui.actioning
    BY <1>0, <1>2 DEF IA!RetryFound, UiType, IA!None
  <2>2. known' \in KnownType
    BY <1>0, <1>2 DEF IA!RetryFound, KnownType
  <2> QED
    BY <1>0, <1>2, <2>1, <2>2, PageChanged DEF IA!RetryFound
<1>3. CASE IA!RetryNotFound
  <2>1. PICK panel \in {"none", "stale", "ready"} :
          ui' = [ui EXCEPT !.panel = panel, !.refreshing = FALSE]
    BY <1>0, <1>3 DEF IA!RetryNotFound, UiType
  <2>2. ui' \in UiType /\ ui'.actioning = ui.actioning
    BY <1>0, <2>1 DEF UiType
  <2> QED
    BY <1>0, <1>3, <2>2, PageChanged DEF IA!RetryNotFound
<1>4. CASE IA!ClosePanel
  <2>1. ui' \in UiType /\ ui'.actioning = ui.actioning
    BY <1>0, <1>4 DEF IA!ClosePanel, UiType, IA!None
  <2> QED
    BY <1>0, <1>4, <2>1, PageChanged DEF IA!ClosePanel
<1>5. CASE IA!OpenDelete
  <2>1. ui' \in UiType /\ ui'.actioning = ui.actioning
    BY <1>0, <1>5 DEF IA!OpenDelete, UiType
  <2> QED
    BY <1>0, <1>5, <2>1, PageChanged DEF IA!OpenDelete
<1>6. CASE IA!CloseDelete
  <2>1. ui' \in UiType /\ ui'.actioning = ui.actioning
    BY <1>0, <1>6 DEF IA!CloseDelete, UiType
  <2> QED
    BY <1>0, <1>6, <2>1, PageChanged DEF IA!CloseDelete
<1> QED
  BY <1>1, <1>2, <1>3, <1>4, <1>5, <1>6

LEMMA ActionsStep ==
    ASSUME ActionsInv, IA!Next
    PROVE  ActionsInv'
<1>1. CASE IA!Arrives
  <2>0. known \in KnownType /\ ui \in UiType
    BY ActionsTyped DEF ActionsInv
  <2>1. known' \in KnownType
    BY <1>1, <2>0 DEF IA!Arrives, KnownType
  <2> QED
    BY <1>1, <2>0, <2>1, PageChanged DEF IA!Arrives
<1> QED
  BY <1>1, OperationSettled, LifecycleStep, OtherOperationStep, PanelStep DEF IA!Next

ActionsPage == mounted = "actions" => ActionsInv

LEMMA ActionsInvariant == BrowserSpec => []ActionsPage
<1>1. BrowserInit => ActionsPage
  BY ActionsInit DEF BrowserInit, ActionsPage
<1>2. ActionsPage /\ [BrowserNext]_BrowserVars => ActionsPage'
  <2> SUFFICES ASSUME ActionsPage, [BrowserNext]_BrowserVars, mounted' = "actions"
               PROVE  ActionsInv'
    BY DEF ActionsPage
  <2>1. ActionsInv /\ [IA!Next]_IA!vars
    BY PageStep DEF ActionsPage
  <2>2. CASE UNCHANGED IA!vars
    BY <2>1, <2>2 DEF IA!vars, ActionsInv, IA!TypeOK, IA!ActioningReleased
  <2> QED
    BY <2>1, <2>2, ActionsStep
<1> QED
  BY <1>1, <1>2, PTL DEF BrowserSpec

--------------------------------------------------------------------------------
(* The page of a host and its deletion (HostDetails) *)

DrawerType == [host : Machines \cup {"none"}, online : BOOLEAN,
               context : {"idle", "loading", "error", "free", "in use"},
               newest : Probes \cup {HD!NoTask}]
RecoveryType == [asked : BOOLEAN, task : Origin \cup {HD!NoTask}]
HostOpType == {HD!NoOp} \cup [kind : HD!Operations, at : {"settling"} \cup Machines]
HostOpsType == [HD!Slots -> HostOpType]
RefreshType == [on : BOOLEAN, host : Machines \cup {"none"}, preserve : BOOLEAN]
HostWorkType == [ops : HostOpsType, actioning : HD!Operations \cup {""}, submitting : BOOLEAN,
                 panel : {"none", "stale", "ready"}, refresh : RefreshType]
RemovalType == [host : Machines \cup {"none"}, typed : BOOLEAN, needsRefresh : BOOLEAN,
                deleting : BOOLEAN, refreshing : Machines \cup {"none"}]

(* What is shown of the host, ... *)
DrawerTyped ==
    drawer \in DrawerType /\ contexts \subseteq Machines /\ recovery \in RecoveryType

(* ... and what is done to it: the operation the page says is under way is. *)
HostReleased(under) == hostWork.actioning # "" => \E s \in HD!Slots : under[s].kind = hostWork.actioning
HostWorkInv == hostWork \in HostWorkType /\ HostReleased(hostWork.ops)

HostInv == DrawerTyped /\ HostWorkInv /\ removal \in RemovalType

LEMMA HostInvMeans == HostInv <=> HD!TypeOK /\ HD!ActioningReleased
BY DEF HostInv, DrawerTyped, HostWorkInv, HostReleased, HD!TypeOK, HD!ActioningReleased,
       DrawerType, RecoveryType, HostOpType, HostOpsType, RefreshType, HostWorkType, RemovalType,
       HD!Read, HD!None

LEMMA HostIsNotNone == "none" \notin Machines /\ "settling" \notin Machines
BY PartsAssumption DEF HD!HostsAssumption

LEMMA DrawerClosed == HD!Closed \in DrawerType /\ HD!NoRecovery \in RecoveryType
BY DEF HD!Closed, HD!NoRecovery, DrawerType, RecoveryType, HD!None

LEMMA HostInit == HD!Init => HostInv
<1> SUFFICES ASSUME HD!Init PROVE HostInv
  OBVIOUS
<1>1. DrawerTyped
  BY DrawerClosed DEF HD!Init, DrawerTyped, RecoveryType
<1>2. [s \in HD!Slots |-> HD!NoOp] \in HostOpsType /\ HD!NoRefresh \in RefreshType
  BY DEF HostOpType, HostOpsType, RefreshType, HD!None, HD!NoRefresh
<1>3. HostWorkInv
  BY <1>2 DEF HD!Init, HostWorkInv, HostReleased, HostWorkType, HD!None
<1>4. removal \in RemovalType
  BY DEF HD!Init, HD!NoRemoval, RemovalType, HD!None
<1> QED
  BY <1>1, <1>3, <1>4 DEF HostInv

LEMMA HostShownStep ==
    ASSUME HostInv,
           \/ HD!ListArrives \/ HD!CloseDetail \/ HD!RecoveryArrives
           \/ \E h \in Machines : HD!OpenDetail(h) \/ HD!ContextArrives(h) \/ HD!ContextFails(h)
    PROVE  HostInv'
<1>0. drawer \in DrawerType /\ contexts \subseteq Machines /\ recovery \in RecoveryType
  BY DEF HostInv, DrawerTyped
<1>1. ASSUME HD!ListArrives PROVE DrawerTyped'
  <2>1. PICK online \in BOOLEAN : drawer' = [drawer EXCEPT !.online = online]
    BY <1>0, <1>1, Zenon DEF HD!ListArrives
  <2>2. drawer' \in DrawerType
    BY <1>0, <2>1 DEF DrawerType
  <2> QED
    BY <1>0, <1>1, <2>2 DEF HD!ListArrives, DrawerTyped
<1>2. ASSUME HD!CloseDetail PROVE DrawerTyped'
  BY <1>0, <1>2, DrawerClosed DEF HD!CloseDetail, DrawerTyped
<1>3. ASSUME HD!RecoveryArrives PROVE DrawerTyped'
  <2>1. recovery' \in RecoveryType
    BY <1>0, <1>3 DEF HD!RecoveryArrives, RecoveryType
  <2> QED
    BY <1>0, <1>3, <2>1 DEF HD!RecoveryArrives, DrawerTyped
<1>4. ASSUME NEW h \in Machines, HD!OpenDetail(h) PROVE DrawerTyped'
  <2>1. PICK online \in BOOLEAN :
          drawer' = [drawer EXCEPT !.host = h, !.online = online, !.context = "loading"]
    BY <1>4 DEF HD!OpenDetail
  <2>2. drawer' \in DrawerType
    BY <1>0, <2>1 DEF DrawerType
  <2>3. recovery' \in RecoveryType
    BY <1>0, <1>4, DrawerClosed DEF HD!OpenDetail
  <2> QED
    BY <1>0, <1>4, <2>2, <2>3 DEF HD!OpenDetail, DrawerTyped
<1>5. ASSUME NEW h \in Machines, HD!ContextArrives(h) \/ HD!ContextFails(h) PROVE DrawerTyped'
  <2>1. drawer' \in DrawerType
    BY <1>0, <1>5 DEF HD!ContextArrives, HD!ContextFails, HD!Read, DrawerType
  <2> QED
    BY <1>0, <1>5, <2>1, ZenonT(60) DEF HD!ContextArrives, HD!ContextFails, DrawerTyped
<1>6. hostWork' = hostWork /\ removal' = removal
  BY DEF HD!ListArrives, HD!CloseDetail, HD!RecoveryArrives, HD!OpenDetail, HD!ContextArrives,
         HD!ContextFails
<1> QED
  BY <1>1, <1>2, <1>3, <1>4, <1>5, <1>6 DEF HostInv, HostWorkInv, HostReleased

(* An operation is sent for a host, ... *)
LEMMA HostOperationSent ==
    ASSUME HostInv, NEW o \in HD!Operations, NEW h \in Machines,
           NEW panel \in {"none", "stale", "ready"}, HD!Send(o, h, panel)
    PROVE  HostInv'
<1>0. hostWork \in HostWorkType /\ hostWork.ops \in HostOpsType
  BY DEF HostInv, HostWorkInv, HostWorkType
<1>1. PICK s \in HD!Slots :
        hostWork' = [hostWork EXCEPT !.ops[s] = [kind |-> o, at |-> h], !.actioning = o,
                                     !.submitting = @ \/ o # "probe", !.panel = panel]
  BY DEF HD!Send
<1> DEFINE under == [hostWork.ops EXCEPT ![s] = [kind |-> o, at |-> h]]
           busy == hostWork.submitting \/ o # "probe"
<1>2. under \in HostOpsType /\ under[s].kind = o
  BY <1>0 DEF HostOpType, HostOpsType
<1>3. busy \in BOOLEAN
  BY DEF HostWorkType
<1>4. hostWork' = [hostWork EXCEPT !.ops = under, !.actioning = o, !.submitting = busy,
                                   !.panel = panel]
  BY <1>1
<1> HIDE DEF under, busy
<1>5. hostWork' \in HostWorkType /\ hostWork'.actioning = o /\ hostWork'.ops = under
  BY <1>0, <1>2, <1>3, <1>4 DEF HostWorkType
<1> QED
  BY <1>0, <1>2, <1>5 DEF HostInv, HostWorkInv, HostReleased, DrawerTyped, HD!Send

(* ... is answered, and goes on, ... *)
LEMMA HostOperationAnswered ==
    ASSUME HostWorkInv, NEW s \in HD!Slots, HD!Sent(s), NEW panel \in {"none", "stale", "ready"},
           NEW busy \in BOOLEAN,
           hostWork' = [hostWork EXCEPT !.ops[s].at = "settling", !.submitting = busy,
                                        !.panel = panel]
    PROVE  HostWorkInv'
<1>0. hostWork \in HostWorkType /\ hostWork.ops \in HostOpsType
  BY DEF HostWorkInv, HostWorkType
<1> DEFINE op == [hostWork.ops[s] EXCEPT !.at = "settling"]
           under == [hostWork.ops EXCEPT ![s] = op]
<1>1. hostWork.ops[s] \in [kind : HD!Operations, at : {"settling"} \cup Machines]
  BY <1>0, HostIsNotNone DEF HostOpsType, HostOpType, HD!Sent, HD!NoOp, HD!None
<1>2. op \in HostOpType /\ op.kind = hostWork.ops[s].kind
  BY <1>1 DEF HostOpType
<1>3. hostWork' = [hostWork EXCEPT !.ops = under, !.submitting = busy, !.panel = panel]
  OBVIOUS
<1> HIDE DEF op
<1>4. under \in HostOpsType /\ \A r \in HD!Slots : under[r].kind = hostWork.ops[r].kind
  BY <1>0, <1>2 DEF HostOpsType
<1> HIDE DEF under
<1>5. hostWork' \in HostWorkType /\ hostWork'.actioning = hostWork.actioning /\ hostWork'.ops = under
  BY <1>0, <1>3, <1>4 DEF HostWorkType
<1> QED
  BY <1>4, <1>5 DEF HostWorkInv, HostReleased

(* ... and is over: whatever the page said was under way, it says no more. *)
LEMMA HostOperationSettled ==
    ASSUME HostInv, NEW s \in HD!Slots, HD!Settle(s)
    PROVE  HostInv'
<1>0. hostWork \in HostWorkType /\ hostWork.ops \in HostOpsType
  BY DEF HostInv, HostWorkInv, HostWorkType
<1> DEFINE under == [hostWork.ops EXCEPT ![s] = HD!NoOp]
<1>1. under \in HostOpsType
  BY <1>0 DEF HostOpsType, HostOpType
<1>2. hostWork' = [hostWork EXCEPT !.ops = under, !.actioning = ""]
  BY DEF HD!Settle
<1> HIDE DEF under
<1>3. hostWork' \in HostWorkType /\ hostWork'.actioning = ""
  BY <1>0, <1>1, <1>2 DEF HostWorkType
<1> QED
  BY <1>3 DEF HostInv, HostWorkInv, HostReleased, DrawerTyped, HD!Settle

(* An accepted retry shows its task, of the host it was sent from if it is of   *)
(* the task the user came from.                                                *)
LEMMA RetryShown ==
    ASSUME DrawerTyped, NEW h \in Machines \cup {"none"}, NEW preserve \in BOOLEAN,
           HD!Accepted(h, preserve), contexts' = contexts
    PROVE  DrawerTyped'
<1>0. drawer \in DrawerType /\ recovery \in RecoveryType
  BY DEF DrawerTyped
<1>1. drawer' \in DrawerType
  <2>1. PICK newest \in Probes \ {HD!NoTask} :
          \/ drawer' = [drawer EXCEPT !.newest = newest]
          \/ \E online \in BOOLEAN :
               drawer' = [host |-> h, online |-> online, context |-> "loading", newest |-> newest]
    BY DEF HD!Accepted
  <2>2. [drawer EXCEPT !.newest = newest] \in DrawerType
    BY <1>0 DEF DrawerType
  <2>3. \A online \in BOOLEAN :
          [host |-> h, online |-> online, context |-> "loading", newest |-> newest] \in DrawerType
    BY DEF DrawerType
  <2> QED
    BY <2>1, <2>2, <2>3
<1>2. [asked |-> TRUE, task |-> HD!NoTask] \in RecoveryType
  BY DEF RecoveryType
<1>3. recovery' \in RecoveryType
  BY <1>0, <1>2 DEF HD!Accepted
<1> QED
  BY <1>1, <1>3 DEF DrawerTyped

LEMMA HostOperationStep ==
    ASSUME HostInv,
           \/ \E h \in Machines : HD!Probe(h)
           \/ HD!Retry \/ HD!RetryRecovery \/ \E o \in HD!Operations : HD!RetryPanel(o)
           \/ \E s \in HD!Slots : HD!Probed(s) \/ HD!Retried(s) \/ HD!NotRetried(s)
    PROVE  HostInv'
<1>0. /\ drawer \in DrawerType /\ contexts \subseteq Machines /\ recovery \in RecoveryType
      /\ hostWork \in HostWorkType /\ hostWork.ops \in HostOpsType
  BY DEF HostInv, DrawerTyped, HostWorkInv, HostWorkType
<1>a. /\ hostWork.panel \in {"none", "stale", "ready"} /\ hostWork.submitting \in BOOLEAN
      /\ HD!Shown => drawer.host \in Machines
  BY <1>0 DEF HostWorkType, DrawerType, HD!Shown, HD!None
<1>1. ASSUME NEW h \in Machines, HD!Probe(h) PROVE HostInv'
  BY <1>1, <1>a, HostOperationSent DEF HD!Probe, HD!Operations
<1>2. CASE HD!Retry \/ HD!RetryRecovery
  BY <1>2, <1>a, HostOperationSent DEF HD!Retry, HD!RetryRecovery, HD!Operations, HD!None
<1>3. ASSUME NEW o \in HD!Operations, HD!RetryPanel(o) PROVE HostInv'
  BY <1>3, <1>a, HostOperationSent DEF HD!RetryPanel, HD!None
<1>4. ASSUME NEW s \in HD!Slots, HD!Probed(s) PROVE HostInv'
  <2>1. HD!Sent(s) /\ hostWork' = [hostWork EXCEPT !.ops[s].at = "settling"]
    BY <1>4 DEF HD!Probed
  <2>2. hostWork' = [hostWork EXCEPT !.ops[s].at = "settling", !.submitting = hostWork.submitting,
                                     !.panel = hostWork.panel]
    BY <1>0, <2>1 DEF HostWorkType
  <2>3. HostWorkInv'
    BY <1>a, <2>1, <2>2, HostOperationAnswered DEF HostInv
  <2>4. drawer' \in DrawerType
    BY <1>0, <1>4 DEF HD!Probed, DrawerType
  <2>5. contexts' \subseteq Machines
    BY <1>0, <1>4 DEF HD!Probed, HD!Sent
  <2> QED
    BY <1>0, <1>4, <2>3, <2>4, <2>5 DEF HD!Probed, HostInv, DrawerTyped
<1>5. ASSUME NEW s \in HD!Slots, HD!Retried(s) PROVE HostInv'
  <2>1. HD!Sent(s) /\ hostWork' = [hostWork EXCEPT !.ops[s].at = "settling", !.submitting = FALSE]
    BY <1>5 DEF HD!Retried
  <2>2. hostWork' = [hostWork EXCEPT !.ops[s].at = "settling", !.submitting = FALSE,
                                     !.panel = hostWork.panel]
    BY <1>0, <2>1 DEF HostWorkType
  <2>3. HostWorkInv'
    BY <1>a, <2>1, <2>2, HostOperationAnswered DEF HostInv
  <2>4. DrawerTyped'
    <3> DEFINE preserve == hostWork.ops[s].kind = "retry-recovery"
    <3>1. preserve \in BOOLEAN /\ HD!Accepted(hostWork.ops[s].at, preserve)
      BY <1>5 DEF HD!Retried
    <3> HIDE DEF preserve
    <3>2. hostWork.ops[s].at \in Machines
      BY <2>1 DEF HD!Sent
    <3> QED
      BY <1>5, <3>1, <3>2, RetryShown DEF HD!Retried, HostInv
  <2> QED
    BY <1>5, <2>3, <2>4 DEF HD!Retried, HostInv
<1>6. ASSUME NEW s \in HD!Slots, HD!NotRetried(s) PROVE HostInv'
  <2>1. PICK panel \in {"stale", "ready"} :
          hostWork' = [hostWork EXCEPT !.ops[s].at = "settling", !.submitting = FALSE,
                                       !.panel = panel]
    BY <1>6 DEF HD!NotRetried
  <2>2. HostWorkInv'
    BY <1>6, <2>1, HostOperationAnswered DEF HD!NotRetried, HostInv
  <2> QED
    BY <1>6, <2>2 DEF HD!NotRetried, HostInv, DrawerTyped
<1> QED
  BY <1>1, <1>2, <1>3, <1>4, <1>5, <1>6

LEMMA HostPanelStep ==
    ASSUME HostInv, HD!RefreshRetry \/ HD!RetryFound \/ HD!RetryNotFound \/ HD!ClosePanel
    PROVE  HostInv'
<1>0. hostWork \in HostWorkType /\ hostWork.refresh \in RefreshType
  BY DEF HostInv, HostWorkInv, HostWorkType
<1>1. HD!NoRefresh \in RefreshType
  BY DEF HD!NoRefresh, RefreshType, HD!None
<1>2. ASSUME NEW panel \in {"none", "stale", "ready"}, NEW refresh \in RefreshType,
             hostWork' = [hostWork EXCEPT !.panel = panel, !.refresh = refresh]
      PROVE  HostWorkInv'
  <2>1. /\ hostWork' \in HostWorkType /\ hostWork'.ops = hostWork.ops
        /\ hostWork'.actioning = hostWork.actioning
    BY <1>0, <1>2 DEF HostWorkType
  <2> QED
    BY <2>1 DEF HostInv, HostWorkInv, HostReleased
<1>3. CASE HD!RefreshRetry
  <2>1. PICK preserve \in BOOLEAN :
          hostWork' = [hostWork EXCEPT !.refresh = [on |-> TRUE, host |-> drawer.host,
                                                    preserve |-> preserve]]
    BY <1>3, Zenon DEF HD!RefreshRetry
  <2>2. [on |-> TRUE, host |-> drawer.host, preserve |-> preserve] \in RefreshType
    BY DEF HostInv, DrawerTyped, DrawerType, RefreshType
  <2>3. /\ hostWork' \in HostWorkType /\ hostWork'.ops = hostWork.ops
        /\ hostWork'.actioning = hostWork.actioning
    BY <1>0, <2>1, <2>2 DEF HostWorkType
  <2> QED
    BY <1>3, <2>3 DEF HD!RefreshRetry, HostInv, HostWorkInv, HostReleased, DrawerTyped
<1>4. CASE HD!RetryFound
  <2>1. HostWorkInv'
    BY <1>1, <1>2, <1>4 DEF HD!RetryFound, HD!None
  <2>2. hostWork.refresh.host \in Machines \cup {"none"} /\ hostWork.refresh.preserve \in BOOLEAN
    BY <1>0 DEF RefreshType
  <2>3. DrawerTyped'
    BY <1>4, <2>2, RetryShown DEF HD!RetryFound, HostInv
  <2> QED
    BY <1>4, <2>1, <2>3 DEF HD!RetryFound, HostInv
<1>5. CASE HD!RetryNotFound
  <2>1. HostWorkInv'
    BY <1>0, <1>1, <1>2, <1>5 DEF HD!RetryNotFound, HostWorkType
  <2> QED
    BY <1>5, <2>1 DEF HD!RetryNotFound, HostInv, DrawerTyped
<1>6. CASE HD!ClosePanel
  <2>1. /\ hostWork' \in HostWorkType /\ hostWork'.ops = hostWork.ops
        /\ hostWork'.actioning = hostWork.actioning
    BY <1>0, <1>6 DEF HD!ClosePanel, HostWorkType, HD!None
  <2> QED
    BY <1>6, <2>1 DEF HD!ClosePanel, HostInv, HostWorkInv, HostReleased, DrawerTyped
<1> QED
  BY <1>3, <1>4, <1>5, <1>6

(* The deletion closes the drawer with the host. *)
LEMMA RemovalStep ==
    ASSUME HostInv,
           \/ HD!ShowDelete \/ HD!TypeName \/ HD!CloseDelete \/ HD!Remove \/ HD!Removed
           \/ HD!RemovalSettled \/ HD!RemoveFails \/ HD!RefreshEvidence \/ HD!HostGone
           \/ HD!HostStill \/ HD!NoEvidence
    PROVE  HostInv'
<1>0. /\ drawer \in DrawerType /\ drawer.host \in Machines \cup {"none"}
      /\ removal \in RemovalType
      /\ removal.host \in Machines \cup {"none"} /\ removal.refreshing \in Machines \cup {"none"}
  BY DEF HostInv, DrawerTyped, DrawerType, RemovalType
<1>1. CASE HD!ShowDelete \/ HD!TypeName
  BY <1>0, <1>1 DEF HD!ShowDelete, HD!TypeName, RemovalType, HostInv, HostWorkInv, HostReleased, DrawerTyped
<1>2. CASE HD!CloseDelete
  BY <1>0, <1>2 DEF HD!CloseDelete, HD!NoRemoval, HD!None, RemovalType, HostInv, HostWorkInv, HostReleased, DrawerTyped
<1>3. CASE HD!Remove \/ HD!RemovalSettled
  BY <1>0, <1>3 DEF HD!Remove, HD!RemovalSettled, RemovalType, HostInv, HostWorkInv, HostReleased, DrawerTyped
<1>4. CASE HD!RemoveFails \/ HD!RefreshEvidence
  BY <1>0, <1>4 DEF HD!RemoveFails, HD!RefreshEvidence, RemovalType, HostInv, HostWorkInv, HostReleased, DrawerTyped
<1>5. CASE HD!Removed \/ HD!HostGone
  <2>1. removal' \in RemovalType
    BY <1>0, <1>5 DEF HD!Removed, HD!HostGone, HD!None, RemovalType
  <2> QED
    BY <1>5, <2>1, DrawerClosed DEF HD!Removed, HD!HostGone, HostInv, HostWorkInv, HostReleased, DrawerTyped
<1>6. CASE HD!HostStill
  <2>1. removal' \in RemovalType
    BY <1>0, <1>6 DEF HD!HostStill, HD!None, RemovalType
  <2>2. drawer' \in DrawerType
    BY <1>0, <1>6 DEF HD!HostStill, HD!Read, DrawerType
  <2> QED
    BY <1>6, <2>1, <2>2 DEF HD!HostStill, HostInv, HostWorkInv, HostReleased, DrawerTyped
<1>7. CASE HD!NoEvidence
  <2>1. removal' \in RemovalType
    BY <1>0, <1>7 DEF HD!NoEvidence, HD!None, RemovalType
  <2>2. drawer' \in DrawerType
    BY <1>0, <1>7 DEF HD!NoEvidence, DrawerType
  <2> QED
    BY <1>7, <2>1, <2>2 DEF HD!NoEvidence, HostInv, HostWorkInv, HostReleased, DrawerTyped
<1> QED
  BY <1>1, <1>2, <1>3, <1>4, <1>5, <1>6, <1>7

LEMMA HostStep == HostInv /\ HD!Next => HostInv'
BY HostShownStep, HostOperationStep, HostOperationSettled, HostPanelStep, RemovalStep DEF HD!Next

HostPage == mounted = "host details" => HostInv

LEMMA HostInvariant == BrowserSpec => []HostPage
<1>1. BrowserInit => HostPage
  BY HostInit DEF BrowserInit, HostPage
<1>2. HostPage /\ [BrowserNext]_BrowserVars => HostPage'
  <2> SUFFICES ASSUME HostPage, [BrowserNext]_BrowserVars, mounted' = "host details"
               PROVE  HostInv'
    BY DEF HostPage
  <2>1. HostInv /\ [HD!Next]_HD!vars
    BY PageStep DEF HostPage
  <2>2. CASE UNCHANGED HD!vars
    BY <2>1, <2>2 DEF HD!vars, HostInv, HostWorkInv, HostReleased, DrawerTyped
  <2> QED
    BY <2>1, <2>2, HostStep
<1> QED
  BY <1>1, <1>2, PTL DEF BrowserSpec

--------------------------------------------------------------------------------
(* The page of tasks (TasksPage) *)

SelectedType == [id : TaskIds \cup {"none"}, task : Reported \cup {TP!NoTask}]
CancelsType == [TaskIds -> {"none", "drawer", "list", "reading"}]
RetryType == [task : TaskIds \cup {"none"}, drawer : BOOLEAN]
TaskWorkType == [actioning : TaskIds \cup {""}, cancels : CancelsType, retry : RetryType,
                 failed : TaskIds \cup {"none"}, panel : {"none", "stale", "ready"},
                 refreshing : TaskIds \cup {"none", "list"}]

ViewTyped == url \in TaskIds \cup {"none"} /\ selected \in SelectedType /\ reads \subseteq TaskIds

(* The cancellation the page says is under way is. A retry that was made in the *)
(* drawer is of a task, which is read again when the retry is not accepted.     *)
TaskWorkInv ==
    /\ taskWork \in TaskWorkType
    /\ taskWork.actioning # "" => taskWork.cancels[taskWork.actioning] # "none"
    /\ taskWork.retry.drawer => taskWork.retry.task \in TaskIds

TasksInv == ViewTyped /\ TaskWorkInv

LEMMA TasksInvImplies == TasksInv => TP!TypeOK /\ TP!ActioningReleased
BY DEF TasksInv, ViewTyped, TaskWorkInv, TP!TypeOK, TP!ActioningReleased, SelectedType, CancelsType,
       RetryType, TaskWorkType, TP!None

LEMMA NothingSelected == TP!Nothing \in SelectedType
BY DEF TP!Nothing, SelectedType, TP!None

LEMMA NoRetryType == TP!NoRetry \in RetryType /\ ~TP!NoRetry.drawer /\ TP!NoRetry.task = "none"
BY DEF TP!NoRetry, RetryType, TP!None

LEMMA IdleTyped ==
    /\ TP!Idle \in TaskWorkType
    /\ TP!Idle.actioning = "" /\ ~TP!Idle.retry.drawer
<1> DEFINE cancels == [t \in TaskIds |-> "none"]
<1>1. cancels \in CancelsType
  BY DEF CancelsType
<1>2. TP!Idle = [actioning |-> "", cancels |-> cancels, retry |-> TP!NoRetry, failed |-> "none",
                 panel |-> "none", refreshing |-> "none"]
  BY DEF TP!Idle, TP!None
<1> HIDE DEF cancels
<1> QED
  BY <1>1, <1>2, NoRetryType DEF TaskWorkType

LEMMA TasksInit == TP!Init => TasksInv
BY NothingSelected, IdleTyped DEF TP!Init, TasksInv, ViewTyped, TaskWorkInv, TP!None

(* The address changes, and with it what is shown and read. *)
LEMMA ViewOpened ==
    ASSUME ViewTyped, NEW t \in TaskIds, TP!Opened(t)
    PROVE  ViewTyped'
BY NothingSelected DEF TP!Opened, ViewTyped

LEMMA ViewStep ==
    ASSUME TasksInv,
           \/ \E t \in TaskIds : TP!OpenTask(t) \/ TP!DetailArrives(t)
           \/ TP!CloseDetail \/ TP!Leave \/ TP!PollDetail
    PROVE  TasksInv'
<1>0. url \in TaskIds \cup {"none"} /\ selected \in SelectedType /\ reads \subseteq TaskIds
  BY DEF TasksInv, ViewTyped
<1>1. ASSUME NEW t \in TaskIds, TP!OpenTask(t) PROVE TasksInv'
  BY <1>1, ViewOpened DEF TP!OpenTask, TasksInv, TaskWorkInv
<1>2. ASSUME NEW t \in TaskIds, TP!DetailArrives(t) PROVE TasksInv'
  <2>1. selected' \in SelectedType
    BY <1>0, <1>2 DEF TP!DetailArrives, SelectedType
  <2> QED
    BY <1>0, <1>2, <2>1 DEF TP!DetailArrives, TasksInv, ViewTyped, TaskWorkInv
<1>3. CASE TP!CloseDetail
  BY <1>0, <1>3, NothingSelected DEF TP!CloseDetail, TasksInv, ViewTyped, TaskWorkInv, TP!None
<1>4. CASE TP!Leave
  <2>1. TaskWorkInv'
    BY <1>4, IdleTyped DEF TP!Leave, TaskWorkInv
  <2> QED
    BY <1>4, <2>1, NothingSelected DEF TP!Leave, TasksInv, ViewTyped, TP!None
<1>5. CASE TP!PollDetail
  BY <1>0, <1>5 DEF TP!PollDetail, TasksInv, ViewTyped, TaskWorkInv, TP!None
<1> QED
  BY <1>1, <1>2, <1>3, <1>4, <1>5

(* A cancellation, until the list was read again. *)
LEMMA CancelStep ==
    ASSUME TasksInv, NEW t \in TaskIds, TP!Cancel(t) \/ TP!Canceled(t) \/ TP!CancelSettled(t)
    PROVE  TasksInv'
<1>0. /\ selected \in SelectedType /\ reads \subseteq TaskIds
      /\ taskWork \in TaskWorkType /\ taskWork.cancels \in CancelsType
  BY DEF TasksInv, ViewTyped, TaskWorkInv, TaskWorkType
<1>1. ASSUME NEW to \in {"none", "drawer", "list", "reading"}, NEW says \in TaskIds \cup {""},
             taskWork' = [taskWork EXCEPT !.actioning = says, !.cancels[t] = to],
             says # "" => to # "none" /\ says \in {t, taskWork.actioning}
      PROVE  TaskWorkInv'
  <2> DEFINE cancels == [taskWork.cancels EXCEPT ![t] = to]
  <2>1. cancels \in CancelsType
    BY <1>0 DEF CancelsType
  <2>2. says # "" => cancels[says] # "none"
    BY <1>0, <1>1 DEF CancelsType, TasksInv, TaskWorkInv
  <2>3. taskWork' = [taskWork EXCEPT !.actioning = says, !.cancels = cancels]
    BY <1>1
  <2> HIDE DEF cancels
  <2>4. /\ taskWork' \in TaskWorkType /\ taskWork'.actioning = says /\ taskWork'.cancels = cancels
        /\ taskWork'.retry = taskWork.retry
    BY <1>0, <2>1, <2>3 DEF TaskWorkType
  <2> QED
    BY <2>2, <2>4 DEF TasksInv, TaskWorkInv
<1>2. CASE TP!Cancel(t)
  <2>1. PICK to \in {"drawer", "list"} :
          taskWork' = [taskWork EXCEPT !.actioning = t, !.cancels[t] = to]
    BY <1>2 DEF TP!Cancel
  <2>2. TaskWorkInv'
    BY <1>1, <2>1
  <2> QED
    BY <1>2, <2>2 DEF TP!Cancel, TasksInv, ViewTyped
<1>3. CASE TP!Canceled(t)
  <2>1. taskWork' = [taskWork EXCEPT !.actioning = taskWork.actioning, !.cancels[t] = "reading"]
    BY <1>0, <1>3 DEF TP!Canceled, TaskWorkType
  <2>2. taskWork.actioning \in TaskIds \cup {""}
    BY <1>0 DEF TaskWorkType
  <2>3. TaskWorkInv'
    BY <1>1, <2>1, <2>2
  <2>4. selected' \in SelectedType
    BY <1>0, <1>3 DEF TP!Canceled, SelectedType
  <2>5. reads' \subseteq TaskIds /\ url' = url
    BY <1>0, <1>3 DEF TP!Canceled
  <2> QED
    BY <2>3, <2>4, <2>5 DEF TasksInv, ViewTyped
<1>4. CASE TP!CancelSettled(t)
  <2>1. taskWork' = [taskWork EXCEPT !.actioning = "", !.cancels[t] = "none"]
    BY <1>0, <1>4 DEF TP!CancelSettled, TaskWorkType, TP!None
  <2>2. TaskWorkInv'
    BY <1>1, <2>1
  <2> QED
    BY <1>4, <2>2 DEF TP!CancelSettled, TasksInv, ViewTyped
<1> QED
  BY <1>2, <1>3, <1>4

(* A retry, the hook's panel, and the evidence it reads. *)
LEMMA TaskWorkChanged ==
    ASSUME TasksInv, NEW again \in RetryType, NEW failed \in TaskIds \cup {"none"},
           NEW panel \in {"none", "stale", "ready"}, NEW refreshed \in TaskIds \cup {"none", "list"},
           taskWork' = [taskWork EXCEPT !.retry = again, !.failed = failed, !.panel = panel,
                                        !.refreshing = refreshed],
           again.drawer => again.task \in TaskIds
    PROVE  TaskWorkInv'
<1>0. taskWork \in TaskWorkType
  BY DEF TasksInv, TaskWorkInv
<1>1. /\ taskWork' \in TaskWorkType /\ taskWork'.actioning = taskWork.actioning
      /\ taskWork'.cancels = taskWork.cancels /\ taskWork'.retry = again
  BY <1>0 DEF TaskWorkType
<1> QED
  BY <1>1 DEF TasksInv, TaskWorkInv

LEMMA TaskRetryStep ==
    ASSUME TasksInv,
           \/ \E t \in TaskIds : TP!Retry(t) \/ TP!Retried(t) \/ TP!Followed(t)
           \/ TP!NotRetried \/ TP!RefreshEvidence \/ TP!NotFollowed \/ TP!ClosePanel
    PROVE  TasksInv'
<1>0. /\ url \in TaskIds \cup {"none"} /\ selected \in SelectedType /\ reads \subseteq TaskIds
      /\ taskWork \in TaskWorkType
  BY DEF TasksInv, ViewTyped, TaskWorkInv
<1>a. /\ taskWork.retry \in RetryType /\ taskWork.failed \in TaskIds \cup {"none"}
      /\ taskWork.panel \in {"none", "stale", "ready"}
      /\ taskWork.refreshing \in TaskIds \cup {"none", "list"}
  BY <1>0 DEF TaskWorkType
<1>b. /\ taskWork.retry.drawer => taskWork.retry.task \in TaskIds
      /\ taskWork.retry.task \in TaskIds \cup {"none"}
  BY <1>a DEF TasksInv, TaskWorkInv, RetryType
<1>c. taskWork.refreshing # "none" => TP!ReadAgain \subseteq TaskIds
  BY <1>a DEF TP!ReadAgain
<1>1. ASSUME NEW t \in TaskIds, TP!Retry(t) PROVE TasksInv'
  <2>1. PICK inside \in BOOLEAN :
          taskWork' = [taskWork EXCEPT !.retry = [task |-> t, drawer |-> inside],
                                       !.failed = "none", !.panel = "none"]
    BY <1>1, Zenon DEF TP!Retry, TP!None
  <2> DEFINE again == [task |-> t, drawer |-> inside]
  <2>2. again \in RetryType /\ again.task = t
    BY DEF RetryType
  <2>3. taskWork' = [taskWork EXCEPT !.retry = again, !.failed = "none", !.panel = "none",
                                     !.refreshing = taskWork.refreshing]
    <3> HIDE DEF again
    <3>1. taskWork' = [taskWork EXCEPT !.retry = again, !.failed = "none", !.panel = "none"]
      BY <2>1 DEF again
    <3> QED
      BY <1>0, <3>1 DEF TaskWorkType
  <2> HIDE DEF again
  <2>4. TaskWorkInv'
    BY <1>a, <2>2, <2>3, TaskWorkChanged
  <2> QED
    BY <1>0, <1>1, <2>4 DEF TP!Retry, TasksInv, ViewTyped
<1>2. ASSUME NEW t \in TaskIds, TP!Retried(t) PROVE TasksInv'
  <2>1. taskWork' = [taskWork EXCEPT !.retry = TP!NoRetry, !.failed = taskWork.failed,
                                     !.panel = taskWork.panel, !.refreshing = taskWork.refreshing]
    BY <1>0, <1>2 DEF TP!Retried, TaskWorkType
  <2>2. TaskWorkInv'
    BY <1>a, <2>1, NoRetryType, TaskWorkChanged
  <2> QED
    BY <1>2, <2>2, ViewOpened DEF TP!Retried, TasksInv
<1>3. ASSUME NEW t \in TaskIds, TP!Followed(t) PROVE TasksInv'
  <2>1. taskWork' = [taskWork EXCEPT !.retry = taskWork.retry, !.failed = "none",
                                     !.panel = "none", !.refreshing = "none"]
    BY <1>0, <1>3 DEF TP!Followed, TaskWorkType, TP!None
  <2>2. TaskWorkInv'
    BY <1>a, <1>b, <2>1, TaskWorkChanged
  <2>3. reads' \subseteq TaskIds
    BY <1>0, <1>3, <1>c DEF TP!Followed, TP!None
  <2>4. url' = t /\ selected' \in SelectedType
    BY <1>0, <1>3, NothingSelected DEF TP!Followed
  <2> QED
    BY <2>2, <2>3, <2>4 DEF TasksInv, ViewTyped
<1>4. CASE TP!NotRetried
  <2>1. PICK panel \in {"stale", "ready"} :
          taskWork' = [taskWork EXCEPT !.retry = TP!NoRetry, !.failed = taskWork.retry.task,
                                       !.panel = panel]
    BY <1>4 DEF TP!NotRetried
  <2>2. taskWork' = [taskWork EXCEPT !.retry = TP!NoRetry, !.failed = taskWork.retry.task,
                                     !.panel = panel, !.refreshing = taskWork.refreshing]
    BY <1>0, <2>1 DEF TaskWorkType
  <2>3. TaskWorkInv'
    BY <1>a, <1>b, <2>2, NoRetryType, TaskWorkChanged
  <2>4. reads' \subseteq TaskIds
    BY <1>0, <1>b, <1>4 DEF TP!NotRetried
  <2> QED
    BY <1>0, <1>4, <2>3, <2>4 DEF TP!NotRetried, TasksInv, ViewTyped
<1>5. CASE TP!RefreshEvidence
  <2>1. PICK from \in TaskIds \cup {"none", "list"} :
          taskWork' = [taskWork EXCEPT !.refreshing = from]
    BY <1>0, <1>5 DEF TP!RefreshEvidence
  <2>2. taskWork' = [taskWork EXCEPT !.retry = taskWork.retry, !.failed = taskWork.failed,
                                     !.panel = taskWork.panel, !.refreshing = from]
    BY <1>0, <2>1 DEF TaskWorkType
  <2>3. TaskWorkInv'
    BY <1>a, <1>b, <2>2, TaskWorkChanged
  <2> QED
    BY <1>0, <1>5, <2>3 DEF TP!RefreshEvidence, TasksInv, ViewTyped
<1>6. CASE TP!NotFollowed
  <2>1. PICK panel \in {"none", "stale", "ready"} :
          taskWork' = [taskWork EXCEPT !.refreshing = "none", !.panel = panel]
    BY <1>6 DEF TP!NotFollowed, TP!None
  <2>2. taskWork' = [taskWork EXCEPT !.retry = taskWork.retry, !.failed = taskWork.failed,
                                     !.panel = panel, !.refreshing = "none"]
    BY <1>0, <2>1 DEF TaskWorkType
  <2>3. TaskWorkInv'
    BY <1>a, <1>b, <2>2, TaskWorkChanged
  <2>4. reads' \subseteq TaskIds
    BY <1>0, <1>c, <1>6 DEF TP!NotFollowed, TP!None
  <2> QED
    BY <1>0, <1>6, <2>3, <2>4 DEF TP!NotFollowed, TasksInv, ViewTyped
<1>7. CASE TP!ClosePanel
  <2>1. taskWork' = [taskWork EXCEPT !.retry = taskWork.retry, !.failed = "none", !.panel = "none",
                                     !.refreshing = taskWork.refreshing]
    BY <1>0, <1>7 DEF TP!ClosePanel, TaskWorkType, TP!None
  <2>2. TaskWorkInv'
    BY <1>a, <1>b, <2>1, TaskWorkChanged
  <2> QED
    BY <1>0, <1>7, <2>2 DEF TP!ClosePanel, TasksInv, ViewTyped
<1> QED
  BY <1>1, <1>2, <1>3, <1>4, <1>5, <1>6, <1>7

LEMMA TasksStep == TasksInv /\ TP!Next => TasksInv'
BY ViewStep, CancelStep, TaskRetryStep DEF TP!Next

TaskPage == mounted = "tasks" => TasksInv

LEMMA TasksInvariant == BrowserSpec => []TaskPage
<1>1. BrowserInit => TaskPage
  BY TasksInit DEF BrowserInit, TaskPage
<1>2. TaskPage /\ [BrowserNext]_BrowserVars => TaskPage'
  <2> SUFFICES ASSUME TaskPage, [BrowserNext]_BrowserVars, mounted' = "tasks"
               PROVE  TasksInv'
    BY DEF TaskPage
  <2>1. TasksInv /\ [TP!Next]_TP!tasksPage
    BY PageStep DEF TaskPage
  <2>2. CASE UNCHANGED TP!tasksPage
    BY <2>1, <2>2 DEF TP!tasksPage, TasksInv, ViewTyped, TaskWorkInv
  <2> QED
    BY <2>1, <2>2, TasksStep
<1> QED
  BY <1>1, <1>2, PTL DEF BrowserSpec

--------------------------------------------------------------------------------
(* The workbench (DashboardPage) *)

Wanting == UNION {[wanting -> Attention] : wanting \in SUBSET Databases}
BoardType == [read : BOOLEAN, items : Wanting]
LoadingType == [count : 0 .. MaxLoads, shown : BOOLEAN]
BoardWorkType == [retry : Databases \cup {"none"}, failed : Databases \cup {"none"},
                  panel : {"none", "stale", "ready"}, refreshing : BOOLEAN]

(* The placeholder is shown only while a load is under way. *)
LoadingInv == loading \in LoadingType /\ (loading.shown => loading.count > 0)

BoardInv == board \in BoardType /\ LoadingInv /\ boardWork \in BoardWorkType

LEMMA BoardInvImplies == BoardInv => DP!TypeOK /\ DP!PlaceholderReleased
BY DEF BoardInv, LoadingInv, DP!TypeOK, DP!PlaceholderReleased, Wanting, BoardType, LoadingType,
       BoardWorkType, DP!None

LEMMA Unread == DP!Unread \in BoardType /\ DP!Idle \in BoardWorkType
<1>1. << >> \in [{} -> Attention]
  OBVIOUS
<1>2. << >> \in Wanting
  BY <1>1 DEF Wanting
<1> QED
  BY <1>2 DEF DP!Unread, DP!Idle, DP!None, BoardType, BoardWorkType

LEMMA PageReturned ==
    ASSUME board' = DP!Unread, loading' = [count |-> 1, shown |-> TRUE], boardWork' = DP!Idle
    PROVE  BoardInv'
BY Unread, PartsAssumption DEF DP!DashboardAssumption, BoardInv, LoadingInv, LoadingType

LEMMA BoardInit == DP!Init => BoardInv
BY Unread, PartsAssumption DEF DP!Init, DP!DashboardAssumption, BoardInv, LoadingInv, LoadingType

LEMMA LoadBegins ==
    ASSUME LoadingInv, DP!Load
    PROVE  LoadingInv'
BY PartsAssumption DEF DP!Load, DP!DashboardAssumption, LoadingInv, LoadingType

LEMMA LoadStep ==
    ASSUME BoardInv, DP!Loaded \/ DP!LoadFails \/ DP!Refresh \/ DP!Leave
    PROVE  BoardInv'
<1>1. ASSUME DP!Loaded PROVE BoardInv'
  <2>0. PICK wanting \in SUBSET Databases :
          \E tasks \in [wanting -> Attention] : board' = [read |-> TRUE, items |-> tasks]
    BY <1>1 DEF DP!Loaded
  <2>1. PICK tasks \in [wanting -> Attention] : board' = [read |-> TRUE, items |-> tasks]
    BY <2>0
  <2>2. tasks \in Wanting
    BY DEF Wanting
  <2>3. board' \in BoardType
    BY <2>1, <2>2 DEF BoardType
  <2>4. LoadingInv'
    BY <1>1, PartsAssumption
    DEF DP!Loaded, DP!Ended, DP!DashboardAssumption, BoardInv, LoadingInv, LoadingType
  <2> QED
    BY <1>1, <2>3, <2>4 DEF DP!Loaded, BoardInv
<1>2. ASSUME DP!LoadFails PROVE BoardInv'
  <2>1. LoadingInv'
    BY <1>2, PartsAssumption
    DEF DP!LoadFails, DP!Ended, DP!DashboardAssumption, BoardInv, LoadingInv, LoadingType
  <2> QED
    BY <1>2, <2>1 DEF DP!LoadFails, BoardInv
<1>3. ASSUME DP!Refresh PROVE BoardInv'
  BY <1>3, LoadBegins DEF DP!Refresh, BoardInv
<1>4. ASSUME DP!Leave PROVE BoardInv'
  BY <1>4, PageReturned DEF DP!Leave
<1> QED
  BY <1>1, <1>2, <1>3, <1>4

LEMMA BoardRetryStep ==
    ASSUME BoardInv,
           \/ \E i \in Databases : DP!Retry(i)
           \/ DP!RetryEnds \/ DP!RefreshEvidence \/ DP!EvidenceEnds \/ DP!ClosePanel
    PROVE  BoardInv'
<1>0. boardWork \in BoardWorkType /\ LoadingInv
  BY DEF BoardInv
<1>1. ASSUME NEW i \in Databases, DP!Retry(i) PROVE BoardInv'
  <2>1. boardWork' \in BoardWorkType
    BY <1>0, <1>1 DEF DP!Retry, DP!None, BoardWorkType
  <2> QED
    BY <1>1, <2>1 DEF DP!Retry, BoardInv, LoadingInv
<1>2. CASE DP!RetryEnds
  <2>1. boardWork' \in BoardWorkType
    BY <1>0, <1>2 DEF DP!RetryEnds, DP!None, BoardWorkType
  <2> QED
    BY <1>0, <1>2, <2>1, LoadBegins DEF DP!RetryEnds, BoardInv
<1>3. CASE DP!RefreshEvidence
  <2>1. boardWork' \in BoardWorkType
    BY <1>0, <1>3 DEF DP!RefreshEvidence, DP!None, BoardWorkType
  <2> QED
    BY <1>3, <2>1 DEF DP!RefreshEvidence, BoardInv, LoadingInv
<1>4. CASE DP!EvidenceEnds
  <2>1. boardWork' \in BoardWorkType
    BY <1>0, <1>4 DEF DP!EvidenceEnds, DP!None, BoardWorkType
  <2> QED
    BY <1>0, <1>4, <2>1, LoadBegins DEF DP!EvidenceEnds, BoardInv
<1>5. CASE DP!ClosePanel
  <2>1. boardWork' \in BoardWorkType
    BY <1>0, <1>5 DEF DP!ClosePanel, DP!None, BoardWorkType
  <2> QED
    BY <1>5, <2>1 DEF DP!ClosePanel, BoardInv, LoadingInv
<1> QED
  BY <1>1, <1>2, <1>3, <1>4, <1>5

LEMMA BoardStep == BoardInv /\ DP!Next => BoardInv'
BY LoadStep, BoardRetryStep DEF DP!Next

BoardPage == mounted = "dashboard" => BoardInv

LEMMA BoardInvariant == BrowserSpec => []BoardPage
<1>1. BrowserInit => BoardPage
  BY BoardInit DEF BrowserInit, BoardPage
<1>2. BoardPage /\ [BrowserNext]_BrowserVars => BoardPage'
  <2> SUFFICES ASSUME BoardPage, [BrowserNext]_BrowserVars, mounted' = "dashboard"
               PROVE  BoardInv'
    BY DEF BoardPage
  <2>1. BoardInv /\ [DP!Next]_DP!dashboard
    BY PageStep DEF BoardPage
  <2>2. CASE UNCHANGED DP!dashboard
    BY <2>1, <2>2 DEF DP!dashboard, BoardInv, LoadingInv
  <2> QED
    BY <2>1, <2>2, BoardStep
<1> QED
  BY <1>1, <1>2, PTL DEF BrowserSpec

--------------------------------------------------------------------------------
(* The actions of a row and the alert that follows its task (RowActions) *)

RowDialogType == [item : Databases \cup {"none"}, action : {"none", "start", "stop", "restart"},
                  submitting : BOOLEAN, error : BOOLEAN]
RowRetryType == [of : 0 .. MaxFollowed, sent : 0 .. MaxWork, answered : 0 .. MaxWork]
AlertType == [item : Databases \cup {"none"}, number : 0 .. MaxFollowed, task : RowTasks \cup {RA!NoTask}]

(* An alert that follows something follows a task there is, which is read again. *)
FollowedInv ==
    /\ alert \in AlertType
    /\ alert.item # "none" => alert.number \in 1 .. MaxFollowed
    /\ made \in 0 .. MaxFollowed
    /\ polls \subseteq 1 .. MaxFollowed

RowRetryInv == rowRetry \in RowRetryType /\ rowRetry.sent + rowRetry.answered \in 0 .. MaxWork

RowsInv ==
    /\ shown \in [Databases -> DatabaseStatuses \cup {"none"}]
    /\ rowDialog \in RowDialogType
    /\ FollowedInv
    /\ RowRetryInv

LEMMA RowsInvImplies == RowsInv => RA!TypeOK
BY DEF RowsInv, FollowedInv, RowRetryInv, RA!TypeOK, RowDialogType, RowRetryType, AlertType,
       RA!None

LEMMA FollowedBound == MaxFollowed \in Nat /\ MaxWork \in Nat
BY PartsAssumption DEF RA!RowsAssumption

LEMMA NoDialogType == RA!NoDialog \in RowDialogType
BY DEF RA!NoDialog, RowDialogType, RA!None

LEMMA NoAlertType == RA!NoAlert \in AlertType /\ RA!NoAlert.item = "none"
BY FollowedBound DEF RA!NoAlert, AlertType, RA!None

LEMMA NoRowRetryType ==
    RA!NoRetry \in RowRetryType /\ RA!NoRetry.sent + RA!NoRetry.answered \in 0 .. MaxWork
BY FollowedBound DEF RA!NoRetry, RowRetryType

LEMMA RowsInit == RA!Init => RowsInv
<1> SUFFICES ASSUME RA!Init PROVE RowsInv
  OBVIOUS
<1>1. shown \in [Databases -> DatabaseStatuses \cup {"none"}]
  BY DEF RA!Init, RA!None
<1>2. FollowedInv
  BY NoAlertType, FollowedBound DEF RA!Init, FollowedInv
<1> QED
  BY <1>1, <1>2, NoDialogType, NoRowRetryType DEF RA!Init, RowsInv, RowRetryInv

LEMMA FollowStep ==
    ASSUME FollowedInv, NEW item \in Databases \cup {"none"}, RA!Follow(item)
    PROVE  FollowedInv'
<1>1. made' \in 1 .. MaxFollowed
  BY FollowedBound DEF RA!Follow, FollowedInv
<1>2. PICK task \in RowTasks : alert' = [item |-> item, number |-> made', task |-> task]
  BY DEF RA!Follow
<1>3. made' \in 0 .. MaxFollowed
  BY <1>1, FollowedBound
<1>4. alert' \in AlertType /\ alert'.number = made'
  BY <1>2, <1>3 DEF AlertType
<1>5. polls' \subseteq 1 .. MaxFollowed
  BY <1>1 DEF RA!Follow, FollowedInv
<1> QED
  BY <1>1, <1>3, <1>4, <1>5 DEF FollowedInv

LEMMA RowDialogStep ==
    ASSUME RowsInv,
           \/ \E item \in Databases, status \in DatabaseStatuses : RA!Arrives(item, status)
           \/ \E item \in Databases, action \in {"start", "stop", "restart"} :
                RA!OpenRowAction(item, action)
           \/ RA!CloseRowAction \/ RA!Submit \/ RA!Accepted \/ RA!Settled \/ RA!Refused
    PROVE  RowsInv'
<1>0. rowDialog \in RowDialogType /\ rowDialog.item \in Databases \cup {"none"}
  BY DEF RowsInv, RowDialogType
<1>1. ASSUME NEW item \in Databases, NEW status \in DatabaseStatuses, RA!Arrives(item, status)
      PROVE  RowsInv'
  <2>1. shown' \in [Databases -> DatabaseStatuses \cup {"none"}]
    BY <1>1 DEF RA!Arrives, RowsInv
  <2> QED
    BY <1>1, <2>1 DEF RA!Arrives, RowsInv, FollowedInv, RowRetryInv
<1>2. ASSUME NEW item \in Databases, NEW action \in {"start", "stop", "restart"},
             RA!OpenRowAction(item, action)
      PROVE  RowsInv'
  <2>1. rowDialog' \in RowDialogType
    BY <1>2 DEF RA!OpenRowAction, RA!NoDialog, RowDialogType
  <2> QED
    BY <1>2, <2>1 DEF RA!OpenRowAction, RowsInv, FollowedInv, RowRetryInv
<1>3. CASE RA!CloseRowAction \/ RA!Settled
  BY <1>3, NoDialogType DEF RA!CloseRowAction, RA!Settled, RowsInv, FollowedInv, RowRetryInv
<1>4. CASE RA!Submit \/ RA!Refused
  <2>1. rowDialog' \in RowDialogType
    BY <1>0, <1>4 DEF RA!Submit, RA!Refused, RowDialogType
  <2> QED
    BY <1>4, <2>1 DEF RA!Submit, RA!Refused, RowsInv, FollowedInv, RowRetryInv
<1>5. CASE RA!Accepted
  <2>1. rowDialog' \in RowDialogType
    BY <1>5 DEF RA!Accepted, RA!NoDialog, RowDialogType, RA!None
  <2>2. FollowedInv'
    BY <1>0, <1>5, FollowStep DEF RA!Accepted, RowsInv, RowRetryInv
  <2> QED
    BY <1>5, <2>1, <2>2 DEF RA!Accepted, RowsInv, RowRetryInv
<1> QED
  BY <1>1, <1>2, <1>3, <1>4, <1>5

LEMMA AlertStep ==
    ASSUME RowsInv,
           \/ RA!Poll \/ \E number \in polls : RA!PollArrives(number)
           \/ RA!RetryTask \/ RA!Retried \/ RA!RetrySettled \/ RA!Dismiss
    PROVE  RowsInv'
<1>0. FollowedInv /\ alert \in AlertType /\ alert.item \in Databases \cup {"none"}
  BY DEF RowsInv, FollowedInv, AlertType
<1>1. CASE RA!Poll
  <2>1. polls' \subseteq 1 .. MaxFollowed
    BY <1>0, <1>1 DEF RA!Poll, RA!Following, RA!None, FollowedInv
  <2> QED
    BY <1>0, <1>1, <2>1 DEF RA!Poll, RowsInv, FollowedInv, RowRetryInv
<1>2. ASSUME NEW number \in polls, RA!PollArrives(number) PROVE RowsInv'
  <2>1. polls' \subseteq 1 .. MaxFollowed /\ number \in 1 .. MaxFollowed
    BY <1>0, <1>2 DEF RA!PollArrives, FollowedInv
  <2>2. alert' \in AlertType /\ (alert'.item # "none" => alert'.number \in 1 .. MaxFollowed)
    <3>1. CASE alert' = alert
      BY <1>0, <3>1 DEF FollowedInv
    <3>2. CASE alert' # alert
      <4>1. PICK task \in RowTasks : alert' = [alert EXCEPT !.number = number, !.task = task]
        BY <1>2, <3>2 DEF RA!PollArrives
      <4>2. number \in 0 .. MaxFollowed
        BY <2>1, FollowedBound
      <4> QED
        BY <1>0, <2>1, <4>1, <4>2 DEF AlertType
    <3> QED
      BY <3>1, <3>2
  <2> QED
    BY <1>0, <1>2, <2>1, <2>2 DEF RA!PollArrives, RowsInv, FollowedInv, RowRetryInv
<1>a. /\ rowRetry \in RowRetryType
      /\ rowRetry.sent \in 0 .. MaxWork /\ rowRetry.answered \in 0 .. MaxWork
      /\ rowRetry.sent + rowRetry.answered \in 0 .. MaxWork
  BY DEF RowsInv, RowRetryInv, RowRetryType
<1>b. ASSUME NEW of \in 0 .. MaxFollowed, NEW sent \in Nat, NEW answered \in Nat,
             sent + answered \in 0 .. MaxWork,
             \/ rowRetry' = [rowRetry EXCEPT !.of = of, !.sent = sent, !.answered = answered]
             \/ rowRetry' = [rowRetry EXCEPT !.sent = sent, !.answered = answered]
      PROVE  RowRetryInv'
  <2>1. sent \in 0 .. MaxWork /\ answered \in 0 .. MaxWork
    BY <1>b, FollowedBound
  <2>2. /\ rowRetry' \in RowRetryType /\ rowRetry'.sent = sent /\ rowRetry'.answered = answered
    BY <1>a, <1>b, <2>1 DEF RowRetryType
  <2> QED
    BY <1>b, <2>2 DEF RowRetryInv
<1>c. 0 \in 0 .. MaxFollowed
  BY FollowedBound
<1>3. CASE RA!RetryTask
  <2>1. alert.number \in 0 .. MaxFollowed
    BY <1>0 DEF AlertType
  <2>2. /\ rowRetry.sent + 1 \in Nat /\ rowRetry.answered \in Nat
        /\ (rowRetry.sent + 1) + rowRetry.answered \in 0 .. MaxWork
    BY <1>3, <1>a, FollowedBound DEF RA!RetryTask
  <2>3. rowRetry' = [rowRetry EXCEPT !.of = alert.number, !.sent = rowRetry.sent + 1,
                                     !.answered = rowRetry.answered]
    BY <1>3, <1>a DEF RA!RetryTask, RowRetryType
  <2>4. RowRetryInv'
    BY <1>b, <2>1, <2>2, <2>3
  <2> QED
    BY <1>3, <2>4 DEF RA!RetryTask, RowsInv, FollowedInv, RowRetryInv
<1>4. CASE RA!Retried
  <2>1. FollowedInv'
    <3>1. CASE RA!Following
      BY <1>0, <1>4, <3>1, FollowStep DEF RA!Retried
    <3>2. CASE ~RA!Following
      BY <1>0, <1>4, <3>2 DEF RA!Retried, FollowedInv
    <3> QED
      BY <3>1, <3>2
  <2>2. /\ rowRetry.sent - 1 \in Nat /\ rowRetry.answered + 1 \in Nat
        /\ (rowRetry.sent - 1) + (rowRetry.answered + 1) \in 0 .. MaxWork
    BY <1>4, <1>a, FollowedBound DEF RA!Retried
  <2>3. rowRetry' = [rowRetry EXCEPT !.sent = rowRetry.sent - 1, !.answered = rowRetry.answered + 1]
    BY <1>4 DEF RA!Retried
  <2>4. RowRetryInv'
    BY <1>b, <1>c, <2>2, <2>3
  <2> QED
    BY <1>4, <2>1, <2>4 DEF RA!Retried, RowsInv
<1>5. CASE RA!Dismiss
  BY <1>0, <1>5, NoAlertType DEF RA!Dismiss, RowsInv, FollowedInv, RowRetryInv
<1>6. CASE RA!RetrySettled
  <2>1. ASSUME rowRetry.sent > 0, rowRetry' = [rowRetry EXCEPT !.of = 0, !.sent = @ - 1]
        PROVE  RowRetryInv'
    <3>1. /\ rowRetry.sent - 1 \in Nat /\ rowRetry.answered \in Nat
          /\ (rowRetry.sent - 1) + rowRetry.answered \in 0 .. MaxWork
      BY <1>a, <2>1, FollowedBound
    <3>2. rowRetry' = [rowRetry EXCEPT !.of = 0, !.sent = rowRetry.sent - 1,
                                       !.answered = rowRetry.answered]
      BY <1>a, <2>1 DEF RowRetryType
    <3> QED
      BY <1>b, <1>c, <3>1, <3>2
  <2>2. ASSUME rowRetry.answered > 0, rowRetry' = [rowRetry EXCEPT !.of = 0, !.answered = @ - 1]
        PROVE  RowRetryInv'
    <3>1. /\ rowRetry.sent \in Nat /\ rowRetry.answered - 1 \in Nat
          /\ rowRetry.sent + (rowRetry.answered - 1) \in 0 .. MaxWork
      BY <1>a, <2>2, FollowedBound
    <3>2. rowRetry' = [rowRetry EXCEPT !.of = 0, !.sent = rowRetry.sent,
                                       !.answered = rowRetry.answered - 1]
      BY <1>a, <2>2 DEF RowRetryType
    <3> QED
      BY <1>b, <1>c, <3>1, <3>2
  <2>3. RowRetryInv'
    BY <1>6, <2>1, <2>2 DEF RA!RetrySettled
  <2> QED
    BY <1>6, <2>3 DEF RA!RetrySettled, RowsInv, FollowedInv, RowRetryInv
<1> QED
  BY <1>1, <1>2, <1>3, <1>4, <1>5, <1>6

LEMMA RowActionsStep == RowsInv /\ RA!Next => RowsInv'
BY RowDialogStep, AlertStep DEF RA!Next

RowPage == mounted = "row actions" => RowsInv

LEMMA RowsInvariant == BrowserSpec => []RowPage
<1>1. BrowserInit => RowPage
  BY RowsInit DEF BrowserInit, RowPage
<1>2. RowPage /\ [BrowserNext]_BrowserVars => RowPage'
  <2> SUFFICES ASSUME RowPage, [BrowserNext]_BrowserVars, mounted' = "row actions"
               PROVE  RowsInv'
    BY DEF RowPage
  <2>1. RowsInv /\ [RA!Next]_RA!rowActions
    BY PageStep DEF RowPage
  <2>2. CASE UNCHANGED RA!rowActions
    BY <2>1, <2>2 DEF RA!rowActions, RowsInv, FollowedInv, RowRetryInv
  <2> QED
    BY <2>1, <2>2, RowActionsStep
<1> QED
  BY <1>1, <1>2, PTL DEF BrowserSpec

--------------------------------------------------------------------------------
(* The retry of a task (RetryRequest), whose invariant RetryRequestProofs proves *)

LEMMA RetryInvariant == BrowserSpec => []IInv
<1>1. BrowserInit => IInv
  BY TypeInit, DenseInit, RequestInit DEF BrowserInit, IInv
<1>2. IInv /\ [BrowserNext]_BrowserVars => IInv'
  BY PageStep, Inductive
<1> QED
  BY <1>1, <1>2, PTL DEF BrowserSpec

--------------------------------------------------------------------------------
(* What the pages promise *)

LEMMA PagesTypes ==
    ASSUME IInv, CleanupInv, EditorPage, ConnectionPage, ActionsPage, HostPage, CreationPage,
           HandoffPage, RowPage, TaskPage, BoardPage
    PROVE  PagesTypeOK
<1>1. TypeOK /\ CR!TypeOK
  BY DEF IInv, CleanupInv
<1>2. mounted = "host editor" => HE!TypeOK
  BY SameEditor DEF EditorPage, HEP!IInv
<1>3. mounted = "connection" => CN!TypeOK
  BY DEF ConnectionPage
<1>4. mounted = "actions" => IA!TypeOK
  BY DEF ActionsPage, ActionsInv
<1>5. mounted = "host details" => HD!TypeOK
  BY HostInvMeans DEF HostPage
<1>6. mounted = "creation" => IC!TypeOK
  BY CreationTypes DEF CreationPage, CreationInv
<1>7. mounted = "handoff" => QH!TypeOK
  BY DEF HandoffPage, HandoffInv
<1>8. mounted = "row actions" => RA!TypeOK
  BY RowsInvImplies DEF RowPage
<1>9. mounted = "tasks" => TP!TypeOK
  BY TasksInvImplies DEF TaskPage
<1>10. mounted = "dashboard" => DP!TypeOK
  BY BoardInvImplies DEF BoardPage
<1> QED
  BY <1>1, <1>2, <1>3, <1>4, <1>5, <1>6, <1>7, <1>8, <1>9, <1>10 DEF PagesTypeOK

(* Every page that is mounted is of its type, whatever is listed, whatever the *)
(* server answers, and however much of it is under way.                        *)
THEOREM PagesTyped == BrowserSpec => []PagesTypeOK
<1>1. IInv /\ CleanupInv /\ EditorPage /\ ConnectionPage /\ ActionsPage /\ HostPage
        /\ CreationPage /\ HandoffPage /\ RowPage /\ TaskPage /\ BoardPage => PagesTypeOK
  BY PagesTypes
<1> QED
  BY <1>1, RetryInvariant, CleanupInvariant, EditorInvariant, ConnectionInvariant, ActionsInvariant,
     HostInvariant, CreationInvariant, HandoffInvariant, RowsInvariant, TasksInvariant, BoardInvariant,
     PTL

(* No page is locked by an operation of its own that is over, although several *)
(* go on at once and the first that ends clears what the page says of all.     *)
THEOREM PagesReleased == BrowserSpec => []ActioningReleased
<1>1. ActionsPage /\ HostPage /\ TaskPage /\ BoardPage => ActioningReleased
  BY HostInvMeans, TasksInvImplies, BoardInvImplies
  DEF ActionsPage, ActionsInv, HostPage, TaskPage, BoardPage, ActioningReleased
<1> QED
  BY <1>1, ActionsInvariant, HostInvariant, TasksInvariant, BoardInvariant, PTL

(* No deletion is sent again before evidence that came after the failed one,   *)
(* however the dialog is closed, opened and refreshed meanwhile.               *)
THEOREM DeletionReviewed == BrowserSpec => ReviewedSinceFailure
<1>1. CleanupInv /\ [BrowserNext]_BrowserVars
        => [deletes'.sent > deletes.sent => ~unreviewed]_CR!cleanup
  BY SubmittedReviewed
<1> QED
  BY <1>1, CleanupInvariant, PTL DEF BrowserSpec, ReviewedSinceFailure, CR!ReviewedSinceFailure

(* A copy of a connection that was overtaken, by a newer one or by the dialog  *)
(* of another database, changes nothing of what is shown.                      *)
THEOREM HandoffIsCurrent == BrowserSpec => []HandoffCurrent
<1>1. HandoffPage => HandoffCurrent
  BY DEF HandoffPage, HandoffInv, HandoffCurrent
<1> QED
  BY <1>1, HandoffInvariant, PTL

(* A creation that failed and is being checked is being checked by a refresh   *)
(* that is under way, which will tell what became of it.                       *)
THEOREM FailureIsChecked == BrowserSpec => []NeverStuckChecking
<1>1. CreationPage => NeverStuckChecking
  BY DEF CreationPage, CreationInv, NeverStuckChecking
<1> QED
  BY <1>1, CreationInvariant, PTL

(* The form of a host, on its page: what is stored was found to work. *)
THEOREM EditorSavesVerified == BrowserSpec => []SavedVerified
<1>1. EditorPage => SavedVerified
  BY SameEditor DEF EditorPage, HEP!IInv, SavedVerified
<1> QED
  BY <1>1, EditorInvariant, PTL

(* The panel of a retry, on whichever page it is shown, offers no second retry *)
(* beside the task that its own request created.                               *)
THEOREM PagesRecogniseRetry == Skew <= Tolerance => (BrowserSpec => []SuccessorRecognised)
<1> SUFFICES ASSUME Skew <= Tolerance PROVE BrowserSpec => []SuccessorRecognised
  OBVIOUS
<1>1. IInv => SuccessorRecognised
  BY MadeRecognised
<1> QED
  BY <1>1, RetryInvariant, PTL

================================================================================
