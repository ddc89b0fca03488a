----------------------- MODULE QuoteLifecycle_proofs -----------------------
(***************************************************************************)
(* Proofs about the expediente, for any sets of versions, contents,        *)
(* employees and keys; about the stage its projection gives it; and about  *)
(* the amounts of a version, for any prices, quantities, rates and scales, *)
(* and any number of lines.                                                *)
(***************************************************************************)
EXTENDS WorkspaceProjection, QuoteTotals, TLAPS

-----------------------------------------------------------------------------
(* The transition tables.                                                  *)

\* Where a version may come from, for each target performQuoteVersionTransition is called with.
LEMMA VersionMoves ==
  ASSUME NEW from
  PROVE  /\ CanTransitionVersion(from, "BORRADOR") => from = "EN_REVISION"
         /\ CanTransitionVersion(from, "EN_REVISION") => from = "BORRADOR"
         /\ CanTransitionVersion(from, "ENVIADA") => from = "EN_REVISION"
         /\ CanTransitionVersion(from, "RECHAZADA")
              => from \in {"BORRADOR", "EN_REVISION", "ENVIADA", "EN_NEGOCIACION"}
  BY DEF CanTransitionVersion, VersionTransitions

\* The menu of staff neither wins a request nor touches one that was won.
LEMMA StaffMoves ==
  ASSUME NEW from, NEW to, CanStaffTransitionRequest(from, to)
  PROVE  /\ from \in {"RECIBIDA", "EN_REVISION", "INFORMACION_REQUERIDA", "EN_ELABORACION"}
         /\ to \in {"EN_REVISION", "INFORMACION_REQUERIDA", "EN_ELABORACION", "RECHAZADA"}
  BY DEF CanStaffTransitionRequest, StaffOperationalTransitions

-----------------------------------------------------------------------------
(* Type correctness. An approval is asked for a content that was written,  *)
(* so the digest of a version in the database is not 0.                    *)

RowsWritten == \A v \in Created : digest[v] # 0

Rows == TypeOK /\ RowsWritten

\* The rows a function of the approvals gives are approvals.
LEMMA SupersededApprovals ==
  ASSUME NEW live \in SUBSET Approvals, NEW v \in Versions
  PROVE  Superseded(live, v) \subseteq Approvals
  <1>1. ASSUME NEW a \in live
        PROVE  [a EXCEPT !.status = "SUPERSEDED", !.decidedBy = NoOne] \in Approvals
    BY DEF Approvals, ApprovalStatuses
  <1>. QED  BY <1>1 DEF Superseded

\* A transition of a version keeps the rows: the version had a row, so it has its content.
LEMMA RowsMoved ==
  ASSUME Rows, NEW v \in Versions, NEW to \in VersionStatuses,
         MayTransition(v, to), Moved(v, to), UNCHANGED digest
  PROVE  /\ status' \in [Versions -> VersionStatuses \cup {"NINGUNA"}]
         /\ {current, working, published}' \subseteq Versions \cup {NoVersion}
         /\ RowsWritten'
  <1>1. v \in Created
    BY DEF MayTransition, CanTransitionVersion, VersionTransitions, Created
  <1>. QED  BY <1>1 DEF Rows, TypeOK, RowsWritten, Created, Moved, VersionStatuses

LEMMA RowsInit == Init => Rows
  BY ConstantsAssumption
  DEF Init, Rows, TypeOK, RowsWritten, Created, RequestStatuses, ContentRecords, Discounts

LEMMA RowsDesk == Rows /\ Desk => Rows'
  <1>. SUFFICES ASSUME Rows, Desk PROVE Rows'
    OBVIOUS
  <1>1. ASSUME NEW to \in RequestStatuses, StaffTransition(to) PROVE Rows'
    BY <1>1 DEF Rows, TypeOK, RowsWritten, Created, StaffTransition, versionVars, pointers,
                dealVars
  <1>2. CASE RequestInformation
    BY <1>2 DEF Rows, TypeOK, RowsWritten, Created, RequestInformation, RequestStatuses,
                versionVars, pointers, dealVars
  <1>3. CASE MarkInformationReviewed
    BY <1>3 DEF Rows, TypeOK, RowsWritten, Created, MarkInformationReviewed,
                RequestStatuses, versionVars, pointers, dealVars
  <1>4. CASE Close
    <2>1. status' \in [Versions -> VersionStatuses \cup {"NINGUNA"}]
      BY <1>4 DEF Rows, TypeOK, Close, VersionStatuses
    <2>2. Created' = Created
      BY <1>4 DEF Rows, TypeOK, Close, Created, OpenOffers
    <2>. QED  BY <1>4, <2>1, <2>2 DEF Rows, TypeOK, RowsWritten, Close, RequestStatuses,
                pointers, dealVars
  <1>5. CASE Reopen
    BY <1>5 DEF Rows, TypeOK, RowsWritten, Created, Reopen, RequestStatuses, versionVars,
                pointers, dealVars
  <1>. QED  BY <1>1, <1>2, <1>3, <1>4, <1>5 DEF Desk

LEMMA RowsBuild == Rows /\ Build => Rows'
  <1>. SUFFICES ASSUME Rows, NEW v \in Versions,
                       \/ \E c \in Contents : CreateVersion(v, c) \/ ReplaceDraft(v, c)
                       \/ ClonePublished(v)
                       \/ Submit(v)
                       \/ Reject(v)
                PROVE  Rows'
    BY DEF Build
  <1>1. ASSUME NEW c \in ContentRecords, CreateVersion(v, c) PROVE Rows'
    <2>1. (IF HasQuote THEN number[BaseVersion] + 1 ELSE 1) \in Nat
      BY <1>1 DEF Rows, TypeOK, CreateVersion
    <2>2. /\ status' \in [Versions -> VersionStatuses \cup {"NINGUNA"}]
          /\ number' \in [Versions -> Nat]
          /\ content' \in [Versions -> ContentRecords]
          /\ digest' \in [Versions -> 0..MaxEdits]
      BY <1>1, <2>1, ConstantsAssumption
      DEF Rows, TypeOK, CreateVersion, InsertVersion, VersionStatuses
    <2>3. RowsWritten'
      BY <1>1, ConstantsAssumption
      DEF Rows, TypeOK, RowsWritten, Created, CreateVersion, InsertVersion
    <2>. QED  BY <1>1, <2>2, <2>3 DEF Rows, TypeOK, CreateVersion, InsertVersion, dealVars
  <1>2. ASSUME NEW c \in Contents, ReplaceDraft(v, c) PROVE Rows'
    <2>1. Superseded(approvals, v) \subseteq Approvals
      BY SupersededApprovals DEF Rows, TypeOK
    <2>2. content' \in [Versions -> ContentRecords] /\ digest' \in [Versions -> 0..MaxEdits]
      BY <1>2, ConstantsAssumption DEF Rows, TypeOK, ReplaceDraft
    <2>3. RowsWritten'
      BY <1>2, ConstantsAssumption DEF Rows, TypeOK, RowsWritten, Created, ReplaceDraft
    <2>. QED  BY <1>2, <2>1, <2>2, <2>3 DEF Rows, TypeOK, ReplaceDraft, pointers, dealVars
  <1>3. CASE ClonePublished(v)
    <2>1. content[published] \in ContentRecords
      BY <1>3 DEF Rows, TypeOK, ClonePublished
    <2>. QED  BY <1>1, <1>3, <2>1 DEF ClonePublished
  <1>4. CASE Submit(v)
    BY <1>4, RowsMoved DEF Rows, TypeOK, Submit, Moved, VersionStatuses, dealVars, MayTransition, EditableVersions
  <1>5. CASE Reject(v)
    BY <1>5, RowsMoved DEF Rows, TypeOK, Reject, Moved, VersionStatuses, dealVars, MayTransition, EditableVersions
  <1>. QED  BY <1>1, <1>2, <1>3, <1>4, <1>5, ConstantsAssumption

LEMMA RowsTransition ==
  ASSUME Rows, NEW v \in Versions, ReturnToDraft(v) \/ Publish(v) \/ Answer(v)
  PROVE  Rows'
  <1>1. CASE ReturnToDraft(v)
    <2>1. Superseded(approvals, v) \subseteq Approvals
      BY SupersededApprovals DEF Rows, TypeOK
    <2>. QED  BY <1>1, <2>1, RowsMoved DEF Rows, TypeOK, ReturnToDraft, VersionStatuses, dealVars
  <1>2. CASE Publish(v)
    <2>1. /\ sentDigest' \in [Versions -> 0..MaxEdits]
          /\ publication' \in [Versions -> {"NINGUNA", "PUBLISHED", "SUPERSEDED"}]
          /\ request' \in RequestStatuses
      BY <1>2 DEF Rows, TypeOK, Publish, Publications, RequestStatuses
    <2>. QED  BY <1>2, <2>1, RowsMoved DEF Rows, TypeOK, Publish, VersionStatuses, dealVars
  <1>3. CASE Decline(v)
    <2>1. /\ status' \in [Versions -> VersionStatuses \cup {"NINGUNA"}]
          /\ request' \in RequestStatuses
          /\ Created' = Created
      BY <1>3 DEF Rows, TypeOK, Decline, VersionStatuses, RequestStatuses, Created, OpenOffers
    <2>. QED  BY <1>3, <2>1 DEF Rows, TypeOK, RowsWritten, Decline, pointers, dealVars
  <1>4. ASSUME NEW k \in Keys, Accept(v, k) PROVE Rows'
    <2>1. /\ status' \in [Versions -> VersionStatuses \cup {"NINGUNA"}]
          /\ request' \in RequestStatuses
          /\ Created' = Created
      BY <1>4 DEF Rows, TypeOK, Accept, VersionStatuses, RequestStatuses, Created, OpenOffers
    <2>2. acceptances' \subseteq Acceptances /\ projects' \subseteq acceptances'
      BY <1>4 DEF Rows, TypeOK, Accept, Acceptances
    <2>. QED  BY <1>4, <2>1, <2>2 DEF Rows, TypeOK, RowsWritten, Accept, pointers
  <1>. QED  BY <1>1, <1>2, <1>3, <1>4 DEF Answer

LEMMA RowsApprove == Rows /\ Approve => Rows'
  <1>. SUFFICES ASSUME Rows, NEW s \in Staff,
                       \/ \E v \in Versions, type \in ApprovalTypes :
                            RequestApproval(s, v, type)
                       \/ \E a \in approvals, decision \in {"APPROVED", "REJECTED"} :
                            DecideApproval(s, a, decision)
                PROVE  Rows'
    BY DEF Approve
  <1>1. ASSUME NEW v \in Versions, NEW type \in ApprovalTypes, RequestApproval(s, v, type)
        PROVE  Rows'
    <2>1. digest[v] \in 1..MaxEdits
      BY <1>1 DEF Rows, TypeOK, RowsWritten, Created, RequestApproval
    <2>2. Request(s, v, type) \in Approvals
      BY <2>1 DEF Request, Approvals, ApprovalStatuses
    <2>3. PICK live \in SUBSET approvals, kept \in SUBSET approvals :
            approvals' = kept \cup Superseded(live, v) \cup {Request(s, v, type)}
      BY <1>1 DEF RequestApproval
    <2>4. approvals' \subseteq Approvals
      BY <2>2, <2>3, SupersededApprovals DEF Rows, TypeOK
    <2>. QED  BY <1>1, <2>4 DEF Rows, TypeOK, RowsWritten, Created, RequestApproval,
                versionVars, pointers, dealVars
  <1>2. ASSUME NEW a \in approvals, NEW decision \in {"APPROVED", "REJECTED"},
               DecideApproval(s, a, decision)
        PROVE  Rows'
    <2>1. [a EXCEPT !.status = decision, !.decidedBy = s] \in Approvals
      BY DEF Rows, TypeOK, Approvals, ApprovalStatuses
    <2>. QED  BY <1>2, <2>1 DEF Rows, TypeOK, RowsWritten, Created, DecideApproval,
                versionVars, pointers, dealVars
  <1>. QED  BY <1>1, <1>2

LEMMA RowsConvert == Rows /\ Convert => Rows'
  BY DEF Rows, TypeOK, RowsWritten, Created, Convert, ConvertToProject, RequestStatuses,
         versionVars, pointers

LEMMA RowsTime == Rows /\ Time => Rows'
  <1>1. ASSUME Rows, NEW v \in Versions, LapseVersion(v) PROVE Rows'
    BY <1>1 DEF Rows, TypeOK, RowsWritten, Created, LapseVersion, pointers, dealVars
  <1>2. ASSUME Rows, NEW a \in approvals, ExpireApproval(a) PROVE Rows'
    <2>1. [a EXCEPT !.expired = TRUE] \in Approvals
      BY <1>2 DEF Rows, TypeOK, Approvals
    <2>. QED  BY <1>2, <2>1 DEF Rows, TypeOK, RowsWritten, Created, ExpireApproval,
                versionVars, pointers, dealVars
  <1>. QED  BY <1>1, <1>2 DEF Time

LEMMA RowsStep == Rows /\ [Next]_vars => Rows'
  <1>1. Rows /\ UNCHANGED vars => Rows'
    BY DEF Rows, TypeOK, RowsWritten, Created, vars, versionVars, pointers, dealVars
  <1>. QED  BY <1>1, RowsDesk, RowsBuild, RowsTransition, RowsApprove, RowsConvert, RowsTime
            DEF Next

\* In every reachable state of the expediente each row and pointer has its type, for any
\* sets of versions, contents, employees and keys.
THEOREM TypeCorrect == Spec => []TypeOK
  <1>1. Rows => TypeOK
    BY DEF Rows
  <1>. QED  BY <1>1, RowsInit, RowsStep, PTL DEF Spec

-----------------------------------------------------------------------------
(* Pointers and publications. PointersSound is not inductive: what was     *)
(* sent must have stayed visible, and the working version be a later one   *)
(* than the published, or publishing it would move the pointer backwards.  *)

SentStaysVisible == \A v \in Sent : status[v] \in CustomerVisible

WorkingIsLater ==
  working # NoVersion /\ published # NoVersion => number[working] > number[published]

Pointed == PointersSound /\ LatestSentIsPublished /\ SentStaysVisible /\ WorkingIsLater

LEMMA PointedInit == Init => Pointed
  BY DEF Init, Pointed, PointersSound, LatestSentIsPublished, SentStaysVisible,
         WorkingIsLater, Sent, HasQuote, Created

\* What does not send, create or move the working version leaves the pointers sound.
LEMMA PointedKept ==
  ASSUME Rows, Pointed,
         UNCHANGED <<number, sentDigest, current, working, published, publication>>,
         status' \in [Versions -> VersionStatuses \cup {"NINGUNA"}],
         Created' = Created,
         \A v \in Versions : /\ status[v] \in CustomerVisible => status'[v] \in CustomerVisible
                             /\ v = working => status'[v] = status[v]
  PROVE  Pointed'
  BY DEF Rows, TypeOK, Pointed, PointersSound, LatestSentIsPublished, SentStaysVisible,
         WorkingIsLater, Sent, HasQuote

\* A transition of a version that only the team sees is one of the working version.
LEMMA InternalMovesWorking ==
  ASSUME NEW v \in Versions, NEW to, MayTransition(v, to), status[v] \in EditableVersions
  PROVE  v = working
  BY DEF MayTransition

LEMMA PointedDesk == Rows /\ Pointed /\ Desk => Pointed'
  <1>. SUFFICES ASSUME Rows, Pointed, Desk PROVE Pointed'
    OBVIOUS
  <1>1. CASE Close
    <2>1. Rows'
      BY RowsDesk
    <2>2. Created' = Created
      BY <1>1 DEF Rows, TypeOK, Close, Created, OpenOffers
    <2>3. ASSUME NEW v \in Versions
          PROVE  /\ status[v] \in CustomerVisible => status'[v] \in CustomerVisible
                 /\ v = working => status'[v] = status[v]
      BY <1>1, ConstantsAssumption DEF Rows, TypeOK, Pointed, PointersSound, Close, CustomerVisible
    <2>. QED  BY <1>1, <2>1, <2>2, <2>3, PointedKept DEF Rows, TypeOK, Close, pointers
  <1>2. CASE ~Close
    <2>1. UNCHANGED <<status, number, sentDigest, current, working, published, publication>>
      BY <1>2 DEF Desk, StaffTransition, RequestInformation, MarkInformationReviewed, Reopen,
                  versionVars, pointers
    <2>. QED  BY <2>1, PointedKept DEF Rows, TypeOK, Created
  <1>. QED  BY <1>1, <1>2

LEMMA PointedCreated ==
  ASSUME Rows, Pointed, NEW v \in Versions, NEW c, CreateVersion(v, c)
  PROVE  Pointed'
  <1>1. v \notin Sent /\ v # published /\ v # working
    BY ConstantsAssumption
    DEF CreateVersion, Created, Rows, TypeOK, Pointed, SentStaysVisible, PointersSound,
           CustomerVisible, EditableVersions
  <1>2. /\ status' = [status EXCEPT ![v] = "BORRADOR"]
        /\ current' = v /\ working' = v
        /\ UNCHANGED <<sentDigest, published, publication>>
        /\ \A w \in Versions \ {v} : number'[w] = number[w]
    BY DEF CreateVersion, InsertVersion, Rows, TypeOK
  <1>3. published # NoVersion => number'[v] = number[published] + 1
    <2>. SUFFICES ASSUME published # NoVersion PROVE number'[v] = number[published] + 1
      OBVIOUS
    <2>1. HasQuote
      BY DEF Pointed, PointersSound, Sent, Rows, TypeOK, HasQuote, Created, CustomerVisible
    <2>2. BaseVersion = published
      BY <2>1 DEF CreateVersion, BaseVersion
    <2>. QED  BY <2>1, <2>2 DEF CreateVersion, InsertVersion, Rows, TypeOK
  <1>4. Sent' = Sent
    BY <1>2 DEF Sent
  <1>5. PointersSound'
    BY <1>1, <1>2, <1>4, ConstantsAssumption
    DEF Pointed, PointersSound, Rows, TypeOK, HasQuote, Created, EditableVersions
  <1>6. LatestSentIsPublished' /\ SentStaysVisible'
    BY <1>1, <1>2, <1>4 DEF Pointed, LatestSentIsPublished, SentStaysVisible, PointersSound,
                            Rows, TypeOK, Sent
  <1>7. WorkingIsLater'
    BY <1>1, <1>2, <1>3 DEF WorkingIsLater, Rows, TypeOK
  <1>. QED  BY <1>5, <1>6, <1>7 DEF Pointed

\* Every transition but the publication: the version keeps its number and is not sent.
LEMMA PointedMoved ==
  ASSUME Rows, Rows', Pointed, NEW v \in Versions,
         NEW to \in {"BORRADOR", "EN_REVISION", "RECHAZADA"},
         MayTransition(v, to), Moved(v, to), UNCHANGED <<number, sentDigest, publication>>
  PROVE  Pointed'
  <1>1. v \in Created
    BY DEF MayTransition, CanTransitionVersion, VersionTransitions, Created
  <1>2. to # "RECHAZADA" => v = working
    BY VersionMoves, InternalMovesWorking DEF MayTransition, EditableVersions
  <1>3. /\ status' = [status EXCEPT ![v] = to] /\ current' = v
        /\ published' = published
        /\ working' = IF to \in EditableVersions THEN v ELSE NoVersion
    BY DEF Moved
  <1>4. PointersSound'
    BY <1>1, <1>2, <1>3, ConstantsAssumption
    DEF Pointed, PointersSound, Rows, TypeOK, HasQuote, Created, EditableVersions,
        CustomerVisible, Sent
  <1>5. LatestSentIsPublished' /\ SentStaysVisible'
    BY <1>2, <1>3, ConstantsAssumption
    DEF Pointed, LatestSentIsPublished, SentStaysVisible, PointersSound, Rows, TypeOK, Sent,
        CustomerVisible
  <1>6. WorkingIsLater'
    BY <1>2, <1>3 DEF Pointed, WorkingIsLater, EditableVersions
  <1>. QED  BY <1>4, <1>5, <1>6 DEF Pointed

LEMMA PointedPublished ==
  ASSUME Rows, Pointed, NEW v \in Versions, Publish(v)
  PROVE  Pointed'
  <1>1. status[v] = "EN_REVISION" /\ v = working /\ v \notin Sent /\ v # published
    BY VersionMoves, InternalMovesWorking, ConstantsAssumption
    DEF Publish, MayTransition, EditableVersions, Pointed, PointersSound
  <1>2. digest[v] # 0
    BY <1>1 DEF Rows, RowsWritten, Created
  <1>3. /\ status' = [status EXCEPT ![v] = "ENVIADA"] /\ current' = v
        /\ published' = v /\ working' = NoVersion
        /\ sentDigest' = [sentDigest EXCEPT ![v] = digest[v]]
        /\ publication' = Publications(v) /\ number' = number
    BY DEF Publish, Moved, EditableVersions
  <1>4. Sent' = Sent \cup {v}
    BY <1>2, <1>3 DEF Sent, Rows, TypeOK
  <1>5. PointersSound'
    BY <1>1, <1>3, <1>4, ConstantsAssumption
    DEF Pointed, PointersSound, Rows, TypeOK, HasQuote, Created, CustomerVisible
  <1>6. ASSUME NEW w \in Sent PROVE number[w] <= number[v]
    BY <1>1, <1>6, ConstantsAssumption
    DEF Pointed, LatestSentIsPublished, WorkingIsLater, PointersSound, Rows, TypeOK, Sent
  <1>7. ASSUME NEW w \in Versions
        PROVE  /\ publication'[w] = "PUBLISHED" <=> w = v
               /\ publication'[w] = "NINGUNA" <=> w \notin Sent'
    BY <1>1, <1>3, <1>4, ConstantsAssumption
    DEF Publications, Pointed, LatestSentIsPublished, PointersSound, Rows, TypeOK
  <1>8. LatestSentIsPublished'
    BY <1>3, <1>4, <1>6, <1>7, ConstantsAssumption DEF LatestSentIsPublished, Rows, TypeOK
  <1>9. SentStaysVisible' /\ WorkingIsLater'
    BY <1>3, <1>4 DEF Pointed, SentStaysVisible, WorkingIsLater, Rows, TypeOK, CustomerVisible,
                      Sent
  <1>. QED  BY <1>5, <1>8, <1>9 DEF Pointed

LEMMA PointedAnswered ==
  ASSUME Rows, Rows', Pointed, NEW v \in Versions, Answer(v)
  PROVE  Pointed'
  <1>1. PICK to \in {"ACEPTADA", "RECHAZADA"} :
          /\ status[v] \in OpenOffers
          /\ status' = [status EXCEPT ![v] = to]
          /\ UNCHANGED <<number, sentDigest, current, working, published, publication>>
    BY DEF Answer, Decline, Accept, pointers
  <1>2. Created' = Created
    BY <1>1 DEF Created, Rows, TypeOK, OpenOffers
  <1>3. ASSUME NEW w \in Versions
        PROVE  /\ status[w] \in CustomerVisible => status'[w] \in CustomerVisible
               /\ w = working => status'[w] = status[w]
    BY <1>1, ConstantsAssumption
    DEF Rows, TypeOK, Pointed, PointersSound, CustomerVisible, OpenOffers, EditableVersions
  <1>. QED  BY <1>1, <1>2, <1>3, PointedKept DEF Rows, TypeOK

LEMMA PointedStep == Rows /\ Pointed /\ [Next]_vars => Pointed'
  <1>. SUFFICES ASSUME Rows, Pointed, [Next]_vars PROVE Pointed'
    OBVIOUS
  <1>1. Rows'
    BY RowsStep
  <1>2. CASE UNCHANGED <<status, number, sentDigest, current, working, published, publication>>
    BY <1>2, PointedKept DEF Rows, TypeOK, Created
  <1>3. CASE Desk
    BY <1>3, PointedDesk
  <1>4. ASSUME NEW v \in Versions, NEW c, CreateVersion(v, c) PROVE Pointed'
    BY <1>4, PointedCreated
  <1>5. ASSUME NEW v \in Versions, Submit(v) \/ Reject(v) \/ ReturnToDraft(v) PROVE Pointed'
    BY <1>1, <1>5, PointedMoved DEF Submit, Reject, ReturnToDraft
  <1>6. ASSUME NEW v \in Versions, Publish(v) \/ Answer(v) PROVE Pointed'
    BY <1>1, <1>6, PointedPublished, PointedAnswered
  <1>7. CASE Build
    BY <1>2, <1>4, <1>5, <1>7 DEF Build, ClonePublished, ReplaceDraft, pointers
  <1>8. CASE Approve \/ Convert \/ Time \/ UNCHANGED vars
    <2>1. UNCHANGED <<status, number, sentDigest, current, working, published, publication>>
      BY <1>8 DEF Approve, RequestApproval, DecideApproval, Convert, ConvertToProject, Time,
                  LapseVersion, ExpireApproval, vars, versionVars, pointers
    <2>. QED  BY <2>1, <1>2
  <1>. QED  BY <1>3, <1>5, <1>6, <1>7, <1>8 DEF Next

\* The three pointers of a quote never disagree about what is published and what is being
\* worked on, however many versions there are.
THEOREM PointersCorrect == Spec => []PointersSound
  <1>1. Pointed => PointersSound
    BY DEF Pointed
  <1>. QED  BY <1>1, RowsInit, RowsStep, PointedInit, PointedStep, PTL DEF Spec

\* The published version is the last one sent, with the only standing publication: the
\* portal, which falls back on the highest visible number, and the pointer agree.
THEOREM LatestSentCorrect == Spec => []LatestSentIsPublished
  <1>1. Pointed => LatestSentIsPublished
    BY DEF Pointed
  <1>. QED  BY <1>1, RowsInit, RowsStep, PointedInit, PointedStep, PTL DEF Spec

-----------------------------------------------------------------------------
(* One deal: inductive as it stands, over well-typed rows.                 *)

Won == {"ACEPTADA", "CONVERTIDA_EN_PROYECTO"}

\* What neither answers nor converts leaves the deal alone.
LEMMA DealKept ==
  ASSUME OneDeal, UNCHANGED <<acceptances, projects>>,
         \A v \in Versions : status'[v] = "ACEPTADA" <=> status[v] = "ACEPTADA",
         request' = request \/ (request \notin Won /\ request' \notin Won)
  PROVE  OneDeal'
  BY DEF OneDeal, Won

LEMMA DealDesk == Rows /\ OneDeal /\ Desk => OneDeal'
  <1>. SUFFICES ASSUME Rows, OneDeal, Desk PROVE OneDeal'
    OBVIOUS
  <1>1. UNCHANGED <<acceptances, projects>>
    BY DEF Desk, StaffTransition, RequestInformation, MarkInformationReviewed, Close, Reopen,
           dealVars
  <1>2. request \notin Won /\ request' \notin Won
    BY StaffMoves DEF Desk, StaffTransition, RequestInformation, MarkInformationReviewed,
           Close, Reopen, Won, ClosableRequests, ReopenableRequests
  <1>3. ASSUME NEW v \in Versions PROVE status'[v] = "ACEPTADA" <=> status[v] = "ACEPTADA"
    BY DEF Desk, StaffTransition, RequestInformation, MarkInformationReviewed, Close, Reopen,
           versionVars, Rows, TypeOK, OpenOffers
  <1>. QED  BY <1>1, <1>2, <1>3, DealKept

\* No transition of staff makes a version accepted, or unmakes it.
LEMMA DealMoved ==
  ASSUME Rows, NEW v \in Versions, NEW to \in {"BORRADOR", "EN_REVISION", "ENVIADA", "RECHAZADA"},
         MayTransition(v, to), Moved(v, to), NEW w \in Versions
  PROVE  status'[w] = "ACEPTADA" <=> status[w] = "ACEPTADA"
  BY VersionMoves DEF MayTransition, Moved, Rows, TypeOK

LEMMA DealBuild == Rows /\ OneDeal /\ Build => OneDeal'
  <1>. SUFFICES ASSUME Rows, OneDeal, Build PROVE OneDeal'
    OBVIOUS
  <1>1. request' = request /\ UNCHANGED <<acceptances, projects>>
    BY DEF Build, CreateVersion, ReplaceDraft, ClonePublished, Submit, Reject, dealVars
  <1>2. ASSUME NEW v \in Versions, NEW c, CreateVersion(v, c), NEW w \in Versions
        PROVE  status'[w] = "ACEPTADA" <=> status[w] = "ACEPTADA"
    BY <1>2 DEF CreateVersion, InsertVersion, Created, Rows, TypeOK
  <1>3. ASSUME NEW v \in Versions, Submit(v) \/ Reject(v), NEW w \in Versions
        PROVE  status'[w] = "ACEPTADA" <=> status[w] = "ACEPTADA"
    BY <1>3, DealMoved DEF Submit, Reject
  <1>4. ASSUME NEW w \in Versions PROVE status'[w] = "ACEPTADA" <=> status[w] = "ACEPTADA"
    BY <1>2, <1>3 DEF Build, ClonePublished, ReplaceDraft
  <1>. QED  BY <1>1, <1>4, DealKept

LEMMA DealTransition ==
  ASSUME Rows, OneDeal, NEW v \in Versions, ReturnToDraft(v) \/ Publish(v) \/ Decline(v)
  PROVE  OneDeal'
  <1>1. UNCHANGED <<acceptances, projects>>
    BY DEF ReturnToDraft, Publish, Decline, dealVars
  <1>2. request' = request \/ (request \notin Won /\ request' \notin Won)
    BY DEF ReturnToDraft, Publish, Decline, Won
  <1>3. ASSUME NEW w \in Versions PROVE status'[w] = "ACEPTADA" <=> status[w] = "ACEPTADA"
    <2>1. CASE ReturnToDraft(v) \/ Publish(v)
      BY <2>1, DealMoved DEF ReturnToDraft, Publish
    <2>2. CASE Decline(v)
      BY <2>2 DEF Decline, Rows, TypeOK, OpenOffers
    <2>. QED  BY <2>1, <2>2
  <1>. QED  BY <1>1, <1>2, <1>3, DealKept

LEMMA DealAccepted ==
  ASSUME Rows, OneDeal, NEW v \in Versions, NEW k \in Keys, Accept(v, k)
  PROVE  OneDeal'
  <1>1. acceptances = {} /\ projects = {}
    BY DEF OneDeal, Accept, RequestAccepts, AcceptableRequests, Rows, TypeOK
  <1>2. /\ acceptances' = {[version |-> v, key |-> k]} /\ projects' = {}
        /\ status' = [status EXCEPT ![v] = "ACEPTADA"] /\ request' = "ACEPTADA"
    BY <1>1 DEF Accept
  <1>3. \A w \in Versions : status[w] # "ACEPTADA"
    BY <1>1 DEF OneDeal
  <1>4. {w \in Versions : status'[w] = "ACEPTADA"} = {v}
    BY <1>2, <1>3 DEF Rows, TypeOK
  <1>. QED  BY <1>2, <1>4 DEF OneDeal

LEMMA DealConverted ==
  ASSUME Rows, OneDeal, NEW x \in acceptances, ConvertToProject(x)
  PROVE  OneDeal'
  BY DEF OneDeal, ConvertToProject, Rows, TypeOK, versionVars

LEMMA DealStep == Rows /\ OneDeal /\ [Next]_vars => OneDeal'
  <1>. SUFFICES ASSUME Rows, OneDeal, [Next]_vars PROVE OneDeal'
    OBVIOUS
  <1>1. CASE Approve \/ Time \/ UNCHANGED vars
    <2>1. UNCHANGED <<request, status, acceptances, projects>>
      BY <1>1 DEF Approve, RequestApproval, DecideApproval, Time, LapseVersion,
                  ExpireApproval, vars, versionVars, dealVars
    <2>. QED  BY <2>1, DealKept
  <1>. QED  BY <1>1, DealDesk, DealBuild, DealTransition, DealAccepted, DealConverted
            DEF Next, Answer, Convert

\* A deal is won at most once, by the one accepted version, and only a won deal becomes a
\* project: for any number of versions, employees and repeated calls of the customer.
THEOREM OneDealOnly == Spec => []OneDeal
  <1>1. Init => OneDeal
    BY DEF Init, OneDeal
  <1>. QED  BY <1>1, RowsInit, RowsStep, DealStep, PTL DEF Spec

-----------------------------------------------------------------------------
(* What was sent was authorised. The approvals themselves must have been   *)
(* decided by somebody entitled to, and a version that was sent is out of  *)
(* reach of every operation that writes contents or takes approvals back.  *)

ByRight(a) == /\ a.decidedBy \in Staff
              /\ a.decidedBy # a.requestedBy \/ a.decidedBy \in Overriders

DecidedByRight == \A a \in approvals : a.status = "APPROVED" => ByRight(a)

Entitled == SentAsAuthorised /\ DecidedByRight

\* The row b says of an approval all that an authorisation rests on in the row a.
SameDecision(a, b) ==
  /\ b.version = a.version /\ b.type = a.type /\ b.digest = a.digest /\ b.status = a.status
  /\ b.decidedBy = a.decidedBy /\ b.requestedBy = a.requestedBy

LEMMA SentAsAuthorisedKept ==
  ASSUME SentAsAuthorised, UNCHANGED sentDigest,
         \A v \in Sent : digest'[v] = digest[v] /\ content'[v] = content[v],
         \A a \in approvals : a.version \in Sent /\ a.status = "APPROVED"
                                => \E b \in approvals' : SameDecision(a, b)
  PROVE  SentAsAuthorised'
  <1>1. Sent' = Sent
    BY DEF Sent
  <1>2. ASSUME NEW v \in Sent, NEW type, Authorised(v, type) PROVE Authorised(v, type)'
    <2>1. PICK a \in approvals :
            /\ a.version = v /\ a.type = type /\ a.digest = sentDigest[v]
            /\ a.status = "APPROVED" /\ a.decidedBy \in Staff
            /\ a.decidedBy # a.requestedBy \/ a.decidedBy \in Overriders
      BY <1>2 DEF Authorised
    <2>2. PICK b \in approvals' : SameDecision(a, b)
      BY <2>1
    <2>. QED  BY <2>1, <2>2 DEF SameDecision, Authorised
  <1>. QED  BY <1>1, <1>2 DEF SentAsAuthorised

\* Superseding the live approvals of one version leaves those of the others.
LEMMA SupersededOthers ==
  ASSUME NEW live \in SUBSET Approvals, NEW v, DecidedByRight, live \subseteq approvals
  PROVE  /\ \A a \in live : a.version # v => a \in Superseded(live, v)
         /\ \A b \in Superseded(live, v) : b.status = "APPROVED" => ByRight(b)
  <1>1. ASSUME NEW a \in live, a.version # v PROVE a \in Superseded(live, v)
    BY <1>1 DEF Superseded
  <1>2. ASSUME NEW b \in Superseded(live, v), b.status = "APPROVED" PROVE ByRight(b)
    <2>1. PICK a \in live :
            b = IF a.version = v /\ a.status \in LiveApprovals
                  THEN [a EXCEPT !.status = "SUPERSEDED", !.decidedBy = NoOne] ELSE a
      BY DEF Superseded
    <2>2. [a EXCEPT !.status = "SUPERSEDED", !.decidedBy = NoOne].status = "SUPERSEDED"
      BY DEF Approvals
    <2>3. b = a
      BY <1>2, <2>1, <2>2
    <2>. QED  BY <1>2, <2>3 DEF DecidedByRight
  <1>. QED  BY <1>1, <1>2

LEMMA EntitledBuild == Rows /\ Pointed /\ Entitled /\ Build => Entitled'
  <1>. SUFFICES ASSUME Rows, Pointed, Entitled, NEW v \in Versions,
                       \/ \E c \in Contents : CreateVersion(v, c) \/ ReplaceDraft(v, c)
                       \/ ClonePublished(v)
                       \/ Submit(v)
                       \/ Reject(v)
                PROVE  Entitled'
    BY DEF Build
  <1>1. ASSUME NEW c, CreateVersion(v, c) PROVE Entitled'
    <2>1. v \notin Sent
      BY <1>1 DEF CreateVersion, Created, Pointed, SentStaysVisible, CustomerVisible
    <2>2. /\ UNCHANGED <<sentDigest, approvals>>
          /\ \A w \in Versions \ {v} : digest'[w] = digest[w] /\ content'[w] = content[w]
      BY <1>1 DEF CreateVersion, InsertVersion, Rows, TypeOK
    <2>3. SentAsAuthorised'
      BY <2>1, <2>2, SentAsAuthorisedKept DEF Entitled, Sent, SameDecision
    <2>. QED  BY <2>2, <2>3 DEF Entitled, DecidedByRight, ByRight
  <1>2. ASSUME NEW c \in Contents, ReplaceDraft(v, c) PROVE Entitled'
    <2>1. v \notin Sent
      BY <1>2, ConstantsAssumption DEF ReplaceDraft, Pointed, PointersSound
    <2>2. /\ UNCHANGED sentDigest /\ approvals' = Superseded(approvals, v)
          /\ \A w \in Versions \ {v} : digest'[w] = digest[w] /\ content'[w] = content[w]
      BY <1>2 DEF ReplaceDraft, Rows, TypeOK
    <2>3. /\ \A a \in approvals : a.version # v => a \in approvals'
          /\ DecidedByRight'
      BY <2>2, SupersededOthers DEF Rows, TypeOK, Entitled, DecidedByRight, ByRight
    <2>4. SentAsAuthorised'
      BY <2>1, <2>2, <2>3, SentAsAuthorisedKept DEF Entitled, Sent, SameDecision
    <2>. QED  BY <2>3, <2>4 DEF Entitled
  <1>3. CASE Submit(v) \/ Reject(v)
    <2>1. UNCHANGED <<sentDigest, digest, content, approvals>>
      BY <1>3 DEF Submit, Reject
    <2>2. SentAsAuthorised'
      BY <2>1, SentAsAuthorisedKept DEF Entitled, SameDecision
    <2>. QED  BY <2>1, <2>2 DEF Entitled, DecidedByRight, ByRight
  <1>. QED  BY <1>1, <1>2, <1>3 DEF ClonePublished

LEMMA EntitledReturned ==
  ASSUME Rows, Pointed, Entitled, NEW v \in Versions, ReturnToDraft(v)
  PROVE  Entitled'
  <1>1. v \notin Sent
    BY VersionMoves DEF ReturnToDraft, MayTransition, Pointed, SentStaysVisible, CustomerVisible
  <1>2. UNCHANGED <<sentDigest, digest, content>> /\ approvals' = Superseded(approvals, v)
    BY DEF ReturnToDraft
  <1>3. /\ \A a \in approvals : a.version # v => a \in approvals'
        /\ DecidedByRight'
    BY <1>2, SupersededOthers DEF Rows, TypeOK, Entitled, DecidedByRight, ByRight
  <1>4. SentAsAuthorised'
    BY <1>1, <1>2, <1>3, SentAsAuthorisedKept DEF Entitled, SameDecision
  <1>. QED  BY <1>3, <1>4 DEF Entitled

LEMMA EntitledPublished ==
  ASSUME Rows, Pointed, Entitled, NEW v \in Versions, Publish(v)
  PROVE  Entitled'
  <1>1. /\ sentDigest' = [sentDigest EXCEPT ![v] = digest[v]]
        /\ UNCHANGED <<digest, content, approvals>>
        /\ ~content[v].pending /\ ApprovedToSend(v)
    BY DEF Publish, MayTransition
  <1>2. Sent' \subseteq Sent \cup {v}
    BY <1>1 DEF Sent, Rows, TypeOK
  <1>3. ASSUME NEW type, HasValidApproval(v, type) PROVE Authorised(v, type)'
    BY <1>1, <1>3 DEF HasValidApproval, Authorised, Entitled, DecidedByRight, ByRight, Rows,
                      TypeOK
  <1>4. ASSUME NEW w \in Sent, w # v, NEW type, Authorised(w, type) PROVE Authorised(w, type)'
    BY <1>1, <1>4 DEF Authorised, Rows, TypeOK, Sent
  <1>5. ASSUME NEW w \in Sent'
        PROVE  /\ digest[w] = sentDigest'[w]
               /\ ~content[w].pending
               /\ content[w].discount = "SOBRE_UMBRAL" => Authorised(w, "DISCOUNT")'
               /\ content[w].special => Authorised(w, "SPECIAL_CONCEPT")'
    <2>1. CASE w = v
      BY <1>1, <1>3, <2>1 DEF ApprovedToSend, Rows, TypeOK
    <2>2. CASE w # v
      BY <1>1, <1>2, <1>4, <2>2 DEF Entitled, SentAsAuthorised, Rows, TypeOK, Sent
    <2>. QED  BY <2>1, <2>2
  <1>6. SentAsAuthorised'
    BY <1>1, <1>5 DEF SentAsAuthorised
  <1>. QED  BY <1>1, <1>6 DEF Entitled, DecidedByRight, ByRight

LEMMA EntitledApprove == Rows /\ Pointed /\ Entitled /\ Approve => Entitled'
  <1>. SUFFICES ASSUME Rows, Pointed, Entitled, NEW s \in Staff,
                       \/ \E v \in Versions, type \in ApprovalTypes :
                            RequestApproval(s, v, type)
                       \/ \E a \in approvals, decision \in {"APPROVED", "REJECTED"} :
                            DecideApproval(s, a, decision)
                PROVE  Entitled'
    BY DEF Approve
  <1>1. UNCHANGED <<sentDigest, digest, content>>
    BY DEF RequestApproval, DecideApproval, versionVars
  <1>2. ASSUME NEW v \in Versions, NEW type \in ApprovalTypes, RequestApproval(s, v, type)
        PROVE  Entitled'
    <2>1. v \notin Sent
      BY <1>2 DEF RequestApproval, Pointed, SentStaysVisible, CustomerVisible
    <2>2. PICK other \in SUBSET approvals :
            /\ approvals' = {a \in approvals : ~(a.version = v /\ a.type = type)}
                              \cup Superseded(other, v) \cup {Request(s, v, type)}
      BY <1>2 DEF RequestApproval
    <2>3. \A a \in approvals : a.version \in Sent => a \in approvals'
      BY <2>1, <2>2
    <2>4. Request(s, v, type).status # "APPROVED"
      BY DEF Request
    <2>5. DecidedByRight'
      BY <2>2, <2>4, SupersededOthers DEF Rows, TypeOK, Entitled, DecidedByRight, ByRight
    <2>6. SentAsAuthorised'
      BY <1>1, <2>3, SentAsAuthorisedKept DEF Entitled, SameDecision
    <2>. QED  BY <2>5, <2>6 DEF Entitled
  <1>3. ASSUME NEW a \in approvals, NEW decision \in {"APPROVED", "REJECTED"},
               DecideApproval(s, a, decision)
        PROVE  Entitled'
    <2>1. ByRight([a EXCEPT !.status = decision, !.decidedBy = s])
      BY <1>3 DEF DecideApproval, MayDecide, ByRight, Rows, TypeOK, Approvals
    <2>2. \A b \in approvals : b.status = "APPROVED" => b \in approvals'
      BY <1>3 DEF DecideApproval
    <2>3. DecidedByRight'
      BY <1>3, <2>1 DEF DecideApproval, Entitled, DecidedByRight, ByRight
    <2>4. SentAsAuthorised'
      BY <1>1, <2>2, SentAsAuthorisedKept DEF Entitled, SameDecision
    <2>. QED  BY <2>3, <2>4 DEF Entitled
  <1>. QED  BY <1>2, <1>3

LEMMA EntitledExpired ==
  ASSUME Rows, Entitled, NEW a \in approvals, ExpireApproval(a)
  PROVE  Entitled'
  <1>1. UNCHANGED <<sentDigest, digest, content>>
    BY DEF ExpireApproval, versionVars
  <1>2. SameDecision(a, [a EXCEPT !.expired = TRUE])
    BY DEF SameDecision, Rows, TypeOK, Approvals
  <1>3. ASSUME NEW c \in approvals PROVE \E b \in approvals' : SameDecision(c, b)
    BY <1>2 DEF ExpireApproval, SameDecision
  <1>4. SentAsAuthorised'
    BY <1>1, <1>3, SentAsAuthorisedKept DEF Entitled
  <1>5. DecidedByRight'
    BY <1>2 DEF ExpireApproval, Entitled, DecidedByRight, ByRight, SameDecision
  <1>. QED  BY <1>4, <1>5 DEF Entitled

LEMMA EntitledStep == Rows /\ Pointed /\ Entitled /\ [Next]_vars => Entitled'
  <1>. SUFFICES ASSUME Rows, Pointed, Entitled, [Next]_vars PROVE Entitled'
    OBVIOUS
  <1>1. CASE UNCHANGED <<sentDigest, digest, content, approvals>>
    <2>1. SentAsAuthorised'
      BY <1>1, SentAsAuthorisedKept DEF Entitled, SameDecision
    <2>. QED  BY <1>1, <2>1 DEF Entitled, DecidedByRight, ByRight
  <1>2. CASE Desk
    BY <1>1, <1>2 DEF Desk, StaffTransition, RequestInformation, MarkInformationReviewed,
                      Close, Reopen, versionVars
  <1>3. ASSUME NEW v \in Versions, Answer(v) PROVE Entitled'
    BY <1>1, <1>3 DEF Answer, Decline, Accept
  <1>4. CASE Convert \/ UNCHANGED vars
    BY <1>1, <1>4 DEF Convert, ConvertToProject, vars, versionVars
  <1>5. ASSUME NEW v \in Versions, LapseVersion(v) PROVE Entitled'
    BY <1>1, <1>5 DEF LapseVersion
  <1>. QED  BY <1>2, <1>3, <1>4, <1>5, EntitledBuild, EntitledReturned, EntitledPublished,
               EntitledApprove, EntitledExpired
            DEF Next, Time

\* Whatever customers hold was published as it stands, fully priced, with an approval of
\* exactly that content for its discount and its special concepts, given by somebody
\* entitled to give it: for any number of versions, edits, approvals and employees.
THEOREM SentWasAuthorised == Spec => []SentAsAuthorised
  <1>1. Init => Entitled
    BY DEF Init, Entitled, SentAsAuthorised, Sent, DecidedByRight
  <1>2. Entitled => SentAsAuthorised
    BY DEF Entitled
  <1>. QED  BY <1>1, <1>2, RowsInit, RowsStep, PointedInit, PointedStep, EntitledStep, PTL
            DEF Spec

-----------------------------------------------------------------------------
(* The keys of quote_approvals: inductive over well-typed rows, pair by    *)
(* pair.                                                                   *)

\* Two rows that cannot clash.
Apart(a, b) ==
  a.version = b.version /\ a.type = b.type =>
    /\ a.digest # b.digest
    /\ ~ (a.status \in LiveApprovals /\ b.status \in LiveApprovals)

LEMMA KeysApart == ApprovalKeys <=> \A a, b \in approvals : a # b => Apart(a, b)
  BY DEF ApprovalKeys, Apart

\* A row that replaces another: same key, and live only if the other was.
Follows(b, a) ==
  /\ b.version = a.version /\ b.type = a.type /\ b.digest = a.digest
  /\ b.status \in LiveApprovals => a.status \in LiveApprovals

\* Rows that follow rows that did not clash do not clash.
LEMMA ApartFollows ==
  ASSUME NEW a, NEW b, NEW c, NEW d, Apart(a, b), Follows(c, a), Follows(d, b)
  PROVE  Apart(c, d)
  BY DEF Apart, Follows

\* The row that takes the place of a row when its version's live approvals are superseded.
SupersededRow(a, v) ==
  IF a.version = v /\ a.status \in LiveApprovals
    THEN [a EXCEPT !.status = "SUPERSEDED", !.decidedBy = NoOne] ELSE a

\* Superseding the live approvals of a version leaves no live ones of it.
LEMMA SupersededRows ==
  ASSUME NEW live \in SUBSET Approvals, NEW v, NEW b \in Superseded(live, v)
  PROVE  /\ \E a \in live :
              /\ Follows(b, a)
              /\ b = SupersededRow(a, v)
         /\ b.version = v => b.status \notin LiveApprovals
  <1>1. PICK a \in live : b = SupersededRow(a, v)
    BY DEF Superseded, SupersededRow
  <1>2. CASE a.version = v /\ a.status \in LiveApprovals
    <2>1. /\ b.version = a.version /\ b.type = a.type /\ b.digest = a.digest
          /\ b.status = "SUPERSEDED"
      BY <1>1, <1>2 DEF SupersededRow, Approvals
    <2>. QED  BY <1>1, <2>1 DEF Follows, LiveApprovals
  <1>3. CASE ~(a.version = v /\ a.status \in LiveApprovals)
    BY <1>1, <1>3 DEF Follows, SupersededRow
  <1>. QED  BY <1>2, <1>3

LEMMA KeysSuperseded ==
  ASSUME Rows, ApprovalKeys, NEW v, approvals' = Superseded(approvals, v)
  PROVE  ApprovalKeys'
  <1>1. ASSUME NEW c \in approvals', NEW d \in approvals', c # d PROVE Apart(c, d)
    <2>1. PICK a \in approvals :
            /\ Follows(c, a)
            /\ c = SupersededRow(a, v)
      BY SupersededRows DEF Rows, TypeOK
    <2>2. PICK b \in approvals :
            /\ Follows(d, b)
            /\ d = SupersededRow(b, v)
      BY SupersededRows DEF Rows, TypeOK
    <2>3. a # b
      BY <1>1, <2>1, <2>2
    <2>. QED  BY <2>1, <2>2, <2>3, KeysApart, ApartFollows
  <1>. QED  BY <1>1 DEF ApprovalKeys, Apart

\* One row changes, keeping its key, and comes to be live only if it was.
LEMMA KeysReplaced ==
  ASSUME ApprovalKeys, NEW a \in approvals, NEW b, Follows(b, a),
         approvals' = (approvals \ {a}) \cup {b}
  PROVE  ApprovalKeys'
  <1>1. ASSUME NEW c \in approvals', NEW d \in approvals', c # d PROVE Apart(c, d)
    <2>1. \A x \in approvals : Follows(x, x)
      BY DEF Follows
    <2>. QED  BY <1>1, <2>1, KeysApart, ApartFollows
  <1>. QED  BY <1>1 DEF ApprovalKeys, Apart

LEMMA KeysRequested ==
  ASSUME Rows, ApprovalKeys, NEW s \in Staff, NEW v \in Versions, NEW type \in ApprovalTypes,
         RequestApproval(s, v, type)
  PROVE  ApprovalKeys'
  <1>. DEFINE ofType == {a \in approvals : a.version = v /\ a.type = type}
              same == {a \in ofType : a.digest = digest[v]}
              new == Request(s, v, type)
  <1>1. PICK old \in SUBSET Approvals :
          /\ old \subseteq approvals
          /\ \A a \in old : a.version = v /\ a.type = type /\ a.digest # digest[v]
          /\ approvals' = (approvals \ ofType) \cup Superseded(old, v) \cup {new}
    <2>1. ofType \ same \in SUBSET Approvals
      BY DEF Rows, TypeOK
    <2>. QED  BY <2>1 DEF RequestApproval
  <1>2. new.version = v /\ new.type = type /\ new.digest = digest[v]
    BY DEF Request
  <1>3. ASSUME NEW c \in Superseded(old, v)
        PROVE  /\ c.version = v /\ c.type = type /\ c.digest # digest[v]
               /\ c.status \notin LiveApprovals
    BY <1>1, SupersededRows DEF Follows
  <1>4. ASSUME NEW c \in Superseded(old, v), NEW d \in Superseded(old, v),
               c # d
        PROVE  Apart(c, d)
    <2>1. PICK a \in old :
            /\ Follows(c, a)
            /\ c = SupersededRow(a, v)
      BY <1>1, SupersededRows
    <2>2. PICK b \in old :
            /\ Follows(d, b)
            /\ d = SupersededRow(b, v)
      BY <1>1, SupersededRows
    <2>3. a # b
      BY <1>4, <2>1, <2>2
    <2>. QED  BY <1>1, <2>1, <2>2, <2>3, KeysApart, ApartFollows
  <1>5. ASSUME NEW c \in approvals \ ofType, NEW d \in approvals', c # d
        PROVE  Apart(c, d) /\ Apart(d, c)
    <2>1. CASE d \in approvals
      BY <1>5, <2>1, KeysApart
    <2>2. CASE d \notin approvals
      BY <1>1, <1>2, <1>3, <1>5, <2>2 DEF Apart
    <2>. QED  BY <2>1, <2>2
  <1>6. ASSUME NEW c \in Superseded(old, v) PROVE Apart(c, new) /\ Apart(new, c)
    BY <1>2, <1>3 DEF Apart
  <1>7. ASSUME NEW c \in approvals', NEW d \in approvals', c # d PROVE Apart(c, d)
    BY <1>1, <1>4, <1>5, <1>6, <1>7
  <1>. QED  BY <1>7 DEF ApprovalKeys, Apart

LEMMA KeysStep == Rows /\ ApprovalKeys /\ [Next]_vars => ApprovalKeys'
  <1>. SUFFICES ASSUME Rows, ApprovalKeys, [Next]_vars PROVE ApprovalKeys'
    OBVIOUS
  <1>1. CASE UNCHANGED approvals
    BY <1>1 DEF ApprovalKeys
  <1>2. ASSUME NEW v \in Versions, NEW c, ReplaceDraft(v, c) PROVE ApprovalKeys'
    BY <1>2, KeysSuperseded DEF ReplaceDraft
  <1>3. ASSUME NEW v \in Versions, ReturnToDraft(v) PROVE ApprovalKeys'
    BY <1>3, KeysSuperseded DEF ReturnToDraft
  <1>4. ASSUME NEW s \in Staff, NEW a \in approvals, NEW decision, DecideApproval(s, a, decision)
        PROVE  ApprovalKeys'
    <2>1. Follows([a EXCEPT !.status = decision, !.decidedBy = s], a)
      BY <1>4 DEF DecideApproval, Follows, LiveApprovals, Rows, TypeOK, Approvals
    <2>. QED  BY <1>4, <2>1, KeysReplaced DEF DecideApproval
  <1>5. ASSUME NEW a \in approvals, ExpireApproval(a) PROVE ApprovalKeys'
    <2>1. Follows([a EXCEPT !.expired = TRUE], a)
      BY <1>5 DEF Follows, Rows, TypeOK, Approvals
    <2>. QED  BY <1>5, <2>1, KeysReplaced DEF ExpireApproval
  <1>6. CASE Desk \/ Convert \/ UNCHANGED vars
    BY <1>1, <1>6 DEF Desk, StaffTransition, RequestInformation, MarkInformationReviewed,
                      Close, Reopen, Convert, ConvertToProject, vars
  <1>7. ASSUME NEW v \in Versions,
               \/ \E c : CreateVersion(v, c)
               \/ ClonePublished(v) \/ Submit(v) \/ Reject(v) \/ Publish(v) \/ Answer(v)
               \/ LapseVersion(v)
        PROVE  ApprovalKeys'
    BY <1>1, <1>7 DEF CreateVersion, ClonePublished, Submit, Reject, Publish, Answer, Accept,
                      Decline, LapseVersion
  <1>. QED  BY <1>2, <1>3, <1>4, <1>5, <1>6, <1>7, KeysRequested DEF Next, Build, Approve, Time

\* No sequence of requests, decisions, edits, returns and expirations makes the service
\* insert an approval that quote_approvals already holds, or a second live one.
THEOREM ApprovalKeysHold == Spec => []ApprovalKeys
  <1>1. Init => ApprovalKeys
    BY DEF Init, ApprovalKeys
  <1>. QED  BY <1>1, RowsInit, RowsStep, KeysStep, PTL DEF Spec

-----------------------------------------------------------------------------
(* Answers stand.                                                          *)

\* The step AnswersStand speaks of.
Standing ==
  /\ \A v \in Versions : /\ status[v] \in TerminalVersions => status'[v] = status[v]
                         /\ v \in Sent => sentDigest'[v] = sentDigest[v]
                                          /\ content'[v] = content[v]
  /\ acceptances \subseteq acceptances' /\ projects \subseteq projects'

LEMMA StandingMoved ==
  ASSUME Rows, NEW v \in Versions, NEW to \in {"BORRADOR", "EN_REVISION", "ENVIADA", "RECHAZADA"},
         MayTransition(v, to), Moved(v, to), NEW w \in Versions, status[w] \in TerminalVersions
  PROVE  status'[w] = status[w]
  BY VersionMoves DEF MayTransition, Moved, Rows, TypeOK, TerminalVersions

LEMMA StandingStep == Rows /\ Pointed /\ [Next]_vars => [Standing]_vars
  <1>. SUFFICES ASSUME Rows, Pointed, Next PROVE Standing
    OBVIOUS
  <1>1. acceptances \subseteq acceptances' /\ projects \subseteq projects'
    BY DEF Next, Desk, StaffTransition, RequestInformation, MarkInformationReviewed, Close,
           Reopen, Build, CreateVersion, ReplaceDraft, ClonePublished, Submit, Reject,
           ReturnToDraft, Publish, Answer, Accept, Decline, Approve, RequestApproval,
           DecideApproval, Convert, ConvertToProject, Time, LapseVersion, ExpireApproval,
           dealVars
  <1>2. ASSUME NEW w \in Versions
        PROVE  /\ status[w] \in TerminalVersions => status'[w] = status[w]
               /\ w \in Sent => sentDigest'[w] = sentDigest[w] /\ content'[w] = content[w]
    <2>1. CASE UNCHANGED <<status, sentDigest, content>>
      BY <2>1
    <2>2. CASE Desk
      BY <2>2 DEF Desk, StaffTransition, RequestInformation, MarkInformationReviewed, Close,
                  Reopen, versionVars, Rows, TypeOK, OpenOffers, TerminalVersions
    <2>3. ASSUME NEW v \in Versions, NEW c, CreateVersion(v, c)
          PROVE  /\ status[w] \in TerminalVersions => status'[w] = status[w]
                 /\ w \in Sent => sentDigest'[w] = sentDigest[w] /\ content'[w] = content[w]
      BY <2>3 DEF CreateVersion, InsertVersion, Created, Rows, TypeOK, TerminalVersions,
                  Pointed, SentStaysVisible, CustomerVisible
    <2>4. ASSUME NEW v \in Versions, NEW c, ReplaceDraft(v, c)
          PROVE  /\ status[w] \in TerminalVersions => status'[w] = status[w]
                 /\ w \in Sent => sentDigest'[w] = sentDigest[w] /\ content'[w] = content[w]
      BY <2>4, ConstantsAssumption DEF ReplaceDraft, Rows, TypeOK, Pointed, PointersSound
    <2>5. ASSUME NEW v \in Versions, Submit(v) \/ Reject(v) \/ ReturnToDraft(v)
          PROVE  /\ status[w] \in TerminalVersions => status'[w] = status[w]
                 /\ w \in Sent => sentDigest'[w] = sentDigest[w] /\ content'[w] = content[w]
      BY <2>5, StandingMoved DEF Submit, Reject, ReturnToDraft
    <2>6. ASSUME NEW v \in Versions, Publish(v)
          PROVE  /\ status[w] \in TerminalVersions => status'[w] = status[w]
                 /\ w \in Sent => sentDigest'[w] = sentDigest[w] /\ content'[w] = content[w]
      <3>1. v \notin Sent
        BY <2>6, VersionMoves
        DEF Publish, MayTransition, Pointed, SentStaysVisible, CustomerVisible
      <3>. QED  BY <2>6, <3>1, StandingMoved DEF Publish, Rows, TypeOK
    <2>7. ASSUME NEW v \in Versions, Answer(v)
          PROVE  /\ status[w] \in TerminalVersions => status'[w] = status[w]
                 /\ w \in Sent => sentDigest'[w] = sentDigest[w] /\ content'[w] = content[w]
      BY <2>7 DEF Answer, Accept, Decline, Rows, TypeOK, OpenOffers, TerminalVersions
    <2>8. CASE Approve \/ Convert \/ Time
      BY <2>1, <2>8 DEF Approve, RequestApproval, DecideApproval, Convert, ConvertToProject,
                        Time, LapseVersion, ExpireApproval, versionVars
    <2>. QED  BY <2>2, <2>3, <2>4, <2>5, <2>6, <2>7, <2>8 DEF Next, Build, ClonePublished
  <1>. QED  BY <1>1, <1>2 DEF Standing

\* No operation takes back an answer of the customer, rewrites what was sent, or undoes an
\* acceptance or a project.
THEOREM AnswersAlwaysStand == Spec => AnswersStand
  BY RowsInit, RowsStep, PointedInit, PointedStep, StandingStep, PTL
  DEF Spec, AnswersStand, Standing

-----------------------------------------------------------------------------
(* The expediente implements OfferContract. Two facts about what is not    *)
(* reached are needed: no request stays in the sub-stages nobody writes,   *)
(* and no version is open or accepted without having been sent.            *)

NoSubStage == request \notin {"PENDIENTE_DE_APROBACION", "VENCIDA"}

OpenWasSent == \A v \in Versions : status[v] \in OpenOffers \cup {"ACEPTADA"} => v \in Sent

Offered == NoSubStage /\ OpenWasSent

LEMMA OfferedStep == Rows /\ Pointed /\ Offered /\ [Next]_vars => Offered'
  <1>. SUFFICES ASSUME Rows, Pointed, Offered, [Next]_vars PROVE Offered'
    OBVIOUS
  <1>1. NoSubStage'
    BY StaffMoves
    DEF Offered, NoSubStage, Next, Desk, StaffTransition, RequestInformation,
        MarkInformationReviewed, Close, Reopen, Build, CreateVersion, ReplaceDraft,
        ClonePublished, Submit, Reject, ReturnToDraft, Publish, Answer, Accept, Decline,
        Approve, RequestApproval, DecideApproval, Convert, ConvertToProject, Time,
        LapseVersion, ExpireApproval, vars
  <1>2. ASSUME UNCHANGED sentDigest,
               \A w \in Versions : status'[w] \in OpenOffers \cup {"ACEPTADA"}
                                     => status[w] \in OpenOffers \cup {"ACEPTADA"}
        PROVE  OpenWasSent'
    BY <1>2 DEF Offered, OpenWasSent, Sent
  <1>3. ASSUME UNCHANGED <<status, sentDigest>> PROVE OpenWasSent'
    BY <1>2, <1>3
  <1>4. ASSUME Desk PROVE OpenWasSent'
    BY <1>2, <1>4 DEF Desk, StaffTransition, RequestInformation, MarkInformationReviewed,
                      Close, Reopen, versionVars, Rows, TypeOK, OpenOffers
  <1>5. ASSUME NEW v \in Versions, NEW c, CreateVersion(v, c) PROVE OpenWasSent'
    BY <1>2, <1>5 DEF CreateVersion, InsertVersion, Rows, TypeOK, OpenOffers
  <1>6. ASSUME NEW v \in Versions, Submit(v) \/ Reject(v) \/ ReturnToDraft(v)
        PROVE  OpenWasSent'
    BY <1>2, <1>6 DEF Submit, Reject, ReturnToDraft, Moved, Rows, TypeOK, OpenOffers
  <1>7. ASSUME NEW v \in Versions, Publish(v) PROVE OpenWasSent'
    <2>1. digest[v] # 0
      BY <1>7, VersionMoves DEF Publish, MayTransition, Rows, RowsWritten, Created
    <2>. QED  BY <1>7, <2>1 DEF Publish, Moved, Offered, OpenWasSent, Sent, Rows, TypeOK
  <1>8. ASSUME NEW v \in Versions, Answer(v) PROVE OpenWasSent'
    BY <1>2, <1>8 DEF Answer, Accept, Decline, Rows, TypeOK
  <1>9. ASSUME Approve \/ Convert \/ Time \/ UNCHANGED vars PROVE OpenWasSent'
    BY <1>3, <1>9 DEF Approve, RequestApproval, DecideApproval, Convert, ConvertToProject,
                      Time, LapseVersion, ExpireApproval, vars, versionVars
  <1>10. OpenWasSent'
    BY <1>3, <1>4, <1>5, <1>6, <1>7, <1>8, <1>9
    DEF Next, Build, ClonePublished, ReplaceDraft
  <1>. QED  BY <1>1, <1>10 DEF Offered

\* The proposals as the contract sees them.
OfferMap == [v \in Versions |-> OfferOf(v)]

\* A step that sends nothing and answers nothing, and does not move the deal, is none.
LEMMA ContractStutter ==
  ASSUME Rows, Deal' = Deal, published' = published, UNCHANGED sentDigest,
         \A v \in Sent : status'[v] = status[v]
  PROVE  UNCHANGED Contract!vars
  <1>1. \A v \in Versions : OfferOf(v)' = OfferOf(v)
    BY DEF OfferOf, Sent
  <1>. QED  BY <1>1 DEF Contract!vars

\* The answer to, or the withdrawal of, the published proposal.
LEMMA OfferTaken ==
  ASSUME Rows, NEW v \in Versions, v \in Sent, NEW to \in {"ACEPTADA", "RECHAZADA"},
         status' = [status EXCEPT ![v] = to], UNCHANGED sentDigest
  PROVE  OfferMap' = [OfferMap EXCEPT ![v] = IF to = "ACEPTADA" THEN to ELSE "RETIRADA"]
  <1>1. OfferOf(v)' = IF to = "ACEPTADA" THEN to ELSE "RETIRADA"
    BY DEF OfferOf, Sent, Rows, TypeOK, OpenOffers
  <1>2. ASSUME NEW w \in Versions, w # v PROVE OfferOf(w)' = OfferOf(w)
    BY <1>2 DEF OfferOf, Sent, Rows, TypeOK
  <1>. QED  BY <1>1, <1>2 DEF OfferMap

LEMMA ContractDesk == Rows /\ Pointed /\ Offered /\ Desk => Contract!Next \/ UNCHANGED Contract!vars
  <1>. SUFFICES ASSUME Rows, Pointed, Offered, Desk
                PROVE  Contract!Next \/ UNCHANGED Contract!vars
    OBVIOUS
  <1>1. ASSUME NEW to, StaffTransition(to) PROVE Contract!Discard \/ UNCHANGED Contract!vars
    <2>1. \A v \in Versions : OfferOf(v)' = OfferOf(v)
      BY <1>1 DEF StaffTransition, versionVars, OfferOf, Sent
    <2>2. published' = published
      BY <1>1 DEF StaffTransition, pointers
    <2>3. Deal = "ABIERTO" /\ Deal' \in {"ABIERTO", "CERRADO"}
      BY <1>1, StaffMoves DEF StaffTransition, Deal, DeclinableRequests
    <2>. QED  BY <2>1, <2>2, <2>3 DEF Contract!Discard, Contract!vars
  <1>2. CASE RequestInformation \/ MarkInformationReviewed
    <2>1. Deal' = Deal
      BY <1>2 DEF RequestInformation, MarkInformationReviewed, Deal, DeclinableRequests
    <2>. QED  BY <1>2, <2>1, ContractStutter
              DEF RequestInformation, MarkInformationReviewed, versionVars, pointers
  <1>3. CASE Close
    <2>1. Deal \in {"ABIERTO", "EN_OFERTA"} /\ Deal' = "CERRADO"
      BY <1>3 DEF Close, Deal, ClosableRequests, DeclinableRequests
    <2>2. ASSUME NEW v \in Versions
          PROVE  OfferOf(v)' = IF v = published /\ OfferOf(v) = "OFRECIDA" THEN "RETIRADA"
                               ELSE OfferOf(v)
      BY <1>3, ConstantsAssumption DEF Close, OfferOf, Sent, OpenOffers, Rows, TypeOK, Pointed,
                          PointersSound
    <2>. QED  BY <1>3, <2>1, <2>2 DEF Close, pointers, Contract!Next, Contract!Close
  <1>4. CASE Reopen
    <2>1. Deal = "CERRADO" /\ Deal' = "ABIERTO"
      BY <1>4 DEF Reopen, Deal, ReopenableRequests, DeclinableRequests, Offered, NoSubStage
    <2>2. \A v \in Versions : OfferOf(v)' = OfferOf(v)
      BY <1>4 DEF Reopen, versionVars, OfferOf, Sent
    <2>. QED  BY <1>4, <2>1, <2>2 DEF Reopen, pointers, Contract!Next, Contract!Reopen
  <1>. QED  BY <1>1, <1>2, <1>3, <1>4 DEF Desk, Contract!Next

LEMMA ContractBuild ==
  ASSUME Rows, Pointed, Offered, NEW v \in Versions,
         \/ \E c : CreateVersion(v, c) \/ ReplaceDraft(v, c)
         \/ ClonePublished(v) \/ Submit(v) \/ Reject(v) \/ ReturnToDraft(v)
  PROVE  Contract!Next \/ UNCHANGED Contract!vars
  <1>1. Deal' = Deal /\ published' = published /\ UNCHANGED sentDigest
    BY DEF Deal, CreateVersion, ReplaceDraft, ClonePublished, Submit, Reject, ReturnToDraft,
           Moved, pointers
  <1>2. ASSUME NEW c, CreateVersion(v, c) PROVE UNCHANGED Contract!vars
    BY <1>1, <1>2, ContractStutter
    DEF CreateVersion, InsertVersion, Created, Rows, TypeOK, Pointed, SentStaysVisible,
        CustomerVisible, Sent
  <1>3. ASSUME NEW c, ReplaceDraft(v, c) PROVE UNCHANGED Contract!vars
    BY <1>1, <1>3, ContractStutter DEF ReplaceDraft
  <1>4. ASSUME NEW to \in {"BORRADOR", "EN_REVISION", "RECHAZADA"}, MayTransition(v, to),
               Moved(v, to), v \notin Sent
        PROVE  UNCHANGED Contract!vars
    BY <1>1, <1>4, ContractStutter DEF Moved, Rows, TypeOK, Sent
  <1>5. CASE Submit(v) \/ ReturnToDraft(v)
    <2>1. v \notin Sent
      BY <1>5, VersionMoves
      DEF Submit, ReturnToDraft, MayTransition, Pointed, SentStaysVisible, CustomerVisible
    <2>. QED  BY <1>4, <1>5, <2>1 DEF Submit, ReturnToDraft
  <1>6. CASE Reject(v) /\ v \in Sent
    <2>1. v = published /\ OfferOf(v) = "OFRECIDA"
      BY <1>6, VersionMoves, ConstantsAssumption
      DEF Reject, MayTransition, Pointed, PointersSound, SentStaysVisible, CustomerVisible,
          OfferOf, OpenOffers
    <2>2. OfferMap' = [OfferMap EXCEPT ![v] = "RETIRADA"]
      BY <1>6, OfferTaken DEF Reject, Moved
    <2>3. Contract!Withdraw(v)
      BY <1>1, <2>1, <2>2 DEF Contract!Withdraw, OfferMap
    <2>. QED  BY <2>3 DEF Contract!Next
  <1>. QED  BY <1>2, <1>3, <1>4, <1>5, <1>6 DEF Reject, ClonePublished

LEMMA ContractPublished ==
  ASSUME Rows, Pointed, NEW v \in Versions, Publish(v)
  PROVE  Contract!Next
  <1>1. v \notin Sent /\ digest[v] # 0
    BY VersionMoves DEF Publish, MayTransition, Rows, RowsWritten, Created, Pointed,
                        SentStaysVisible, CustomerVisible
  <1>2. OfferOf(v) = "INEDITA" /\ OfferOf(v)' = "OFRECIDA"
    BY <1>1 DEF OfferOf, Sent, Publish, Moved, Rows, TypeOK, OpenOffers
  <1>3. ASSUME NEW w \in Versions, w # v PROVE OfferOf(w)' = OfferOf(w)
    BY <1>3 DEF OfferOf, Sent, Publish, Moved, Rows, TypeOK
  <1>4. OfferMap' = [OfferMap EXCEPT ![v] = "OFRECIDA"]
    BY <1>2, <1>3 DEF OfferMap
  <1>5. published' = v
    BY DEF Publish, Moved
  <1>6. Deal' = Deal \/ (Deal = "ABIERTO" /\ Deal' = "EN_OFERTA")
    BY DEF Publish, Deal, DeclinableRequests
  <1>7. Contract!Offer(v)
    BY <1>2, <1>4, <1>5, <1>6 DEF Contract!Offer, OfferMap
  <1>. QED  BY <1>7 DEF Contract!Next

LEMMA ContractAnswered ==
  ASSUME Rows, Pointed, Offered, NEW v \in Versions, Answer(v)
  PROVE  Contract!Next
  <1>1. v \in Sent /\ v = published /\ OfferOf(v) = "OFRECIDA" /\ published' = published
    <2>1. status[v] \in OpenOffers /\ OfferedToCustomer(v) /\ published' = published
      BY DEF Answer, Accept, Decline, pointers
    <2>2. v \in Sent
      BY <2>1 DEF Offered, OpenWasSent
    <2>3. v = published
      BY <2>1, <2>2 DEF OfferedToCustomer, Pointed, LatestSentIsPublished
    <2>. QED  BY <2>1, <2>2, <2>3 DEF OfferOf, OpenOffers
  <1>2. Deal = "EN_OFERTA"
    BY DEF Answer, Accept, Decline, RequestAccepts, AcceptableRequests, DeclinableRequests,
           Offered, NoSubStage, Deal
  <1>3. CASE Decline(v)
    <2>1. OfferMap' = [OfferMap EXCEPT ![v] = "RETIRADA"]
      BY <1>1, <1>3, OfferTaken DEF Decline
    <2>2. Deal' = Deal
      BY <1>3 DEF Decline, Deal, DeclinableRequests
    <2>3. Contract!Withdraw(v)
      BY <1>1, <2>1, <2>2 DEF Contract!Withdraw, OfferMap
    <2>. QED  BY <2>3 DEF Contract!Next
  <1>4. ASSUME NEW k \in Keys, Accept(v, k) PROVE Contract!Next
    <2>1. OfferMap' = [OfferMap EXCEPT ![v] = "ACEPTADA"]
      BY <1>1, <1>4, OfferTaken DEF Accept
    <2>2. Deal' = "GANADO"
      BY <1>4 DEF Accept, Deal, DeclinableRequests
    <2>3. Contract!Accept(v)
      BY <1>1, <1>2, <2>1, <2>2 DEF Contract!Accept, OfferMap
    <2>. QED  BY <2>3 DEF Contract!Next
  <1>. QED  BY <1>3, <1>4 DEF Answer

LEMMA ContractConverted ==
  ASSUME OneDeal, NEW x \in acceptances, ConvertToProject(x)
  PROVE  Contract!Next
  <1>1. Deal = "GANADO" /\ Deal' = "PROYECTO"
    BY DEF OneDeal, ConvertToProject, Deal, DeclinableRequests
  <1>2. \A v \in Versions : OfferOf(v)' = OfferOf(v)
    BY DEF ConvertToProject, versionVars, OfferOf, Sent
  <1>. QED  BY <1>1, <1>2 DEF ConvertToProject, pointers, Contract!Next, Contract!Convert

LEMMA ContractStep ==
  Rows /\ Pointed /\ OneDeal /\ Offered /\ [Next]_vars => [Contract!Next]_(Contract!vars)
  <1>. SUFFICES ASSUME Rows, Pointed, OneDeal, Offered, [Next]_vars
                PROVE  Contract!Next \/ UNCHANGED Contract!vars
    OBVIOUS
  <1>1. CASE Approve \/ Time \/ UNCHANGED vars
    <2>1. UNCHANGED <<request, status, published, sentDigest>>
      BY <1>1 DEF Approve, RequestApproval, DecideApproval, Time, LapseVersion,
                  ExpireApproval, vars, versionVars, pointers
    <2>2. Deal' = Deal
      BY <2>1 DEF Deal
    <2>. QED  BY <2>1, <2>2, ContractStutter
  <1>. QED  BY <1>1, ContractDesk, ContractBuild, ContractPublished, ContractAnswered,
               ContractConverted
            DEF Next, Build, Convert

\* Whatever the sub-stages, drafts, approvals and pointers do, what a customer can observe
\* of an expediente is a behaviour of the contract.
THEOREM Refinement == Spec => ImplementsContract
  <1>1. Init => Contract!Init
    BY DEF Init, Contract!Init, Deal, DeclinableRequests, OfferOf, Sent
  <1>2. Init => OneDeal /\ Offered
    BY DEF Init, OneDeal, Offered, NoSubStage, OpenWasSent, OpenOffers
  <1>. QED  BY <1>1, <1>2, RowsInit, RowsStep, PointedInit, PointedStep, DealStep, OfferedStep,
               ContractStep, PTL
            DEF Spec, ImplementsContract, Contract!Spec

-----------------------------------------------------------------------------
(* The stage of an expediente.                                             *)

\* Without pointers a request that is not converted is rejected or still open: a won request
\* has an accepted version, which was sent, and so a published pointer.
LEMMA StageOfRequest ==
  ASSUME Rows, Pointed, OneDeal, Offered, request # "CONVERTIDA_EN_PROYECTO",
         working = NoVersion, published = NoVersion
  PROVE  Unclassified \notin RequestOnlyStages
  <1>1. request # "ACEPTADA"
    <2>. SUFFICES ASSUME request = "ACEPTADA" PROVE FALSE
      OBVIOUS
    <2>1. PICK x \in acceptances : TRUE
      BY DEF OneDeal
    <2>2. x.version \in {v \in Versions : status[v] = "ACEPTADA"}
      BY DEF OneDeal
    <2>3. x.version \in Sent
      BY <2>2 DEF Offered, OpenWasSent
    <2>. QED  BY <2>2, <2>3 DEF Pointed, LatestSentIsPublished
  <1>2. request \in RequestStatuses \ {"CONVERTIDA_EN_PROYECTO", "ACEPTADA",
                                        "PENDIENTE_DE_APROBACION", "VENCIDA"}
    BY <1>1 DEF Rows, TypeOK, Offered, NoSubStage
  <1>. QED  BY <1>2 DEF RequestOnlyStages, OpenRequestStages, Unclassified, RequestStatuses,
                        BuildableRequests

\* What is published is visible to the customer, and each such status has a stage.
LEMMA StageOfPublished ==
  ASSUME Pointed, published # NoVersion
  PROVE  Unclassified \notin PublishedStages
  <1>1. status[published] \in CustomerVisible
    BY DEF Pointed, PointersSound
  <1>. QED  BY <1>1 DEF PublishedStages, Unclassified, CustomerVisible, OpenOffers

\* resolveQuoteWorkspaceProjection never throws "Unclassified quote workspace projection
\* combination", whatever sequence of operations the expediente went through.
THEOREM EveryStageClassified == Spec => []AlwaysClassified
  <1>1. Rows /\ Pointed /\ OneDeal /\ Offered => AlwaysClassified
    <2>. SUFFICES ASSUME Rows, Pointed, OneDeal, Offered PROVE AlwaysClassified
      OBVIOUS
    <2>1. Unclassified \notin WorkingStages
      BY DEF WorkingStages, Unclassified
    <2>. QED  BY <2>1, StageOfRequest, StageOfPublished DEF AlwaysClassified, Stages, Unclassified
  <1>2. Init => OneDeal /\ Offered
    BY DEF Init, OneDeal, Offered, NoSubStage, OpenWasSent, OpenOffers
  <1>. QED  BY <1>1, <1>2, RowsInit, RowsStep, PointedInit, PointedStep, DealStep, OfferedStep,
               PTL
            DEF Spec

-----------------------------------------------------------------------------
(* The amounts of a version.                                               *)

LEMMA Scales ==
  /\ MaxMoney \in Nat /\ MaxMoney > 0 /\ MaxQuantity \in Nat /\ MaxQuantity > 0
  /\ QuantityScale \in Nat /\ QuantityScale > 0 /\ BasisScale \in Nat /\ BasisScale > 0
  BY PricingAssumption

-----------------------------------------------------------------------------
(* Rounding                                                                *)

LEMMA Division ==
  ASSUME NEW n \in Nat, NEW d \in Nat, d > 0
  PROVE  /\ n \div d \in Nat /\ n % d \in Nat /\ n % d < d
         /\ n = d * (n \div d) + (n % d)
  OBVIOUS

LEMMA Product ==
  ASSUME NEW a \in Nat, NEW b \in Nat
  PROVE  a * b \in Nat
  OBVIOUS

LEMMA ProductGrows ==
  ASSUME NEW a \in Nat, NEW b \in Nat, NEW c \in Nat, b <= c
  PROVE  a * b <= a * c
  OBVIOUS

\* Rounding half up: the nearest, and of two the greater.
THEOREM RoundsToNearest ==
  ASSUME NEW n \in Nat, NEW d \in Nat, d > 0
  PROVE  /\ RoundHalfUp(n, d) \in Nat
         /\ 2 * (d * RoundHalfUp(n, d)) <= 2 * n + d
         /\ 2 * n < 2 * (d * RoundHalfUp(n, d)) + d
<1> DEFINE q == n \div d
           r == n % d
<1>1. q \in Nat /\ r \in Nat /\ r < d /\ n = d * q + r
  BY Division
<1>2. RoundHalfUp(n, d) = IF 2 * r >= d THEN q + 1 ELSE q
  BY <1>1 DEF RoundHalfUp
<1>3. d * (q + 1) = d * q + d /\ d * q \in Nat
  BY <1>1
<1> HIDE DEF q, r
<1> DEFINE p == d * q
<1>4. p \in Nat /\ n = p + r /\ d * q = p /\ d * (q + 1) = p + d
  BY <1>1, <1>3
<1> HIDE DEF p
<1>5. CASE 2 * r >= d
  BY <1>1, <1>2, <1>4, <1>5
<1>6. CASE 2 * r < d
  BY <1>1, <1>2, <1>4, <1>6
<1> QED BY <1>1, <1>5, <1>6

\* A discount never exceeds the amount: subtractMoney does not throw.
THEOREM PercentageBounded ==
  ASSUME NEW amount \in Nat, NEW rate \in Rates
  PROVE  PercentageOf(amount, rate) \in Nat /\ PercentageOf(amount, rate) <= amount
<1> DEFINE n == amount * rate
           p == RoundHalfUp(n, BasisScale)
<1>1. BasisScale \in Nat /\ BasisScale > 0 /\ rate \in Nat /\ rate <= BasisScale
  BY Scales DEF Rates
<1>2. n \in Nat /\ n <= amount * BasisScale
  BY <1>1, Product, ProductGrows
<1>3. p \in Nat /\ 2 * (BasisScale * p) <= 2 * n + BasisScale
  BY <1>1, <1>2, RoundsToNearest
<1>4. p <= amount
  <2>1. SUFFICES ASSUME p >= amount + 1 PROVE FALSE
    BY <1>3
  <2>2. BasisScale * (amount + 1) <= BasisScale * p
    BY <1>1, <1>3, <2>1, ProductGrows
  <2>3. BasisScale * (amount + 1) = amount * BasisScale + BasisScale
    BY <1>1
  <2> DEFINE x == amount * BasisScale
             y == BasisScale * p
  <2>4. x \in Nat /\ y \in Nat
    BY <1>1, <1>3, Product
  <2>5. x + BasisScale <= y /\ 2 * y <= 2 * n + BasisScale /\ n <= x
    BY <1>2, <1>3, <2>2, <2>3
  <2> HIDE DEF x, y, n, p
  <2> QED BY <1>1, <1>2, <2>4, <2>5
<1> QED BY <1>3, <1>4 DEF PercentageOf

-----------------------------------------------------------------------------
(* A line                                                                  *)

LEMMA LineTypes ==
  ASSUME NEW line \in Lines
  PROVE  /\ line.price \in Nat /\ line.quantity \in Nat
         /\ line.discount \in Rates /\ line.discount \in Nat /\ line.tax \in Rates
<1>1. line \in [kind : Kinds, price : Money, quantity : 1..MaxQuantity, discount : Rates, tax : Rates]
  BY DEF Lines
<1>2. Money \subseteq Nat /\ Rates \subseteq Nat /\ 1..MaxQuantity \subseteq Nat
  BY Scales DEF Money, Rates
<1> QED BY <1>1, <1>2

LEMMA TotalsTypes ==
  ASSUME NEW t \in Totals
  PROVE  /\ t.subtotal \in Nat /\ t.discount \in Nat /\ t.taxable \in Nat
         /\ t.tax \in Nat /\ t.total \in Nat
  BY Scales DEF Totals, Money

\* What a line is worth: its amounts agree, and its discount is the one asked for to half a cent.
LEMMA LineAmounts ==
  ASSUME NEW line \in Lines
  PROVE  LET t == LineTotals(line)
             n == t.subtotal * line.discount
         IN /\ t.subtotal \in Nat /\ t.discount \in Nat /\ t.taxable \in Nat /\ t.tax \in Nat
            /\ t.subtotal = t.discount + t.taxable /\ t.total = t.taxable + t.tax
            /\ 2 * (BasisScale * t.discount) <= 2 * n + BasisScale
            /\ 2 * n <= 2 * (BasisScale * t.discount) + BasisScale
<1> DEFINE subtotal == RoundHalfUp(line.price * line.quantity, QuantityScale)
           discount == PercentageOf(subtotal, line.discount)
           taxable == subtotal - discount
           tax == PercentageOf(taxable, line.tax)
           n == subtotal * line.discount
<1>1. /\ line.price \in Nat /\ line.quantity \in Nat
      /\ line.discount \in Rates /\ line.discount \in Nat /\ line.tax \in Rates
  BY LineTypes
<1>2. subtotal \in Nat
  BY <1>1, Scales, Product, RoundsToNearest
<1> HIDE DEF subtotal
<1>3. discount \in Nat /\ discount <= subtotal /\ n \in Nat
  BY <1>1, <1>2, PercentageBounded, Product
<1>4. /\ 2 * (BasisScale * discount) <= 2 * n + BasisScale
      /\ 2 * n < 2 * (BasisScale * discount) + BasisScale
  BY <1>3, Scales, RoundsToNearest DEF PercentageOf
<1>5. taxable \in Nat /\ subtotal = discount + taxable
  BY <1>2, <1>3
<1>6. tax \in Nat
  BY <1>1, <1>5, PercentageBounded
<1>7. LineTotals(line) = [subtotal |-> subtotal, discount |-> discount, taxable |-> taxable,
                          tax |-> tax, total |-> taxable + tax]
  BY DEF LineTotals, subtotal
<1>8. BasisScale * discount \in Nat
  BY <1>3, Scales, Product
<1> HIDE DEF discount, taxable, tax, n
<1>9. 2 * n <= 2 * (BasisScale * discount) + BasisScale
  BY <1>3, <1>4, <1>8, Scales
<1> QED BY <1>2, <1>3, <1>4, <1>5, <1>6, <1>7, <1>9 DEF n

-----------------------------------------------------------------------------
(* A version                                                               *)

\* The lines asked for no more than the highest rate of their subtotals.
PricingInv ==
  /\ TotalsAgree /\ DiscountIsFair
  /\ lines \in Nat /\ asked \in Nat /\ topRate \in Rates
  /\ asked <= topRate * totals.subtotal

LEMMA PricingStep ==
  ASSUME PricingInv, NEW line \in Lines, AddLine(line)
  PROVE  PricingInv'
<1> DEFINE t == LineTotals(line)
           n == t.subtotal * line.discount
<1>1. /\ t.subtotal \in Nat /\ t.discount \in Nat /\ t.taxable \in Nat /\ t.tax \in Nat
      /\ t.subtotal = t.discount + t.taxable /\ t.total = t.taxable + t.tax
      /\ 2 * (BasisScale * t.discount) <= 2 * n + BasisScale
      /\ 2 * n <= 2 * (BasisScale * t.discount) + BasisScale
  BY LineAmounts
<1>2. /\ Plus(totals, t) \in Totals /\ totals' = Plus(totals, t) /\ lines' = lines + 1
      /\ asked' = asked + n
      /\ topRate' = IF line.discount > topRate THEN line.discount ELSE topRate
  BY DEF AddLine
<1>3. /\ totals.subtotal \in Nat /\ totals.discount \in Nat /\ totals.taxable \in Nat
      /\ totals.tax \in Nat /\ lines \in Nat /\ asked \in Nat /\ topRate \in Nat
      /\ line.discount \in Rates /\ line.discount \in Nat /\ BasisScale \in Nat
  BY Scales, LineTypes, TotalsTypes DEF PricingInv, TotalsAgree, Rates
<1>4. n \in Nat
  BY <1>1, <1>3, Product
<1>5. TotalsAgree'
  <2>1. totals.subtotal = totals.discount + totals.taxable /\ totals.total = totals.taxable + totals.tax
    BY DEF PricingInv, TotalsAgree
  <2>2. /\ totals' \in Totals
        /\ totals'.subtotal = totals.subtotal + t.subtotal
        /\ totals'.discount = totals.discount + t.discount
        /\ totals'.taxable = totals.taxable + t.taxable
        /\ totals'.tax = totals.tax + t.tax /\ totals'.total = totals.total + t.total
    BY <1>2 DEF Plus
  <2> HIDE DEF t
  <2> QED BY <1>1, <1>3, <2>1, <2>2 DEF TotalsAgree
<1>6. DiscountIsFair'
  <2> DEFINE given == BasisScale * totals.discount
             more == BasisScale * t.discount
             slack == lines * BasisScale
  <2>1. given \in Nat /\ more \in Nat /\ slack \in Nat
    BY <1>1, <1>3, Product
  <2>2. /\ BasisScale * totals'.discount = given + more
        /\ lines' * BasisScale = slack + BasisScale
    BY <1>1, <1>2, <1>3 DEF Plus
  <2>3. 2 * (given - asked) <= slack /\ 2 * (asked - given) <= slack
    BY DEF PricingInv, DiscountIsFair
  <2>4. 2 * more <= 2 * n + BasisScale /\ 2 * n <= 2 * more + BasisScale
    BY <1>1
  <2> HIDE DEF given, more, slack, n
  <2>5. /\ 2 * ((given + more) - (asked + n)) <= slack + BasisScale
        /\ 2 * ((asked + n) - (given + more)) <= slack + BasisScale
    BY <1>3, <1>4, <2>1, <2>3, <2>4
  <2> QED BY <1>2, <2>2, <2>5 DEF DiscountIsFair
<1>7. /\ lines' \in Nat /\ asked' \in Nat
      /\ topRate' \in Rates /\ topRate' \in Nat
      /\ topRate <= topRate' /\ line.discount <= topRate'
  BY <1>2, <1>3, <1>4 DEF PricingInv
<1>8. asked' <= topRate' * totals'.subtotal
  <2>1. asked <= topRate' * totals.subtotal
    <3>1. totals.subtotal * topRate <= totals.subtotal * topRate'
      BY <1>3, <1>7, ProductGrows
    <3>2. asked <= totals.subtotal * topRate
      BY <1>3 DEF PricingInv
    <3>3. /\ totals.subtotal * topRate \in Nat /\ totals.subtotal * topRate' \in Nat
          /\ totals.subtotal * topRate' = topRate' * totals.subtotal
      BY <1>3, <1>7, Product
    <3> QED BY <1>3, <3>1, <3>2, <3>3
  <2>2. n <= topRate' * t.subtotal
    <3>1. t.subtotal * line.discount <= t.subtotal * topRate'
      BY <1>1, <1>3, <1>7, ProductGrows
    <3>2. t.subtotal * topRate' = topRate' * t.subtotal
      BY <1>1, <1>7
    <3> QED BY <3>1, <3>2
  <2>3. topRate' * totals'.subtotal = topRate' * totals.subtotal + topRate' * t.subtotal
    BY <1>1, <1>2, <1>3, <1>7 DEF Plus
  <2>4. topRate' * totals.subtotal \in Nat /\ topRate' * t.subtotal \in Nat
    BY <1>1, <1>3, <1>7, Product
  <2> HIDE DEF n
  <2> QED BY <1>2, <1>3, <1>4, <2>1, <2>2, <2>3, <2>4
<1> QED BY <1>5, <1>6, <1>7, <1>8 DEF PricingInv

LEMMA PricingInvariant == TotalsSpec => []PricingInv
<1>1. TotalsInit => PricingInv
  <2>1. 0 \in Money /\ 0 \in Rates
    BY Scales DEF Money, Rates
  <2> QED BY <2>1, Scales DEF TotalsInit, NoTotals, PricingInv, TotalsAgree, Totals, DiscountIsFair
<1>2. PricingInv /\ [TotalsNext]_totalsVars => PricingInv'
  <2>1. ASSUME PricingInv, UNCHANGED totalsVars PROVE PricingInv'
    BY <2>1 DEF totalsVars, PricingInv, TotalsAgree, DiscountIsFair
  <2> QED BY <2>1, PricingStep DEF TotalsNext
<1> QED BY <1>1, <1>2, PTL DEF TotalsSpec

\* Subtotal, discount, taxable, tax and total of a version agree and fit, whatever its lines.
THEOREM TotalsAgreeAlways == TotalsSpec => []TotalsAgree
<1>1. PricingInv => TotalsAgree
  BY DEF PricingInv
<1> QED BY <1>1, PricingInvariant, PTL

\* The discount of a version is the one its lines asked for, to half a cent a line.
THEOREM DiscountIsFairAlways == TotalsSpec => []DiscountIsFair
<1>1. PricingInv => DiscountIsFair
  BY DEF PricingInv
<1> QED BY <1>1, PricingInvariant, PTL

\* A version whose lines are all within the threshold exceeds it by rounding only.
THEOREM ThresholdExceededByRounding == TotalsSpec => []ThresholdByRounding
<1>1. PricingInv => ThresholdByRounding
  <2> SUFFICES ASSUME PricingInv, NEW threshold \in Rates, topRate <= threshold
               PROVE  2 * (BasisScale * totals.discount)
                        <= 2 * (threshold * totals.subtotal) + lines * BasisScale
    BY DEF ThresholdByRounding
  <2>1. /\ totals.subtotal \in Nat /\ totals.discount \in Nat /\ lines \in Nat /\ asked \in Nat
        /\ topRate \in Nat /\ threshold \in Nat /\ BasisScale \in Nat
    BY Scales DEF PricingInv, TotalsAgree, Totals, Money, Rates
  <2> DEFINE given == BasisScale * totals.discount
             most == totals.subtotal * threshold
             slack == lines * BasisScale
  <2>2. given \in Nat /\ most \in Nat /\ slack \in Nat /\ totals.subtotal * topRate \in Nat
    BY <2>1, Product
  <2>3. totals.subtotal * topRate <= most
    BY <2>1, ProductGrows
  <2>4. asked <= totals.subtotal * topRate
    BY <2>1 DEF PricingInv
  <2>5. 2 * (given - asked) <= slack /\ threshold * totals.subtotal = most
    BY <2>1 DEF PricingInv, DiscountIsFair
  <2> HIDE DEF given, most, slack
  <2>6. 2 * given <= 2 * most + slack
    BY <2>1, <2>2, <2>3, <2>4, <2>5
  <2> QED BY <2>5, <2>6 DEF given, slack
<1> QED BY <1>1, PricingInvariant, PTL

\* The gate of a sending (performQuoteVersionTransition): who needs no approval of a discount is
\* less than a basis point over the threshold, and who needs it has passed it.
THEOREM GateIsOnePointWide == TotalsSpec => []GateWithinOnePoint
<1>1. PricingInv => GateWithinOnePoint
  <2> SUFFICES ASSUME PricingInv, NEW threshold \in Rates
               PROVE  IF NeedsApproval(totals, threshold)
                      THEN BasisScale * totals.discount >= (threshold + 1) * totals.subtotal
                      ELSE \/ totals.discount = 0
                           \/ BasisScale * totals.discount < (threshold + 1) * totals.subtotal
    BY DEF GateWithinOnePoint
  <2>1. /\ totals.subtotal \in Nat /\ totals.discount \in Nat /\ totals.taxable \in Nat
        /\ totals.subtotal = totals.discount + totals.taxable
        /\ threshold \in Nat /\ BasisScale \in Nat
    BY Scales DEF PricingInv, TotalsAgree, Totals, Money, Rates
  <2>2. CASE totals.discount = 0
    BY <2>2 DEF NeedsApproval
  <2>3. CASE totals.discount # 0
    <3> DEFINE s == totals.subtotal
               n == totals.discount * BasisScale
               q == n \div s
               r == n % s
    <3>1. s > 0 /\ totals.discount > 0
      BY <2>1, <2>3
    <3>2. n \in Nat /\ n = BasisScale * totals.discount
      BY <2>1, Product
    <3>3. q \in Nat /\ r \in Nat /\ r < s /\ n = s * q + r
      BY <2>1, <3>1, <3>2, Division
    <3>4. NeedsApproval(totals, threshold) <=> q > threshold
      BY <3>1 DEF NeedsApproval, DiscountRatio
    <3> HIDE DEF n, q, r
    <3>5. ASSUME q > threshold PROVE n >= (threshold + 1) * s
      <4>1. s * (threshold + 1) <= s * q
        BY <2>1, <3>3, <3>5, ProductGrows
      <4>2. s * (threshold + 1) = (threshold + 1) * s /\ s * q \in Nat /\ s * (threshold + 1) \in Nat
        BY <2>1, <3>3, Product
      <4> QED BY <3>3, <4>1, <4>2
    <3>6. ASSUME q <= threshold PROVE n < (threshold + 1) * s
      <4>1. s * q <= s * threshold
        BY <2>1, <3>3, <3>6, ProductGrows
      <4>2. (threshold + 1) * s = s * threshold + s /\ s * q \in Nat /\ s * threshold \in Nat
        BY <2>1, <3>3, Product
      <4> QED BY <2>1, <3>2, <3>3, <4>1, <4>2
    <3> QED BY <2>1, <3>2, <3>3, <3>4, <3>5, <3>6
  <2> QED BY <2>2, <2>3
<1> QED BY <1>1, PricingInvariant, PTL
=============================================================================
