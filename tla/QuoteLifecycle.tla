--------------------------- MODULE QuoteLifecycle ---------------------------
(***************************************************************************)
(* One expediente: its quote request, its quote with the versions and the  *)
(* three pointers, the approvals, the publications, the acceptance and the *)
(* project.                                                                *)
(*                                                                         *)
(* Every operation below is one database transaction, and all but the      *)
(* conversion first lock the quote_requests row (or a join that includes   *)
(* it) FOR UPDATE, so an operation is one action.  A version's content is  *)
(* what its guards read of it; its digest is the number of times the       *)
(* content was written, since each write gives the lines new ids and the   *)
(* digest covers them.  A commercial PDF is READY when Publish happens:    *)
(* QuotePublication has the documents.                                     *)
(***************************************************************************)
EXTENDS CommercialStates, Naturals

CONSTANTS
  Versions,    \* ids of quote versions
  NoVersion,   \* a null pointer
  Contents,    \* the contents staff may write in this instance
  Staff,       \* employees
  Overriders,  \* those holding quotes.approval.override
  NoOne,       \* a null user id
  Keys,        \* idempotency keys the customer's browser sends
  MaxEdits     \* bound on the writes of one version's content

\* How much of a discount the version's totals hold, against the policy threshold.
Discounts == {"NINGUNO", "BAJO_UMBRAL", "SOBRE_UMBRAL"}

\* special: some line is a special concept; pending: some line is "por cotizar".
ContentRecords == [discount : Discounts, special : BOOLEAN, pending : BOOLEAN]

ASSUME ConstantsAssumption ==
  /\ NoVersion \notin Versions
  /\ NoOne \notin Staff
  /\ Overriders \subseteq Staff
  /\ Contents \subseteq ContentRecords
  /\ MaxEdits \in Nat \ {0}

VARIABLES
  request,      \* QuoteRequest.status
  status,       \* QuoteVersion.status, "NINGUNA" for an id not created yet
  number,       \* QuoteVersion.versionNumber, 0 for an id not created yet
  content,      \* what the version's lines and totals say
  digest,       \* getQuoteVersionDigest of the version, as the count of its writes
  sentDigest,   \* QuoteVersion.contentDigest, frozen when it is published; 0 before
  lapsed,       \* versions whose validUntil has passed
  current,      \* Quote.currentVersionId
  working,      \* Quote.workingVersionId
  published,    \* Quote.publishedVersionId
  publication,  \* QuotePublication.status of each version, "NINGUNA" without a row
  approvals,    \* the QuoteApproval rows
  acceptances,  \* the QuoteAcceptance rows
  projects      \* the acceptances that became a Project

versionVars == <<status, number, content, digest, sentDigest, lapsed>>
pointers == <<current, working, published>>
dealVars == <<acceptances, projects>>
vars == <<request, versionVars, pointers, publication, approvals, dealVars>>

\* The types that can be asked for and the statuses that are ever written: PRICE_OVERRIDE is
\* refused (approval-service.ts:214), and nothing writes CANCELLED.
ApprovalTypes == {"DISCOUNT", "SPECIAL_CONCEPT"}
ApprovalStatuses == {"REQUESTED", "APPROVED", "REJECTED", "SUPERSEDED"}
LiveApprovals == {"REQUESTED", "APPROVED"}

Approvals ==
  [version : Versions, type : ApprovalTypes, digest : 1..MaxEdits,
   status : ApprovalStatuses, requestedBy : Staff, decidedBy : Staff \cup {NoOne},
   expired : BOOLEAN]

Acceptances == [version : Versions, key : Keys]

TypeOK ==
  /\ request \in RequestStatuses
  /\ status \in [Versions -> VersionStatuses \cup {"NINGUNA"}]
  /\ number \in [Versions -> Nat]
  /\ content \in [Versions -> ContentRecords]
  /\ digest \in [Versions -> 0..MaxEdits]
  /\ sentDigest \in [Versions -> 0..MaxEdits]
  /\ lapsed \subseteq Versions
  /\ {current, working, published} \subseteq Versions \cup {NoVersion}
  /\ publication \in [Versions -> {"NINGUNA", "PUBLISHED", "SUPERSEDED"}]
  /\ approvals \subseteq Approvals
  /\ acceptances \subseteq Acceptances
  /\ projects \subseteq acceptances

-----------------------------------------------------------------------------
(* Reading the rows.                                                       *)

Created == {v \in Versions : status[v] # "NINGUNA"}

\* The quotes row is inserted with its first version.
HasQuote == Created # {}

Sent == {v \in Versions : sentDigest[v] # 0}

\* workingVersionId ?? publishedVersionId ?? currentVersionId
BaseVersion ==
  CASE working # NoVersion -> working
    [] working = NoVersion /\ published # NoVersion -> published
    [] OTHER -> current

\* COALESCE(publishedVersionId, the customer-visible version with the highest number)
OfferedToCustomer(v) ==
  \/ v = published
  \/ /\ published = NoVersion
     /\ status[v] \in CustomerVisible
     /\ \A w \in Versions : status[w] \in CustomerVisible => number[w] <= number[v]

\* hasValidApprovedQuoteApproval
HasValidApproval(v, type) ==
  \E a \in approvals : /\ a.version = v /\ a.type = type /\ a.status = "APPROVED"
                       /\ a.digest = digest[v] /\ ~a.expired

-----------------------------------------------------------------------------
(* The request desk.                                                       *)

\* transitionQuoteRequest: the status menu of staff.
StaffTransition(to) ==
  /\ to # "INFORMACION_REQUERIDA"
  /\ CanStaffTransitionRequest(request, to)
  /\ request' = to
  /\ UNCHANGED <<versionVars, pointers, publication, approvals, dealVars>>

\* requestInformationQuoteRequest, with its message to the customer.
RequestInformation ==
  /\ request \in {"EN_REVISION", "EN_ELABORACION"}
  /\ request' = "INFORMACION_REQUERIDA"
  /\ UNCHANGED <<versionVars, pointers, publication, approvals, dealVars>>

\* markInformationReviewedQuoteRequest, once the customer has answered.
MarkInformationReviewed ==
  /\ request = "INFORMACION_REQUERIDA"
  /\ request' = "EN_REVISION"
  /\ UNCHANGED <<versionVars, pointers, publication, approvals, dealVars>>

\* A close that forgets the proposal the customer holds.
CloseRequestOnly ==
  /\ request \in ClosableRequests
  /\ request' = "RECHAZADA"
  /\ UNCHANGED <<versionVars, pointers, publication, approvals, dealVars>>

\* closeQuoteRequest: the published proposal is withdrawn in the same transaction.
Close ==
  /\ request \in ClosableRequests
  /\ CanTransitionRequest(request, "RECHAZADA")
  /\ request' = "RECHAZADA"
  /\ status' = IF published # NoVersion /\ status[published] \in OpenOffers
                 THEN [status EXCEPT ![published] = "RECHAZADA"]
                 ELSE status
  /\ UNCHANGED <<number, content, digest, sentDigest, lapsed, pointers, publication,
                 approvals, dealVars>>

\* reopenQuoteRequest: an expediente with a quote goes back to elaboration.
Reopen ==
  LET to == IF HasQuote THEN "EN_ELABORACION" ELSE "EN_REVISION"
  IN /\ request \in ReopenableRequests
     /\ CanTransitionRequest(request, to)
     /\ request' = to
     /\ UNCHANGED <<versionVars, pointers, publication, approvals, dealVars>>

-----------------------------------------------------------------------------
(* Building a version.                                                     *)

\* Inserting a row that leaves the content unread by the digest.
InsertWithoutDigest(v, c, n) ==
  /\ \A w \in Created : number[w] # n
  /\ status' = [status EXCEPT ![v] = "BORRADOR"]
  /\ number' = [number EXCEPT ![v] = n]
  /\ content' = [content EXCEPT ![v] = c]
  /\ current' = v /\ working' = v
  /\ UNCHANGED digest

\* The row's values; @@unique([quoteId, versionNumber]) refuses a number in use.
InsertVersion(v, c, n) ==
  /\ \A w \in Created : number[w] # n
  /\ status' = [status EXCEPT ![v] = "BORRADOR"]
  /\ number' = [number EXCEPT ![v] = n]
  /\ content' = [content EXCEPT ![v] = c]
  /\ digest' = [digest EXCEPT ![v] = 1]
  /\ current' = v
  /\ working' = v

\* createQuoteVersion
CreateVersion(v, c) ==
  /\ v \notin Created
  /\ request \in BuildableRequests
  /\ HasQuote => /\ BaseVersion \in Versions
                 /\ status[BaseVersion] # "BORRADOR"
                 /\ working = NoVersion
  /\ InsertVersion(v, c, IF HasQuote THEN number[BaseVersion] + 1 ELSE 1)
  /\ UNCHANGED <<request, sentDigest, lapsed, published, publication, approvals, dealVars>>

\* clonePublishedVersion: createQuoteVersion with the published lines. They are read before
\* its transaction, which checks the pointers again; what was published does not change.
ClonePublished(v) ==
  /\ published # NoVersion
  /\ working = NoVersion
  /\ CreateVersion(v, content[published])

\* The rows of a version that were live stop being so.
Superseded(live, v) ==
  {IF a.version = v /\ a.status \in LiveApprovals
     THEN [a EXCEPT !.status = "SUPERSEDED", !.decidedBy = NoOne] ELSE a : a \in live}

\* replaceQuoteDraft: new lines, new validity, and no approval survives.
ReplaceDraft(v, c) ==
  /\ working = v /\ status[v] = "BORRADOR"
  /\ request \in BuildableRequests
  /\ digest[v] < MaxEdits
  /\ content' = [content EXCEPT ![v] = c]
  /\ digest' = [digest EXCEPT ![v] = @ + 1]
  /\ lapsed' = lapsed \ {v}
  /\ approvals' = Superseded(approvals, v)
  /\ UNCHANGED <<request, status, number, sentDigest, pointers, publication, dealVars>>

-----------------------------------------------------------------------------
(* Moving a version: performQuoteVersionTransition.                        *)

\* Moving whatever the pointers name, from any status.
MayMoveCurrent(v, to) ==
  /\ v \in {working, published}
  /\ to \in {"EN_REVISION", "ENVIADA"} => ~content[v].pending

\* Only the working version moves, or the published one once it is no longer internal.
MayTransition(v, to) ==
  /\ \/ working = v
     \/ published = v /\ status[v] \notin EditableVersions
  /\ CanTransitionVersion(status[v], to)
  /\ to \in {"EN_REVISION", "ENVIADA"} => ~content[v].pending

\* Pointers that keep the version as working whatever it becomes.
MovedKeepingWorking(v, to) ==
  /\ status' = [status EXCEPT ![v] = to]
  /\ current' = v
  /\ published' = IF to = "ENVIADA" THEN v ELSE published
  /\ UNCHANGED working

\* The version's new status and the quote's pointers.
Moved(v, to) ==
  /\ status' = [status EXCEPT ![v] = to]
  /\ current' = v
  /\ working' = IF to \in EditableVersions THEN v ELSE NoVersion
  /\ published' = IF to = "ENVIADA" THEN v ELSE published

\* submitQuoteForReview
Submit(v) ==
  /\ MayTransition(v, "EN_REVISION")
  /\ Moved(v, "EN_REVISION")
  /\ UNCHANGED <<request, number, content, digest, sentDigest, lapsed, publication,
                 approvals, dealVars>>

\* returnQuoteToDraft
ReturnToDraft(v) ==
  /\ MayTransition(v, "BORRADOR")
  /\ Moved(v, "BORRADOR")
  /\ approvals' = Superseded(approvals, v)
  /\ UNCHANGED <<request, number, content, digest, sentDigest, lapsed, publication,
                 dealVars>>

\* rejectQuoteVersion: of the working version, or of the published proposal.
Reject(v) ==
  /\ MayTransition(v, "RECHAZADA")
  /\ Moved(v, "RECHAZADA")
  /\ UNCHANGED <<request, number, content, digest, sentDigest, lapsed, publication,
                 approvals, dealVars>>

\* What a version needs before it is sent.
ApprovedToSend(v) ==
  /\ content[v].discount = "SOBRE_UMBRAL" => HasValidApproval(v, "DISCOUNT")
  /\ content[v].special => HasValidApproval(v, "SPECIAL_CONCEPT")

\* Publishing that leaves the previous publication standing.
PublicationsKept(v) == [publication EXCEPT ![v] = "PUBLISHED"]

\* The version gets its row; the one published before it is superseded.
Publications(v) ==
  [w \in Versions |->
     IF w = v THEN "PUBLISHED"
     ELSE IF w = published /\ publication[w] = "PUBLISHED" THEN "SUPERSEDED"
     ELSE publication[w]]

\* publishQuoteVersion, once its PDF is READY.
Publish(v) ==
  /\ MayTransition(v, "ENVIADA")
  /\ ApprovedToSend(v)
  /\ Moved(v, "ENVIADA")
  /\ sentDigest' = [sentDigest EXCEPT ![v] = digest[v]]
  /\ publication' = Publications(v)
  /\ request' = IF request = "EN_ELABORACION" THEN "COTIZACION_DISPONIBLE" ELSE request
  /\ UNCHANGED <<number, content, digest, lapsed, approvals, dealVars>>

-----------------------------------------------------------------------------
(* Approvals.                                                              *)

Request(s, v, type) ==
  [version |-> v, type |-> type, digest |-> digest[v], status |-> "REQUESTED",
   requestedBy |-> s, decidedBy |-> NoOne, expired |-> FALSE]

\* Asking again inserts a row each time.
RequestApprovalAnew(s, v, type) ==
  /\ status[v] = "EN_REVISION"
  /\ \A a \in approvals : a.version = v /\ a.type = type => a.status \notin LiveApprovals
  /\ approvals' = approvals \cup {Request(s, v, type)}
  /\ UNCHANGED <<request, versionVars, pointers, publication, dealVars>>

\* requestQuoteApproval: (version, type, digest) is unique, so a row already there for
\* this digest is revived instead of inserted; a live one that has not expired is kept.
RequestApproval(s, v, type) ==
  LET ofType == {a \in approvals : a.version = v /\ a.type = type}
      same == {a \in ofType : a.digest = digest[v]}
  IN /\ status[v] = "EN_REVISION"
     /\ type = "DISCOUNT" => content[v].discount # "NINGUNO"
     /\ type = "SPECIAL_CONCEPT" => content[v].special
     /\ \A a \in same : a.status \notin LiveApprovals \/ a.expired
     /\ approvals' = (approvals \ ofType) \cup Superseded(ofType \ same, v)
                       \cup {Request(s, v, type)}
     /\ UNCHANGED <<request, versionVars, pointers, publication, dealVars>>

\* Anybody with the permission decides, the requester too.
AnyoneDecides(s, a) == TRUE

\* Separation of duties, with the permission that overrides it.
MayDecide(s, a) == a.requestedBy # s \/ s \in Overriders

\* decideQuoteApproval
DecideApproval(s, a, decision) ==
  /\ a.status = "REQUESTED" /\ ~a.expired
  /\ MayDecide(s, a)
  /\ a.digest = digest[a.version]
  /\ approvals' = (approvals \ {a})
                    \cup {[a EXCEPT !.status = decision, !.decidedBy = s]}
  /\ UNCHANGED <<request, versionVars, pointers, publication, dealVars>>

-----------------------------------------------------------------------------
(* The customer's answer and the project.                                  *)

\* Accepting by the version's status alone.
AnyRequestAccepts == TRUE

\* assertRequestCanBeAccepted and the two steps of the request the acceptance takes.
RequestAccepts ==
  /\ request \in AcceptableRequests
  /\ request = "PENDIENTE_DE_APROBACION"
       \/ CanTransitionRequest(request, "PENDIENTE_DE_APROBACION")
  /\ CanTransitionRequest("PENDIENTE_DE_APROBACION", "ACEPTADA")

\* acceptCustomerQuote; a call whose key was used before returns its receipt.
Accept(v, k) ==
  /\ \A x \in acceptances : x.key # k /\ x.version # v
  /\ OfferedToCustomer(v)
  /\ RequestAccepts
  /\ status[v] \in OpenOffers /\ v \notin lapsed
  /\ acceptances' = acceptances \cup {[version |-> v, key |-> k]}
  /\ status' = [status EXCEPT ![v] = "ACEPTADA"]
  /\ request' = "ACEPTADA"
  /\ UNCHANGED <<number, content, digest, sentDigest, lapsed, pointers, publication,
                 approvals, projects>>

\* declineCustomerQuote
Decline(v) ==
  /\ OfferedToCustomer(v)
  /\ request \in DeclinableRequests
  /\ status[v] \in OpenOffers /\ v \notin lapsed
  /\ status' = [status EXCEPT ![v] = "RECHAZADA"]
  /\ request' = IF request = "COTIZACION_DISPONIBLE" THEN "EN_NEGOCIACION" ELSE request
  /\ UNCHANGED <<number, content, digest, sentDigest, lapsed, pointers, publication,
                 approvals, dealVars>>

\* createProjectFromAcceptance. It locks nothing: quoteAcceptanceId and quoteRequestId are
\* unique, and no other operation leaves ACEPTADA.
ConvertToProject(x) ==
  /\ projects = {}
  /\ projects' = {x}
  /\ request' = IF request = "ACEPTADA" THEN "CONVERTIDA_EN_PROYECTO" ELSE request
  /\ UNCHANGED <<versionVars, pointers, publication, approvals, acceptances>>

-----------------------------------------------------------------------------
(* Time.                                                                   *)

\* A version's validUntil passes.
LapseVersion(v) ==
  /\ v \in Created /\ v \notin lapsed /\ status[v] \notin TerminalVersions
  /\ lapsed' = lapsed \cup {v}
  /\ UNCHANGED <<request, status, number, content, digest, sentDigest, pointers,
                 publication, approvals, dealVars>>

\* An approval's expiresAt passes.
ExpireApproval(a) ==
  /\ a.status \in LiveApprovals /\ ~a.expired
  /\ approvals' = (approvals \ {a}) \cup {[a EXCEPT !.expired = TRUE]}
  /\ UNCHANGED <<request, versionVars, pointers, publication, dealVars>>

-----------------------------------------------------------------------------

Init ==
  /\ request = "RECIBIDA"
  /\ status = [v \in Versions |-> "NINGUNA"]
  /\ number = [v \in Versions |-> 0]
  /\ content = [v \in Versions |-> [discount |-> "NINGUNO", special |-> FALSE,
                                    pending |-> FALSE]]
  /\ digest = [v \in Versions |-> 0]
  /\ sentDigest = [v \in Versions |-> 0]
  /\ lapsed = {}
  /\ current = NoVersion /\ working = NoVersion /\ published = NoVersion
  /\ publication = [v \in Versions |-> "NINGUNA"]
  /\ approvals = {}
  /\ acceptances = {} /\ projects = {}

Desk ==
  \/ \E to \in RequestStatuses : StaffTransition(to)
  \/ RequestInformation
  \/ MarkInformationReviewed
  \/ Close
  \/ Reopen

Build ==
  \E v \in Versions :
    \/ \E c \in Contents : CreateVersion(v, c) \/ ReplaceDraft(v, c)
    \/ ClonePublished(v)
    \/ Submit(v)
    \/ Reject(v)

Approve ==
  \E s \in Staff :
    \/ \E v \in Versions, type \in ApprovalTypes : RequestApproval(s, v, type)
    \/ \E a \in approvals, decision \in {"APPROVED", "REJECTED"} :
         DecideApproval(s, a, decision)

Answer(v) == Decline(v) \/ \E k \in Keys : Accept(v, k)

Convert == \E x \in acceptances : ConvertToProject(x)

Time ==
  \/ \E v \in Versions : LapseVersion(v)
  \/ \E a \in approvals : ExpireApproval(a)

Next ==
  \/ Desk
  \/ Build
  \/ \E v \in Versions : ReturnToDraft(v) \/ Publish(v) \/ Answer(v)
  \/ Approve
  \/ Convert
  \/ Time

Spec == Init /\ [][Next]_vars

-----------------------------------------------------------------------------
(* Properties.                                                             *)

\* The published pointer names a version that was sent, the working pointer one only the
\* team sees, and once there is a quote its legacy pointer names a version:
\* the three writers of the pointers (creation, transition, publication) never disagree.
PointersSound ==
  /\ published # NoVersion => published \in Sent /\ status[published] \in CustomerVisible
  /\ working # NoVersion => working \notin Sent /\ status[working] \in EditableVersions
  /\ HasQuote <=> current # NoVersion

\* The portal's fallback (highest visible number) and the published pointer agree: no
\* version was ever sent with a higher number than the published one, and the published
\* version is the only one with a standing publication.
LatestSentIsPublished ==
  \A v \in Versions :
    /\ v \in Sent => published # NoVersion /\ number[v] <= number[published]
    /\ publication[v] = "PUBLISHED" <=> v = published /\ published # NoVersion
    /\ publication[v] = "NINGUNA" <=> v \notin Sent

\* The acceptance, the accepted version and the won request are one fact, and there is at
\* most one: whatever staff do to later versions, a deal is won once, and only a won deal
\* has a project.
OneDeal ==
  /\ \A x, y \in acceptances : x = y
  /\ {x.version : x \in acceptances} = {v \in Versions : status[v] = "ACEPTADA"}
  /\ acceptances # {} <=> request \in {"ACEPTADA", "CONVERTIDA_EN_PROYECTO"}
  /\ projects # {} <=> request = "CONVERTIDA_EN_PROYECTO"

\* An approval that authorises this content: decided by somebody other than who asked,
\* unless by a holder of the override.
Authorised(v, type) ==
  \E a \in approvals :
    /\ a.version = v /\ a.type = type /\ a.digest = sentDigest[v] /\ a.status = "APPROVED"
    /\ a.decidedBy \in Staff
    /\ a.decidedBy # a.requestedBy \/ a.decidedBy \in Overriders

\* What the customer received is still what was published, every line had a price, and the
\* discount or the special concepts in it were authorised for exactly that content, after
\* any sequence of returns to draft, edits, approvals, rejections and expirations.
SentAsAuthorised ==
  \A v \in Sent :
    /\ digest[v] = sentDigest[v]
    /\ ~content[v].pending
    /\ content[v].discount = "SOBRE_UMBRAL" => Authorised(v, "DISCOUNT")
    /\ content[v].special => Authorised(v, "SPECIAL_CONCEPT")

\* The keys of quote_approvals: (version, type, digest), and (version, type) among live
\* rows.  The service keeps to both, so no request for approval ends in a unique violation.
ApprovalKeys ==
  \A a, b \in approvals :
    a.version = b.version /\ a.type = b.type /\ a # b =>
      /\ a.digest # b.digest
      /\ ~ (a.status \in LiveApprovals /\ b.status \in LiveApprovals)

\* What the customer was answered stands: no operation takes a version out of a terminal
\* status, rewrites what was sent, or removes an acceptance or a project.
AnswersStand ==
  [][/\ \A v \in Versions : /\ status[v] \in TerminalVersions => status'[v] = status[v]
                            /\ v \in Sent => sentDigest'[v] = sentDigest[v]
                                             /\ content'[v] = content[v]
     /\ acceptances \subseteq acceptances' /\ projects \subseteq projects']_vars

-----------------------------------------------------------------------------
(* The contract this module implements.                                    *)

Deal ==
  CASE request \in DeclinableRequests -> "EN_OFERTA"
    [] request = "RECHAZADA" -> "CERRADO"
    [] request = "ACEPTADA" -> "GANADO"
    [] request = "CONVERTIDA_EN_PROYECTO" -> "PROYECTO"
    [] OTHER -> "ABIERTO"

OfferOf(v) ==
  CASE v \notin Sent -> "INEDITA"
    [] v \in Sent /\ status[v] \in OpenOffers -> "OFRECIDA"
    [] v \in Sent /\ status[v] = "ACEPTADA" -> "ACEPTADA"
    [] OTHER -> "RETIRADA"

Contract ==
  INSTANCE OfferContract
    WITH deal <- Deal, offer <- [v \in Versions |-> OfferOf(v)], latest <- published

\* Every behaviour of the expediente is one the contract allows.
ImplementsContract == Contract!Spec

-----------------------------------------------------------------------------
(* What the documentation says and the code does not do (README, findings). *)

\* When nothing is being worked on and the request may be quoted, the builder can create
\* the next version: the number it would take is free.
NextVersionCanBeCreated ==
  HasQuote /\ working = NoVersion /\ request \in BuildableRequests
    /\ status[BaseVersion] # "BORRADOR"
      => \A v \in Created : number[v] # number[BaseVersion] + 1
=============================================================================
