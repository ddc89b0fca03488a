---------------------- MODULE QuotePublication_proofs ----------------------
(***************************************************************************)
(* Proofs about the commercial PDF, for any number of versions, of server  *)
(* requests in flight and of document rows.                                *)
(***************************************************************************)
EXTENDS QuotePublication, QuoteLifecycle_proofs

-----------------------------------------------------------------------------
(* What an attempt, a row and a call know of each other.                   *)

\* The call carries the content it read.
Rendering(w) == jobs[w].step \in {"render", "head", "finalize"}

\* The call may still write under the document's key.
Attempt(w) == Rendering(w) \/ jobs[w].step \in {"cleanup", "fail"}

\* A document id belongs to one version for ever, and is not given out twice.
IdsOwned ==
  /\ \A v \in Versions : docs[v].id <= lastDoc
  /\ \A w \in Workers : jobs[w].doc <= lastDoc
  /\ \A u, v \in Versions : docs[u].id = docs[v].id /\ docs[v].id # 0 => u = v
  /\ \A w \in Workers, v \in Versions :
       jobs[w].doc = docs[v].id /\ docs[v].id # 0 => jobs[w].version = v

\* A call about to publish finds the document READY, or gone.
PublishesReady == \A w \in Workers : AtStep(w, "publish") /\ HasRow(w) => docs[jobs[w].version].state = "READY"

\* A document that did not outlive its attempt has one attempt, and while it lasts the row
\* says PENDING, and not for long.
OneAttempt ==
  /\ \A w, x \in Workers :
       Attempt(w) /\ Attempt(x) /\ jobs[w].doc = jobs[x].doc /\ jobs[w].doc \notin outlived => w = x
  /\ \A w \in Workers : LET row == docs[jobs[w].version] IN
       Attempt(w) /\ HasRow(w) /\ jobs[w].doc \notin outlived => row.state = "PENDING" /\ ~row.stale

\* What it uploaded is there until it ends, and the object of a deleted row is nobody's.
Stored ==
  /\ \A w \in Workers :
       jobs[w].step \in {"head", "finalize"} /\ HasRow(w) /\ jobs[w].doc \notin outlived
         => objects[jobs[w].doc] = jobs[w].snapshot
  /\ \A w \in Workers, v \in Versions :
       AtStep(w, "delete") /\ docs[v].id # 0 => docs[v].id # jobs[w].doc

\* But for a version whose return to draft owes its invalidation, what is rendered and what
\* is READY is the content the version has, and a draft has no document.
Internal(v) == status[v] \in {"NINGUNA", "BORRADOR"}

UpToDate ==
  /\ \A v \in Versions \ owed :
       /\ Internal(v) => docs[v].state = "NINGUNO"
       /\ docs[v].state = "READY" => docs[v].sha256 = digest[v]
  /\ \A w \in Workers :
       Rendering(w) /\ HasRow(w) /\ jobs[w].version \notin owed
         => jobs[w].snapshot = digest[jobs[w].version]

\* What was sent has not been written since.
SentUnwritten == \A v \in Sent : digest[v] = sentDigest[v]

-----------------------------------------------------------------------------
(* The expediente goes on as QuoteLifecycle says.                          *)

Expediente == Rows /\ Pointed /\ SentUnwritten

LEMMA UnwrittenStep == Rows /\ Pointed /\ SentUnwritten /\ [Next]_vars => SentUnwritten'
  <1>. SUFFICES ASSUME Rows, Pointed, SentUnwritten, [Next]_vars PROVE SentUnwritten'
    OBVIOUS
  <1>1. CASE UNCHANGED <<digest, sentDigest>>
    BY <1>1 DEF SentUnwritten, Sent
  <1>2. ASSUME NEW v \in Versions, NEW c, CreateVersion(v, c) PROVE SentUnwritten'
    <2>1. v \notin Sent
      BY <1>2 DEF CreateVersion, Created, Pointed, SentStaysVisible, CustomerVisible
    <2>. QED  BY <1>2, <2>1 DEF CreateVersion, InsertVersion, SentUnwritten, Sent, Rows, TypeOK
  <1>3. ASSUME NEW v \in Versions, NEW c, ReplaceDraft(v, c) PROVE SentUnwritten'
    <2>1. v \notin Sent
      BY <1>3, ConstantsAssumption DEF ReplaceDraft, Pointed, PointersSound
    <2>. QED  BY <1>3, <2>1 DEF ReplaceDraft, SentUnwritten, Sent, Rows, TypeOK
  <1>4. ASSUME NEW v \in Versions, Publish(v) PROVE SentUnwritten'
    BY <1>4 DEF Publish, SentUnwritten, Sent, Rows, TypeOK
  <1>5. CASE Desk
    BY <1>1, <1>5 DEF Desk, StaffTransition, RequestInformation, MarkInformationReviewed, Close,
                      Reopen, versionVars
  <1>6. CASE Build
    BY <1>1, <1>2, <1>3, <1>6 DEF Build, ClonePublished, Submit, Reject
  <1>7. ASSUME NEW v \in Versions, ReturnToDraft(v) \/ Answer(v) PROVE SentUnwritten'
    BY <1>1, <1>7 DEF ReturnToDraft, Answer, Accept, Decline
  <1>8. CASE Approve \/ Convert \/ Time
    BY <1>1, <1>8 DEF Approve, RequestApproval, DecideApproval, Convert, ConvertToProject, Time,
                      LapseVersion, ExpireApproval, versionVars
  <1>9. CASE UNCHANGED vars
    BY <1>1, <1>9 DEF vars, versionVars
  <1>. QED  BY <1>4, <1>5, <1>6, <1>7, <1>8, <1>9 DEF Next

LEMMA ExpedienteInit == Init => Expediente
  BY RowsInit, PointedInit DEF Expediente, Init, SentUnwritten, Sent

LEMMA ExpedienteStep == Expediente /\ [Next]_vars => Expediente'
  BY RowsStep, PointedStep, UnwrittenStep DEF Expediente

\* Every step of the PDF is one of the expediente or none of its.
LEMMA PdfNextIsNext == PdfTypeOK /\ [PdfNext]_allVars => [Next]_vars
  <1>. SUFFICES ASSUME PdfTypeOK, [PdfNext]_allVars PROVE [Next]_vars
    OBVIOUS
  <1>1. ASSUME NEW w \in Workers, Call(w) PROVE [Next]_vars
    BY <1>1 DEF Call, Prepare, ReturnAndOwe, Next
  <1>2. ASSUME NEW w \in Workers, Work(w) PROVE [Next]_vars
    <2>1. CASE PublishReady(w)
      <3>1. jobs[w].version \in Versions
        BY <2>1 DEF PublishReady, PdfTypeOK, AtStep
      <3>. QED  BY <2>1, <3>1 DEF PublishReady, Next
    <2>2. CASE ~PublishReady(w)
      BY <1>2, <2>2 DEF Work, Upload, RenderFails, Verify, Finalize, CleanUp, MarkFailed, Invalidate,
                        Erase, DeleteObject, Crash
    <2>. QED  BY <2>1, <2>2
  <1>3. ASSUME NEW v \in Versions, Age(v) \/ AnswerWithPdf(v) PROVE [Next]_vars
    BY <1>3 DEF Age, AnswerWithPdf, Next
  <1>4. CASE (Desk \/ Build \/ Approve \/ Convert \/ Time) /\ UNCHANGED pdfVars
    BY <1>4 DEF Next
  <1>5. CASE UNCHANGED allVars
    BY <1>5 DEF allVars
  <1>. QED  BY <1>1, <1>2, <1>3, <1>4, <1>5 DEF PdfNext

-----------------------------------------------------------------------------
(* Type correctness.                                                       *)

DocRows == [id : 0..MaxDocs, state : DocStates, sha256 : 0..MaxEdits, stale : BOOLEAN]

DocSound(row) == (row.id = 0 <=> row.state = "NINGUNO") /\ (row.sha256 # 0 <=> row.state = "READY")

Calls == [step : Steps, version : Versions \cup {NoVersion}, doc : 0..MaxDocs,
          snapshot : 0..MaxEdits, publish : BOOLEAN, expected : 0..MaxEdits]

CallSound(job) ==
  /\ job.version = NoVersion <=> job.step = "libre"
  /\ job.step \in {"render", "head", "finalize"} => job.snapshot # 0
  /\ job.step \in {"render", "head", "finalize", "cleanup", "fail", "publish"} => job.doc # 0

DocsSound == docs \in [Versions -> DocRows] /\ \A v \in Versions : DocSound(docs[v])

CallsSound == jobs \in [Workers -> Calls] /\ \A w \in Workers : CallSound(jobs[w])

StoreSound ==
  /\ lastDoc \in 0..MaxDocs /\ objects \in [DocIds -> 0..MaxEdits]
  /\ owed \subseteq Versions /\ outlived \subseteq DocIds

PdfRows == DocsSound /\ CallsSound /\ StoreSound

LEMMA PdfRowsTyped == PdfRows => PdfTypeOK
  BY DEF PdfRows, PdfTypeOK, DocRows, Calls, DocSound, CallSound, DocsSound, CallsSound, StoreSound

LEMMA CallMade ==
  ASSUME NEW step \in Steps \ {"libre"}, NEW v \in Versions, NEW doc \in 0..MaxDocs,
         NEW snapshot \in 0..MaxEdits, NEW publish \in BOOLEAN, NEW expected \in 0..MaxEdits,
         step \in {"render", "head", "finalize"} => snapshot # 0,
         step \in {"render", "head", "finalize", "cleanup", "fail", "publish"} => doc # 0
  PROVE  LET job == Job(step, v, doc, snapshot, publish, expected) IN job \in Calls /\ CallSound(job)
  BY ConstantsAssumption DEF Job, Calls, CallSound

LEMMA IdleIsCall == Idle \in Calls /\ CallSound(Idle)
  BY ConstantsAssumption, PublicationAssumption DEF Idle, Job, Calls, CallSound, Steps

LEMMA DocMade ==
  ASSUME NEW id \in 1..MaxDocs, NEW state \in {"PENDING", "READY", "FAILED"}, NEW sha256 \in 0..MaxEdits,
         NEW stale \in BOOLEAN, sha256 # 0 <=> state = "READY"
  PROVE  LET row == Doc(id, state, sha256, stale) IN row \in DocRows /\ DocSound(row)
  BY PublicationAssumption DEF Doc, DocRows, DocSound, DocStates

LEMMA NoDocIsRow == NoDoc \in DocRows /\ DocSound(NoDoc)
  BY ConstantsAssumption, PublicationAssumption DEF NoDoc, Doc, DocRows, DocSound, DocStates

LEMMA PdfRowsInit == PdfInit => PdfRows
  BY IdleIsCall, NoDocIsRow, ConstantsAssumption, PublicationAssumption
  DEF PdfInit, PdfRows, DocsSound, CallsSound, StoreSound, DocIds

\* One call changes, or one row.
LEMMA CallChanged ==
  ASSUME CallsSound, NEW w \in Workers, NEW job \in Calls, CallSound(job),
         jobs' = [jobs EXCEPT ![w] = job]
  PROVE  CallsSound'
  BY DEF CallsSound, CallSound

LEMMA DocChanged ==
  ASSUME DocsSound, NEW v \in Versions, NEW row \in DocRows, DocSound(row),
         docs' = [docs EXCEPT ![v] = row]
  PROVE  DocsSound'
  BY DEF DocsSound, DocSound

\* The ways a call ends or goes on.
LEMMA CallEnds ==
  ASSUME CallsSound, NEW w \in Workers, Ends(w)
  PROVE  CallsSound'
  BY IdleIsCall, CallChanged DEF Ends

\* What is known of a call that is under way.
LEMMA CallUnderWay ==
  ASSUME CallsSound, NEW w \in Workers, ~AtStep(w, "libre")
  PROVE  /\ jobs[w] \in Calls /\ CallSound(jobs[w])
         /\ jobs[w].version \in Versions /\ jobs[w].doc \in 0..MaxDocs
         /\ jobs[w].snapshot \in 0..MaxEdits /\ jobs[w].publish \in BOOLEAN
         /\ jobs[w].expected \in 0..MaxEdits
  BY DEF CallsSound, CallSound, Calls, AtStep

LEMMA CallFails ==
  ASSUME CallsSound, NEW w \in Workers, NEW step \in {"cleanup", "fail"}, Fails(w, step),
         ~AtStep(w, "libre"), jobs[w].doc # 0
  PROVE  CallsSound'
  <1>1. 0 \in 0..MaxEdits
    BY ConstantsAssumption
  <1>2. LET job == Job(step, jobs[w].version, jobs[w].doc, 0, FALSE, 0) IN job \in Calls /\ CallSound(job)
    BY <1>1, CallUnderWay, CallMade DEF Steps
  <1>. QED  BY <1>2, CallChanged DEF Fails, CallsSound

LEMMA CallPublishes ==
  ASSUME CallsSound, NEW w \in Workers, AfterReady(w), ~AtStep(w, "libre"), jobs[w].doc # 0
  PROVE  CallsSound'
  <1>1. 0 \in 0..MaxEdits
    BY ConstantsAssumption
  <1>2. LET job == Job("publish", jobs[w].version, jobs[w].doc, 0, TRUE, jobs[w].expected)
        IN job \in Calls /\ CallSound(job)
    BY <1>1, CallUnderWay, CallMade DEF Steps
  <1>. QED  BY <1>2, CallChanged, CallEnds DEF AfterReady, CallsSound

LEMMA CallGoes ==
  ASSUME CallsSound, NEW w \in Workers, NEW step, Goes(w, step),
         \/ Rendering(w) /\ step \in {"head", "finalize"}
         \/ AtStep(w, "erase with object") /\ step = "delete"
  PROVE  CallsSound'
  <1>. DEFINE job == [jobs[w] EXCEPT !.step = step]
  <1>1. jobs[w] \in Calls /\ CallSound(jobs[w]) /\ ~AtStep(w, "libre")
    BY DEF CallsSound, Rendering, AtStep
  <1>2. job \in Calls
    BY <1>1 DEF Calls, Steps
  <1>3. CallSound(job)
    BY <1>1 DEF Calls, CallSound, Rendering, AtStep
  <1>4. jobs' = [jobs EXCEPT ![w] = job]
    BY DEF Goes, CallsSound, Calls
  <1>. QED  BY <1>2, <1>3, <1>4, CallChanged

LEMMA PdfRowsPrepare ==
  ASSUME Rows, PdfRows, NEW w \in Workers, NEW v \in Versions, NEW publish \in BOOLEAN,
         NEW expected \in 0..MaxEdits, Prepare(w, v, publish, expected)
  PROVE  PdfRows'
  <1>. USE DEF PdfRows
  <1>1. CASE Reuse(w, v, publish, expected)
    <2>1. docs[v].id \in 1..MaxDocs /\ 0 \in 0..MaxEdits
      BY <1>1, ConstantsAssumption, PublicationAssumption DEF Reuse, DocsSound, DocRows, DocSound
    <2>. DEFINE job == Job("publish", v, docs[v].id, 0, TRUE, expected)
    <2>2. CallsSound'
      <3>1. job \in Calls /\ CallSound(job)
        <4>1. docs[v].id \in 0..MaxDocs /\ docs[v].id # 0
          BY <2>1, PublicationAssumption
        <4>. QED  BY <2>1, <4>1, CallMade DEF Steps
      <3>. QED  BY <1>1, <3>1, CallChanged DEF Reuse
    <2>. QED  BY <1>1, <2>2 DEF Reuse, Prepare, DocsSound, StoreSound, DocSound, history
  <1>2. CASE Claim(w, v, publish, expected)
    <2>. DEFINE id == IF docs[v].id = 0 THEN lastDoc + 1 ELSE docs[v].id
    <2>1. id \in 1..MaxDocs /\ 0 \in 0..MaxEdits
      BY <1>2, ConstantsAssumption, PublicationAssumption DEF Claim, DocIds
    <2>2. digest[v] \in 0..MaxEdits /\ digest[v] # 0
      BY DEF Prepare, Rows, RowsWritten, TypeOK
    <2>3. DocsSound'
      BY <1>2, <2>1, DocMade, DocChanged DEF Claim
    <2>4. CallsSound'
      <3>. DEFINE job == Job("render", v, id, digest[v], publish, expected)
      <3>1. job \in Calls /\ CallSound(job)
        <4>1. id \in 0..MaxDocs /\ id # 0
          BY <2>1, PublicationAssumption
        <4>. HIDE DEF id
        <4>. QED  BY <2>2, <4>1, CallMade DEF Steps
      <3>. QED  BY <1>2, <3>1, CallChanged DEF Claim
    <2>. QED  BY <1>2, <2>1, <2>3, <2>4 DEF Claim, Prepare, StoreSound, history
  <1>. QED  BY <1>1, <1>2 DEF Prepare

LEMMA PdfRowsWork ==
  ASSUME Rows, PdfRows, NEW w \in Workers, Work(w)
  PROVE  PdfRows'
  <1>. USE DEF PdfRows
  <1>. DEFINE v == jobs[w].version
  <1>1. CASE Upload(w)
    <2>1. Rendering(w) /\ ~AtStep(w, "libre") /\ jobs[w].doc # 0
      BY <1>1 DEF Upload, AtStep, Rendering, CallsSound, CallSound
    <2>2. objects' \in [DocIds -> 0..MaxEdits]
      BY <1>1, <2>1, CallUnderWay DEF Upload, StoreSound
    <2>. QED  BY <1>1, <2>1, <2>2, CallGoes, CallFails DEF Upload, DocsSound, StoreSound, DocSound, history
  <1>2. CASE RenderFails(w)
    <2>1. ~AtStep(w, "libre") /\ jobs[w].doc # 0
      BY <1>2 DEF RenderFails, AtStep, CallsSound, CallSound
    <2>. QED  BY <1>2, <2>1, CallFails DEF RenderFails, DocsSound, StoreSound, DocSound, history
  <1>3. CASE Verify(w)
    <2>1. Rendering(w) /\ ~AtStep(w, "libre") /\ jobs[w].doc # 0
      BY <1>3 DEF Verify, AtStep, Rendering, CallsSound, CallSound
    <2>. QED  BY <1>3, <2>1, CallGoes, CallFails DEF Verify, DocsSound, StoreSound, DocSound, history
  <1>4. CASE Finalize(w)
    <2>1. ~AtStep(w, "libre") /\ jobs[w].doc # 0 /\ jobs[w].snapshot # 0
      BY <1>4 DEF Finalize, AtStep, CallsSound, CallSound
    <2>2. v \in Versions /\ jobs[w].snapshot \in 0..MaxEdits
      BY <2>1, CallUnderWay
    <2>3. ASSUME HasRow(w), docs' = [docs EXCEPT ![v] = Doc(@.id, "READY", jobs[w].snapshot, FALSE)]
          PROVE  DocsSound'
      <3>1. docs[v].id \in 1..MaxDocs
        BY <2>1, <2>2, <2>3, PublicationAssumption DEF HasRow, DocsSound, DocRows
      <3>. DEFINE row == Doc(docs[v].id, "READY", jobs[w].snapshot, FALSE)
      <3>2. row \in DocRows /\ DocSound(row)
        BY <2>1, <2>2, <3>1, DocMade
      <3>3. docs' = [docs EXCEPT ![v] = row]
        BY <2>2, <2>3 DEF DocsSound
      <3>. HIDE DEF v, row
      <3>. QED  BY <2>2, <3>2, <3>3, DocChanged
    <2>4. DocsSound'
      BY <1>4, <2>3 DEF Finalize, DocsSound, DocSound
    <2>5. CallsSound'
      BY <1>4, <2>1, CallPublishes, CallFails DEF Finalize
    <2>. QED  BY <1>4, <2>4, <2>5 DEF Finalize, StoreSound, history
  <1>5. CASE CleanUp(w)
    <2>1. ~AtStep(w, "libre") /\ jobs[w].doc # 0
      BY <1>5 DEF CleanUp, AtStep, CallsSound, CallSound
    <2>2. objects' \in [DocIds -> 0..MaxEdits]
      BY <1>5, ConstantsAssumption DEF CleanUp, StoreSound
    <2>. QED  BY <1>5, <2>1, <2>2, CallFails DEF CleanUp, DocsSound, StoreSound, DocSound, history
  <1>6. CASE MarkFailed(w)
    <2>1. v \in Versions
      BY <1>6, CallUnderWay DEF MarkFailed, AtStep
    <2>2. ASSUME docs' # docs PROVE DocsSound'
      <3>1. docs[v].state \in {"PENDING", "FAILED"}
        BY <1>6, <2>2 DEF MarkFailed
      <3>. DEFINE row == Doc(docs[v].id, "FAILED", docs[v].sha256, FALSE)
      <3>2. row \in DocRows /\ DocSound(row)
        <4>1. docs[v].id \in 1..MaxDocs /\ docs[v].sha256 = 0 /\ 0 \in 0..MaxEdits
          BY <2>1, <3>1, PublicationAssumption, ConstantsAssumption DEF DocsSound, DocRows, DocSound
        <4>. QED  BY <4>1, DocMade
      <3>3. docs' = [docs EXCEPT ![v] = row]
        BY <1>6, <2>1, <2>2 DEF MarkFailed, DocsSound
      <3>. HIDE DEF v, row
      <3>. QED  BY <2>1, <3>2, <3>3, DocChanged
    <2>3. DocsSound'
      BY <2>2 DEF DocsSound, DocSound
    <2>. QED  BY <1>6, <2>3, CallEnds DEF MarkFailed, StoreSound, history
  <1>7. CASE PublishReady(w)
    BY <1>7, CallEnds DEF PublishReady, DocsSound, StoreSound, DocSound, history
  <1>8. CASE Invalidate(w)
    <2>1. v \in Versions
      BY <1>8, CallUnderWay DEF Invalidate, AtStep
    <2>2. docs[v].id \in 0..MaxDocs /\ 0 \in 0..MaxEdits
      BY <2>1, ConstantsAssumption DEF DocsSound, DocRows
    <2>3. ASSUME NEW step \in {"erase", "erase with object"}
          PROVE  LET job == Job(step, v, docs[v].id, 0, FALSE, 0) IN job \in Calls /\ CallSound(job)
      BY <2>1, <2>2, CallMade DEF Steps
    <2>4. CallsSound'
      BY <1>8, <2>3, CallEnds, CallChanged DEF Invalidate
    <2>. QED  BY <1>8, <2>4 DEF Invalidate, DocsSound, StoreSound, DocSound
  <1>9. CASE Erase(w)
    <2>1. v \in Versions /\ DocsSound'
      BY <1>9, CallUnderWay, NoDocIsRow, DocChanged DEF Erase, AtStep
    <2>2. CallsSound'
      BY <1>9, CallEnds, CallGoes DEF Erase, AtStep
    <2>. QED  BY <1>9, <2>1, <2>2 DEF Erase, StoreSound
  <1>10. CASE DeleteObject(w)
    <2>1. objects' \in [DocIds -> 0..MaxEdits]
      <3>1. 0 \in 0..MaxEdits
        BY ConstantsAssumption
      <3>. QED  BY <1>10, <3>1 DEF DeleteObject, StoreSound
    <2>. QED  BY <1>10, <2>1, CallEnds DEF DeleteObject, DocsSound, StoreSound, DocSound, history
  <1>11. CASE Crash(w)
    BY <1>11, CallEnds DEF Crash, DocsSound, StoreSound, DocSound, history
  <1>. QED  BY <1>1, <1>2, <1>3, <1>4, <1>5, <1>6, <1>7, <1>8, <1>9, <1>10, <1>11 DEF Work

LEMMA PdfRowsStep == Expediente /\ PdfRows /\ [PdfNext]_allVars => PdfRows'
  <1>. SUFFICES ASSUME Rows, PdfRows, [PdfNext]_allVars PROVE PdfRows'
    BY DEF Expediente
  <1>. USE DEF PdfRows
  <1>1. CASE UNCHANGED pdfVars
    BY <1>1 DEF pdfVars, history, DocsSound, CallsSound, StoreSound, DocSound, CallSound
  <1>2. ASSUME NEW w \in Workers, NEW v \in Versions, ReturnAndOwe(w, v) PROVE PdfRows'
    <2>. DEFINE job == Job("invalidate", v, 0, 0, FALSE, 0)
    <2>1. job \in Calls /\ CallSound(job)
      <3>1. 0 \in 0..MaxDocs /\ 0 \in 0..MaxEdits
        BY ConstantsAssumption, PublicationAssumption
      <3>. QED  BY <3>1, CallMade DEF Steps
    <2>2. CallsSound'
      BY <1>2, <2>1, CallChanged DEF ReturnAndOwe
    <2>. QED  BY <1>2, <2>2 DEF ReturnAndOwe, DocsSound, StoreSound, DocSound
  <1>3. ASSUME NEW w \in Workers, Call(w) PROVE PdfRows'
    <2>1. 0 \in 0..MaxEdits /\ \A v \in Versions : 1..digest[v] \subseteq 0..MaxEdits
      BY ConstantsAssumption DEF Rows, TypeOK
    <2>. QED  BY <1>2, <1>3, <2>1, PdfRowsPrepare DEF Call
  <1>4. ASSUME NEW v \in Versions, Age(v) PROVE PdfRows'
    <2>. DEFINE row == [docs[v] EXCEPT !.stale = TRUE]
    <2>1. row \in DocRows /\ DocSound(row) /\ docs' = [docs EXCEPT ![v] = row]
      BY <1>4 DEF Age, DocsSound, DocRows, DocSound
    <2>2. docs[v].id \in DocIds
      BY <1>4 DEF Age, DocsSound, DocRows, DocSound, DocIds
    <2>3. DocsSound'
      BY <2>1, DocChanged
    <2>. QED  BY <1>4, <2>2, <2>3 DEF Age, CallsSound, StoreSound, CallSound
  <1>5. CASE UNCHANGED allVars
    BY <1>1, <1>5 DEF allVars
  <1>. QED  BY <1>1, <1>3, <1>4, <1>5, PdfRowsWork DEF PdfNext, AnswerWithPdf

LEMMA ExpedienteGoesOn == Expediente /\ PdfRows /\ [PdfNext]_allVars => Expediente'
  BY ExpedienteStep, PdfNextIsNext, PdfRowsTyped

\* The documents, the calls in flight and the store keep their types, and a row says READY exactly when it
\* has the checksum of a content, for any number of versions, server requests and document rows.
THEOREM PdfTypeCorrect == PdfSpec => []PdfTypeOK
  <1>1. PdfInit => Expediente /\ PdfRows
    BY ExpedienteInit, PdfRowsInit DEF PdfInit
  <1>. QED  BY <1>1, ExpedienteGoesOn, PdfRowsStep, PdfRowsTyped, PTL DEF PdfSpec

\* The expediente with its documents is an expediente: neither the calls in flight nor their deaths
\* make it do what QuoteLifecycle does not. So what is proved of Spec holds under the PDF too.
THEOREM PublicationIsExpediente == PdfSpec => Spec
  <1>1. PdfInit => Init /\ Expediente /\ PdfRows
    BY ExpedienteInit, PdfRowsInit DEF PdfInit
  <1>2. PdfRows /\ [PdfNext]_allVars => [Next]_vars
    BY PdfNextIsNext, PdfRowsTyped
  <1>. QED  BY <1>1, <1>2, ExpedienteGoesOn, PdfRowsStep, PTL DEF PdfSpec, Spec

\* Preparing, rendering, publishing and invalidating documents, interleaved and cut anywhere, keep
\* the promises of OfferContract.
THEOREM PublicationKeepsContract == PdfSpec => ImplementsContract
  BY PublicationIsExpediente, Refinement, PTL

-----------------------------------------------------------------------------
(* The invariant of the documents, and the steps that only move a call.    *)

PdfInv ==
  /\ PdfRows /\ IdsOwned /\ PublishesReady /\ SentHasDocument /\ OneAttempt /\ Stored /\ ReadyHasBytes
  /\ UpToDate

\* What the rows' types say, read one by one.
LEMMA PdfKnown ==
  ASSUME PdfRows
  PROVE  /\ \A w \in Workers :
              /\ jobs[w].step # "libre" => jobs[w].version \in Versions
              /\ Rendering(w) => jobs[w].snapshot # 0
              /\ Attempt(w) \/ AtStep(w, "publish") => jobs[w].doc \in DocIds /\ jobs[w].doc # 0
         /\ \A v \in Versions :
              /\ docs[v].id \in 0..MaxDocs
              /\ docs[v].id = 0 <=> docs[v].state = "NINGUNO"
              /\ docs[v].sha256 # 0 <=> docs[v].state = "READY"
              /\ docs[v].id # 0 => docs[v].id \in DocIds
  <1>1. ASSUME NEW w \in Workers
        PROVE  /\ jobs[w].step # "libre" => jobs[w].version \in Versions
               /\ Rendering(w) => jobs[w].snapshot # 0
               /\ Attempt(w) \/ AtStep(w, "publish") => jobs[w].doc \in DocIds /\ jobs[w].doc # 0
    BY PublicationAssumption
    DEF PdfRows, CallsSound, CallSound, Calls, Rendering, Attempt, AtStep, DocIds
  <1>2. ASSUME NEW v \in Versions
        PROVE  /\ docs[v].id \in 0..MaxDocs
               /\ docs[v].id = 0 <=> docs[v].state = "NINGUNO"
               /\ docs[v].sha256 # 0 <=> docs[v].state = "READY"
               /\ docs[v].id # 0 => docs[v].id \in DocIds
    BY PublicationAssumption DEF PdfRows, DocsSound, DocSound, DocRows, DocIds
  <1>. QED  BY <1>1, <1>2

LEMMA PdfInvInit == PdfInit => PdfInv
  BY PdfRowsInit, ConstantsAssumption
  DEF PdfInit, Init, PdfInv, IdsOwned, PublishesReady, SentHasDocument, OneAttempt, Stored, ReadyHasBytes,
      UpToDate, Sent, NoDoc, Doc, Idle, Job, Rendering, Attempt, AtStep

\* A call that moves to a step where it writes nothing new, and keeps what it knows.
Quiet(w, job) ==
  LET same == job.doc = jobs[w].doc /\ job.version = jobs[w].version
      row == docs[job.version]
  IN /\ job.step \notin {"render", "delete"}
     /\ job.doc = 0 \/ same \/ (job.version \in Versions /\ job.doc = row.id)
     /\ job.step \in {"cleanup", "fail"} => Attempt(w) /\ same
     /\ job.step \in {"head", "finalize"} => Rendering(w) /\ same /\ job.snapshot = jobs[w].snapshot
     /\ job.step = "finalize" => AtStep(w, "head")
     /\ job.step = "publish" => row.id # job.doc \/ row.state = "READY"

LEMMA QuietParts ==
  ASSUME PdfInv, PdfRows', NEW w \in Workers, NEW job, Quiet(w, job), jobs' = [jobs EXCEPT ![w] = job],
         UNCHANGED <<digest, docs, lastDoc, outlived>>, owed \subseteq owed',
         \A v \in Versions \ owed' : Internal(v)' => Internal(v),
         \A v \in Sent' : v \in Sent \/ docs[v].state = "READY"
  PROVE  IdsOwned' /\ PublishesReady' /\ SentHasDocument' /\ OneAttempt' /\ UpToDate'
  <1>. USE PdfKnown DEF PdfInv
  <1>0. /\ jobs'[w] = job /\ \A x \in Workers \ {w} : jobs'[x] = jobs[x]
        /\ job.step # "libre" => job.version \in Versions
    BY DEF PdfRows, CallsSound, CallSound, Calls
  <1>1. IdsOwned'
    <2>1. 0 <= lastDoc
      BY DEF PdfRows, StoreSound
    <2>2. \A v \in Versions : docs'[v].id <= lastDoc'
      BY DEF IdsOwned
    <2>3. job.doc <= lastDoc
      BY <1>0, <2>1 DEF IdsOwned, Quiet
    <2>4. \A v \in Versions : job.doc = docs[v].id /\ docs[v].id # 0 => job.version = v
      BY <1>0 DEF IdsOwned, Quiet
    <2>. QED  BY <1>0, <2>2, <2>3, <2>4 DEF IdsOwned
  <1>2. PublishesReady'
    BY <1>0 DEF PublishesReady, HasRow, AtStep, Quiet
  <1>3. SentHasDocument'
    BY DEF SentHasDocument, Sent
  <1>4. OneAttempt'
    BY <1>0 DEF OneAttempt, Attempt, Rendering, HasRow, Quiet, AtStep
  <1>5. UpToDate'
    BY <1>0 DEF UpToDate, Internal, Rendering, HasRow, Quiet, AtStep
  <1>. QED  BY <1>1, <1>2, <1>3, <1>4, <1>5

LEMMA InvQuietly ==
  ASSUME PdfInv, PdfRows', NEW w \in Workers, NEW job, Quiet(w, job), job.step # "head",
         jobs' = [jobs EXCEPT ![w] = job],
         UNCHANGED <<digest, docs, lastDoc, objects, outlived>>, owed \subseteq owed',
         \A v \in Versions \ owed' : Internal(v)' => Internal(v),
         \A v \in Sent' : v \in Sent \/ docs[v].state = "READY"
  PROVE  PdfInv'
  <1>. USE PdfKnown DEF PdfInv
  <1>0. jobs'[w] = job /\ \A x \in Workers \ {w} : jobs'[x] = jobs[x]
    BY DEF PdfRows, CallsSound
  <1>1. ReadyHasBytes'
    BY DEF ReadyHasBytes
  <1>2. Stored'
    BY <1>0 DEF Stored, HasRow, Quiet, AtStep
  <1>. QED  BY <1>1, <1>2, QuietParts

LEMMA VersionsAsBefore ==
  ASSUME UNCHANGED <<status, sentDigest>>
  PROVE  Sent' = Sent /\ \A v \in Versions : Internal(v)' => Internal(v)
  BY DEF Sent, Internal

LEMMA InvQuiet ==
  ASSUME PdfInv, PdfRows', NEW w \in Workers, NEW job, Quiet(w, job), job.step # "head",
         jobs' = [jobs EXCEPT ![w] = job],
         UNCHANGED <<status, digest, sentDigest, docs, lastDoc, objects, outlived>>,
         owed \subseteq owed'
  PROVE  PdfInv'
  BY VersionsAsBefore, InvQuietly

\* The steps that only move a call.
LEMMA InvMoves ==
  ASSUME PdfInv, PdfRows', NEW w \in Workers,
         \/ \E v \in Versions, publish \in BOOLEAN, expected \in 0..MaxEdits :
              AtStep(w, "libre") /\ Reuse(w, v, publish, expected) /\ UNCHANGED <<vars, objects, history>>
         \/ RenderFails(w) \/ Verify(w) \/ Crash(w)
         \/ Finalize(w) /\ UNCHANGED docs
         \/ Invalidate(w) /\ ~Ends(w)
  PROVE  PdfInv'
  <1>. USE DEF vars, versionVars, history
  <1>1. ASSUME NEW v \in Versions, NEW publish \in BOOLEAN, NEW expected \in 0..MaxEdits,
               AtStep(w, "libre"), Reuse(w, v, publish, expected), UNCHANGED <<vars, objects, history>>
        PROVE  PdfInv'
    <2>. DEFINE job == Job("publish", v, docs[v].id, 0, TRUE, expected)
    <2>1. Quiet(w, job) /\ job.step # "head"
      BY <1>1 DEF Reuse, Quiet, Job
    <2>. QED  BY <1>1, <2>1, InvQuiet DEF Reuse
  <1>2. ASSUME NEW step \in {"cleanup", "fail"}, Attempt(w), Fails(w, step), UNCHANGED <<vars, docs, lastDoc, objects, history>>
        PROVE  PdfInv'
    <2>. DEFINE job == Job(step, jobs[w].version, jobs[w].doc, 0, FALSE, 0)
    <2>1. Quiet(w, job) /\ job.step # "head"
      BY <1>2 DEF Quiet, Job, Attempt, Rendering, AtStep
    <2>2. jobs' = [jobs EXCEPT ![w] = job]
      BY <1>2 DEF Fails, PdfInv, PdfRows, CallsSound
    <2>. QED  BY <1>2, <2>1, <2>2, InvQuiet
  <1>3. ASSUME Ends(w), UNCHANGED <<vars, docs, lastDoc, objects, history>> PROVE PdfInv'
    <2>1. Quiet(w, Idle) /\ Idle.step # "head"
      BY DEF Quiet, Idle, Job, Attempt, Rendering, AtStep
    <2>. QED  BY <1>3, <2>1, InvQuiet DEF Ends
  <1>4. ASSUME AtStep(w, "head"), Goes(w, "finalize"), UNCHANGED <<vars, docs, lastDoc, objects, history>>
        PROVE PdfInv'
    <2>. DEFINE job == [jobs[w] EXCEPT !.step = "finalize"]
    <2>1. jobs[w] \in Calls
      BY DEF PdfInv, PdfRows, CallsSound
    <2>2. Quiet(w, job) /\ job.step # "head"
      BY <1>4, <2>1 DEF Quiet, Calls, Attempt, Rendering, AtStep
    <2>3. jobs' = [jobs EXCEPT ![w] = job]
      BY <1>4 DEF Goes, PdfInv, PdfRows, CallsSound
    <2>. HIDE DEF job
    <2>. QED  BY <1>4, <2>2, <2>3, InvQuiet
  <1>5. ASSUME Attempt(w), AfterReady(w), HasRow(w) => docs[jobs[w].version].state = "READY",
               UNCHANGED <<vars, docs, lastDoc, objects, history>>
        PROVE  PdfInv'
    <2>. DEFINE job == Job("publish", jobs[w].version, jobs[w].doc, 0, TRUE, jobs[w].expected)
    <2>1. Quiet(w, job) /\ job.step # "head"
      BY <1>5 DEF Quiet, Job, HasRow, Attempt, Rendering, AtStep
    <2>2. ~Ends(w) => jobs' = [jobs EXCEPT ![w] = job]
      BY <1>5 DEF AfterReady, PdfInv, PdfRows, CallsSound
    <2>. HIDE DEF job
    <2>. QED  BY <1>3, <1>5, <2>1, <2>2, InvQuiet
  <1>6. CASE RenderFails(w)
    BY <1>2, <1>6 DEF RenderFails, Attempt, Rendering, AtStep
  <1>7. CASE Verify(w)
    BY <1>2, <1>4, <1>7 DEF Verify, Attempt, Rendering, AtStep
  <1>8. CASE Finalize(w) /\ UNCHANGED docs
    <2>1. Attempt(w) /\ jobs[w].version \in Versions
      BY <1>8, PdfKnown DEF Finalize, Attempt, Rendering, AtStep, PdfInv
    <2>2. CASE Fails(w, "cleanup")
      BY <1>2, <1>8, <2>1, <2>2 DEF Finalize
    <2>3. CASE AfterReady(w) /\ docs'[jobs[w].version].state = "READY"
      BY <1>5, <1>8, <2>1, <2>3 DEF Finalize
    <2>4. CASE docs' = [docs EXCEPT ![jobs[w].version] = Doc(@.id, "READY", jobs[w].snapshot, FALSE)] /\ AfterReady(w)
      BY <2>1, <2>3, <2>4 DEF Doc, PdfInv, PdfRows, DocsSound
    <2>. QED  BY <1>8, <2>2, <2>3, <2>4 DEF Finalize
  <1>9. CASE Invalidate(w) /\ ~Ends(w)
    <2>1. jobs[w].version \in Versions
      BY <1>9, PdfKnown DEF Invalidate, AtStep, PdfInv
    <2>2. PICK step \in {"erase", "erase with object"} :
            jobs' = [jobs EXCEPT ![w] = Job(step, jobs[w].version, docs[jobs[w].version].id, 0, FALSE, 0)]
      BY <1>9 DEF Invalidate
    <2>. DEFINE job == Job(step, jobs[w].version, docs[jobs[w].version].id, 0, FALSE, 0)
    <2>3. Quiet(w, job) /\ job.step # "head"
      BY <2>1 DEF Quiet, Job
    <2>. QED  BY <1>9, <2>2, <2>3, InvQuiet DEF Invalidate
  <1>10. CASE Crash(w)
    BY <1>3, <1>10 DEF Crash
  <1>. QED  BY <1>1, <1>6, <1>7, <1>8, <1>9, <1>10

-----------------------------------------------------------------------------
(* The steps that write a row or an object.                                *)

LEMMA InvClaim ==
  ASSUME PdfInv, PdfRows', NEW w \in Workers, NEW v \in Versions, NEW publish, NEW expected,
         AtStep(w, "libre"), ~Internal(v), Claim(w, v, publish, expected),
         UNCHANGED <<status, digest, sentDigest, objects, outlived, owed>>
  PROVE  PdfInv'
  <1>. USE DEF PdfInv
  <1>. DEFINE id == IF docs[v].id = 0 THEN lastDoc + 1 ELSE docs[v].id
  <1>0. /\ docs'[v] = Doc(id, "PENDING", 0, FALSE)
        /\ jobs'[w] = Job("render", v, id, digest[v], publish, expected)
    BY DEF Claim, PdfRows, DocsSound, CallsSound
  <1>1. /\ \A u \in Versions : u # v => docs'[u] = docs[u]
        /\ \A x \in Workers : x # w => jobs'[x] = jobs[x]
    BY DEF Claim, PdfRows, DocsSound, CallsSound
  <1>2. /\ docs'[v].id = id /\ docs'[v].state = "PENDING" /\ ~docs'[v].stale
        /\ jobs'[w].step = "render" /\ jobs'[w].version = v /\ jobs'[w].doc = id /\ jobs'[w].snapshot = digest[v]
    BY <1>0 DEF Doc, Job
  <1>3. lastDoc \in Nat /\ lastDoc' \in Nat /\ id # 0 /\ id <= lastDoc' /\ lastDoc <= lastDoc'
    BY DEF Claim, PdfRows, StoreSound, IdsOwned
  \* The id is new, or the version's own.
  <1>4. /\ \A u \in Versions \ {v} : docs[u].id # id
        /\ \A x \in Workers : jobs[x].doc = id => docs[v].id = id /\ jobs[x].version = v
    BY <1>3 DEF IdsOwned
  <1>5. docs[v].state # "READY" /\ v \notin Sent
    BY DEF Claim, MayClaim, SentHasDocument
  <1>. HIDE DEF id
  <1>6. IdsOwned'
    <2>1. \A u \in Versions : docs'[u].id <= lastDoc'
      <3>1. \A u \in Versions : docs[u].id <= lastDoc /\ docs[u].id \in Nat
        BY PdfKnown, PublicationAssumption DEF IdsOwned
      <3>. QED  BY <1>1, <1>2, <1>3, <3>1
    <2>2. \A x \in Workers : jobs'[x].doc <= lastDoc'
      <3>1. \A x \in Workers : jobs[x].doc <= lastDoc /\ jobs[x].doc \in Nat
        BY PublicationAssumption DEF IdsOwned, PdfRows, CallsSound, Calls
      <3>. QED  BY <1>1, <1>2, <1>3, <3>1
    <2>3. \A t, u \in Versions : docs'[t].id = docs'[u].id /\ docs'[u].id # 0 => t = u
      BY <1>1, <1>2, <1>4 DEF IdsOwned
    <2>4. \A x \in Workers, u \in Versions : jobs'[x].doc = docs'[u].id /\ docs'[u].id # 0 => jobs'[x].version = u
      BY <1>1, <1>2, <1>4 DEF IdsOwned
    <2>. QED  BY <2>1, <2>2, <2>3, <2>4 DEF IdsOwned
  <1>7. PublishesReady'
    <2>1. ASSUME NEW x \in Workers \ {w}, AtStep(x, "publish")
          PROVE  jobs[x].version = v => jobs[x].doc # id
      BY <1>4, <1>5, <2>1 DEF PublishesReady, HasRow, AtStep
    <2>2. ASSUME NEW x \in Workers, AtStep(x, "publish")', HasRow(x)'
          PROVE  docs'[jobs'[x].version].state = "READY"
      <3>1. x # w /\ jobs'[x] = jobs[x] /\ AtStep(x, "publish") /\ jobs[x].version \in Versions
        BY <1>1, <1>2, <2>2, PdfKnown DEF AtStep
      <3>2. jobs[x].version # v
        BY <1>2, <2>1, <2>2, <3>1 DEF HasRow
      <3>. QED  BY <1>1, <2>2, <3>1, <3>2 DEF PublishesReady, HasRow
    <2>. QED  BY <2>2 DEF PublishesReady
  <1>8. SentHasDocument' /\ ReadyHasBytes'
    BY <1>1, <1>2, <1>5 DEF SentHasDocument, Sent, ReadyHasBytes
  \* Nobody is still at the document, unless it outlived an attempt.
  <1>9. ASSUME NEW x \in Workers, Attempt(x), jobs[x].doc = id PROVE id \in outlived
    <2>1. HasRow(x) /\ jobs[x].version = v
      BY <1>4, <1>9 DEF HasRow
    <2>. QED  BY <1>9, <2>1 DEF OneAttempt, Claim, MayClaim
  <1>10. OneAttempt'
    <2>1. /\ Attempt(w)' /\ jobs'[w].doc = id
          /\ \A x \in Workers \ {w} : Attempt(x)' <=> Attempt(x)
      BY <1>1, <1>2 DEF Attempt, Rendering
    <2>2. \A x, y \in Workers :
            Attempt(x)' /\ Attempt(y)' /\ jobs'[x].doc = jobs'[y].doc /\ jobs'[x].doc \notin outlived' => x = y
      BY <1>1, <1>9, <2>1 DEF OneAttempt
    <2>3. ASSUME NEW x \in Workers, Attempt(x)', HasRow(x)', jobs'[x].doc \notin outlived'
          PROVE  docs'[jobs'[x].version].state = "PENDING" /\ ~docs'[jobs'[x].version].stale
      <3>1. CASE x = w
        BY <1>2, <3>1
      <3>2. CASE x # w
        <4>1. jobs'[x] = jobs[x] /\ Attempt(x) /\ jobs[x].version \in Versions
          BY <1>1, <2>1, <2>3, <3>2, PdfKnown DEF Attempt, Rendering
        <4>2. jobs[x].version # v
          BY <1>2, <1>9, <2>3, <4>1 DEF HasRow
        <4>. QED  BY <1>1, <2>3, <4>1, <4>2 DEF OneAttempt, HasRow
      <3>. QED  BY <3>1, <3>2
    <2>. QED  BY <2>2, <2>3 DEF OneAttempt
  <1>11. Stored'
    <2>1. ASSUME NEW x \in Workers, jobs'[x].step \in {"head", "finalize"}, HasRow(x)', jobs'[x].doc \notin outlived'
          PROVE  objects'[jobs'[x].doc] = jobs'[x].snapshot
      <3>1. x # w /\ jobs'[x] = jobs[x] /\ Attempt(x) /\ jobs[x].version \in Versions
        BY <1>1, <1>2, <2>1, PdfKnown DEF Attempt, Rendering
      <3>2. jobs[x].version # v
        BY <1>2, <1>9, <2>1, <3>1 DEF HasRow
      <3>. QED  BY <1>1, <2>1, <3>1, <3>2 DEF Stored, HasRow, Attempt, Rendering
    <2>2. \A x \in Workers, u \in Versions : AtStep(x, "delete")' /\ docs'[u].id # 0 => docs'[u].id # jobs'[x].doc
      BY <1>1, <1>2, <1>4 DEF Stored, AtStep
    <2>. QED  BY <2>1, <2>2 DEF Stored
  <1>12. UpToDate'
    <2>1. \A u \in Versions \ owed : /\ Internal(u) => docs'[u].state = "NINGUNO"
                                     /\ docs'[u].state = "READY" => docs'[u].sha256 = digest[u]
      BY <1>1, <1>2 DEF UpToDate
    <2>2. ASSUME NEW x \in Workers, Rendering(x)', HasRow(x)', jobs'[x].version \notin owed
          PROVE  jobs'[x].snapshot = digest[jobs'[x].version]
      <3>1. CASE x = w
        BY <1>2, <3>1
      <3>2. CASE x # w
        <4>1. HasRow(x)
          <5>1. jobs'[x] = jobs[x] /\ jobs[x].version \in Versions
            BY <1>1, <2>2, <3>2, PdfKnown DEF Rendering
          <5>. QED  BY <1>1, <1>2, <1>4, <2>2, <5>1 DEF HasRow
        <4>. QED  BY <1>1, <2>2, <3>2, <4>1 DEF UpToDate, Rendering
      <3>. QED  BY <3>1, <3>2
    <2>. QED  BY <2>1, <2>2, VersionsAsBefore DEF UpToDate
  <1>. QED  BY <1>6, <1>7, <1>8, <1>10, <1>11, <1>12

\* A call that writes under its document's key, or deletes what is there.
LEMMA InvObject ==
  ASSUME PdfInv, PdfRows', NEW w \in Workers, NEW job, Quiet(w, job), jobs' = [jobs EXCEPT ![w] = job],
         UNCHANGED <<status, digest, sentDigest, docs, lastDoc, outlived, owed>>,
         Attempt(w) \/ AtStep(w, "delete"),
         \A d \in DocIds : d # jobs[w].doc => objects'[d] = objects[d],
         job.step # "finalize",
         job.step = "head" => objects'[jobs[w].doc] = jobs[w].snapshot
  PROVE  PdfInv'
  <1>. USE DEF PdfInv
  <1>0. jobs'[w] = job /\ \A x \in Workers : x # w => jobs'[x] = jobs[x]
    BY DEF PdfRows, CallsSound
  <1>1. ASSUME NEW v \in Versions, docs[v].id \notin outlived, docs[v].id # 0, docs[v].id = jobs[w].doc
        PROVE  Attempt(w) /\ HasRow(w) /\ jobs[w].version = v
    BY <1>1 DEF IdsOwned, HasRow, Stored
  <1>2. ASSUME NEW v \in Versions, docs[v].state = "READY", docs[v].id \notin outlived
        PROVE  objects'[docs[v].id] = docs[v].sha256
    <2>1. docs[v].id \in DocIds /\ docs[v].id # 0
      BY <1>2, PdfKnown
    <2>2. docs[v].id # jobs[w].doc
      BY <1>1, <1>2, <2>1 DEF OneAttempt
    <2>. QED  BY <1>2, <2>1, <2>2 DEF ReadyHasBytes
  <1>3. ASSUME NEW x \in Workers, jobs'[x].step \in {"head", "finalize"}, HasRow(x)', jobs'[x].doc \notin outlived
        PROVE  objects'[jobs'[x].doc] = jobs'[x].snapshot
    <2>1. CASE x = w
      BY <1>0, <1>3, <2>1 DEF Quiet
    <2>2. CASE x # w
      <3>1. /\ jobs'[x] = jobs[x] /\ Attempt(x) /\ jobs[x].version \in Versions
            /\ jobs[x].doc \in DocIds /\ jobs[x].doc # 0 /\ HasRow(x)
        BY <1>0, <1>3, <2>2, PdfKnown DEF Attempt, Rendering, HasRow
      <3>2. jobs[x].doc # jobs[w].doc
        BY <1>1, <1>3, <2>2, <3>1 DEF OneAttempt, HasRow
      <3>. QED  BY <1>3, <3>1, <3>2 DEF Stored
    <2>. QED  BY <2>1, <2>2
  <1>4. \A x \in Workers, v \in Versions : AtStep(x, "delete")' /\ docs'[v].id # 0 => docs'[v].id # jobs'[x].doc
    BY <1>0 DEF Stored, AtStep, Quiet
  <1>5. Stored' /\ ReadyHasBytes'
    BY <1>2, <1>3, <1>4 DEF Stored, ReadyHasBytes
  <1>. QED  BY <1>5, QuietParts, VersionsAsBefore

LEMMA InvObjects ==
  ASSUME PdfInv, PdfRows', NEW w \in Workers, Upload(w) \/ CleanUp(w) \/ DeleteObject(w)
  PROVE  PdfInv'
  <1>. USE DEF vars, versionVars, history
  <1>0. jobs \in [Workers -> Calls] /\ objects \in [DocIds -> 0..MaxEdits]
    BY DEF PdfInv, PdfRows, CallsSound, StoreSound
  <1>1. ASSUME NEW step \in {"cleanup", "fail"}, Attempt(w), Fails(w, step), Upload(w) \/ CleanUp(w) PROVE PdfInv'
    <2>. DEFINE job == Job(step, jobs[w].version, jobs[w].doc, 0, FALSE, 0)
    <2>1. Quiet(w, job) /\ job.step \notin {"head", "finalize"}
      BY <1>1 DEF Quiet, Job, Attempt, Rendering, AtStep
    <2>2. jobs' = [jobs EXCEPT ![w] = job]
      BY <1>0, <1>1 DEF Fails
    <2>3. \A d \in DocIds : d # jobs[w].doc => objects'[d] = objects[d]
      BY <1>0, <1>1 DEF Upload, CleanUp
    <2>. HIDE DEF job
    <2>. QED  BY <1>1, <2>1, <2>2, <2>3, InvObject DEF Upload, CleanUp
  <1>2. CASE Upload(w)
    <2>1. Rendering(w) /\ Attempt(w)
      BY <1>2 DEF Upload, AtStep, Attempt, Rendering
    <2>2. ASSUME Goes(w, "head") PROVE PdfInv'
      <3>. DEFINE job == [jobs[w] EXCEPT !.step = "head"]
      <3>1. Quiet(w, job) /\ job.step = "head"
        BY <1>0, <2>1 DEF Quiet, Calls
      <3>2. jobs' = [jobs EXCEPT ![w] = job]
        BY <1>0, <2>2 DEF Goes
      <3>3. /\ \A d \in DocIds : d # jobs[w].doc => objects'[d] = objects[d]
            /\ objects'[jobs[w].doc] = jobs[w].snapshot
        BY <1>0, <1>2, <2>1, PdfKnown DEF Upload, PdfInv
      <3>. HIDE DEF job
      <3>. QED  BY <1>2, <2>1, <3>1, <3>2, <3>3, InvObject DEF Upload
    <2>. QED  BY <1>1, <1>2, <2>1, <2>2 DEF Upload
  <1>3. CASE CleanUp(w)
    BY <1>1, <1>3 DEF CleanUp, AtStep, Attempt
  <1>4. CASE DeleteObject(w)
    <2>1. Quiet(w, Idle) /\ Idle.step \notin {"head", "finalize"}
      BY DEF Quiet, Idle, Job
    <2>2. \A d \in DocIds : d # jobs[w].doc => objects'[d] = objects[d]
      BY <1>0, <1>4 DEF DeleteObject
    <2>. QED  BY <1>4, <2>1, <2>2, InvObject DEF DeleteObject, Ends
  <1>. QED  BY <1>2, <1>3, <1>4

\* A row that was not READY gets another state, and the calls that were at it are done, or it is known to
\* have outlived them.
LEMMA InvRow ==
  ASSUME PdfInv, PdfRows', NEW v \in Versions, docs[v].state \in {"PENDING", "FAILED"}, docs'[v].id = docs[v].id,
         \A u \in Versions : u # v => docs'[u] = docs[u],
         UNCHANGED <<status, digest, sentDigest, lastDoc, objects, owed>>, outlived \subseteq outlived',
         \A x \in Workers : \/ jobs'[x] = jobs[x]
                            \/ jobs'[x].step = "libre" /\ jobs'[x].doc = 0
                            \/ /\ jobs'[x].step = "publish" /\ jobs'[x].doc = jobs[x].doc
                               /\ jobs'[x].version = v /\ jobs[x].version = v /\ docs'[v].state = "READY",
         \A x \in Workers : Attempt(x)' /\ jobs'[x].doc = docs[v].id => docs[v].id \in outlived',
         docs'[v].state = "READY" =>
           /\ docs[v].id \notin outlived => objects[docs[v].id] = docs'[v].sha256
           /\ v \notin owed => docs'[v].sha256 = digest[v]
  PROVE  PdfInv'
  <1>. USE DEF PdfInv
  <1>1. IdsOwned'
    <2>1. 0 <= lastDoc
      BY DEF PdfRows, StoreSound
    <2>2. \A x \in Workers : jobs'[x].doc <= lastDoc
      BY <2>1 DEF IdsOwned
    <2>3. \A u \in Versions : docs'[u].id = docs[u].id
      OBVIOUS
    <2>4. \A x \in Workers, u \in Versions : jobs'[x].doc = docs[u].id /\ docs[u].id # 0 => jobs'[x].version = u
      BY DEF IdsOwned
    <2>. QED  BY <2>2, <2>3, <2>4 DEF IdsOwned
  <1>2. PublishesReady'
    <2>1. ASSUME NEW x \in Workers, AtStep(x, "publish")', HasRow(x)' PROVE docs'[jobs'[x].version].state = "READY"
      <3>1. CASE jobs'[x] = jobs[x]
        <4>1. AtStep(x, "publish") /\ jobs[x].version \in Versions
          BY <2>1, <3>1, PdfKnown DEF AtStep
        <4>2. HasRow(x)
          BY <2>1, <3>1, <4>1 DEF HasRow
        <4>. QED  BY <3>1, <4>1, <4>2 DEF PublishesReady
      <3>. QED  BY <2>1, <3>1 DEF AtStep
    <2>. QED  BY <2>1 DEF PublishesReady
  <1>3. SentHasDocument'
    BY DEF SentHasDocument, Sent
  <1>4. \A x \in Workers : Attempt(x)' => /\ jobs'[x] = jobs[x] /\ Attempt(x) /\ jobs[x].version \in Versions
                                          /\ jobs[x].step # "libre"
    BY PdfKnown DEF Attempt, Rendering
  <1>5. OneAttempt'
    <2>1. \A x, y \in Workers :
            Attempt(x)' /\ Attempt(y)' /\ jobs'[x].doc = jobs'[y].doc /\ jobs'[x].doc \notin outlived' => x = y
      BY <1>4 DEF OneAttempt
    <2>2. ASSUME NEW x \in Workers, Attempt(x)', HasRow(x)', jobs'[x].doc \notin outlived'
          PROVE  docs'[jobs'[x].version].state = "PENDING" /\ ~docs'[jobs'[x].version].stale
      <3>1. jobs[x].version # v
        BY <1>4, <2>2 DEF HasRow
      <3>. QED  BY <1>4, <2>2, <3>1 DEF OneAttempt, HasRow
    <2>. QED  BY <2>1, <2>2 DEF OneAttempt
  <1>6. Stored'
    <2>1. ASSUME NEW x \in Workers, jobs'[x].step \in {"head", "finalize"}, HasRow(x)', jobs'[x].doc \notin outlived'
          PROVE  objects'[jobs'[x].doc] = jobs'[x].snapshot
      <3>1. Attempt(x)'
        BY <2>1 DEF Attempt, Rendering
      <3>. QED  BY <1>4, <2>1, <3>1 DEF Stored, HasRow
    <2>2. \A x \in Workers, u \in Versions : AtStep(x, "delete")' /\ docs'[u].id # 0 => docs'[u].id # jobs'[x].doc
      BY DEF Stored, AtStep
    <2>. QED  BY <2>1, <2>2 DEF Stored
  <1>7. ReadyHasBytes'
    BY DEF ReadyHasBytes
  <1>8. UpToDate'
    <2>1. \A u \in Versions \ owed : /\ Internal(u) => docs'[u].state = "NINGUNO"
                                     /\ docs'[u].state = "READY" => docs'[u].sha256 = digest[u]
      BY DEF UpToDate
    <2>2. ASSUME NEW x \in Workers, Rendering(x)', HasRow(x)', jobs'[x].version \notin owed
          PROVE  jobs'[x].snapshot = digest[jobs'[x].version]
      <3>1. Attempt(x)'
        BY <2>2 DEF Attempt
      <3>. QED  BY <1>4, <2>2, <3>1 DEF UpToDate, Rendering, HasRow
    <2>. QED  BY <2>1, <2>2, VersionsAsBefore DEF UpToDate
  <1>. QED  BY <1>1, <1>2, <1>3, <1>5, <1>6, <1>7, <1>8

LEMMA InvRows ==
  ASSUME PdfInv, PdfRows',
         \/ \E w \in Workers : (Finalize(w) /\ docs' # docs) \/ MarkFailed(w)
         \/ \E v \in Versions : Age(v)
  PROVE  PdfInv'
  <1>. USE DEF vars, versionVars, history
  <1>0. jobs \in [Workers -> Calls] /\ docs \in [Versions -> DocRows]
    BY DEF PdfInv, PdfRows, CallsSound, DocsSound
  <1>1. ASSUME NEW w \in Workers, Attempt(w), HasRow(w), docs[jobs[w].version].state \in {"PENDING", "FAILED"}
        PROVE  \A x \in Workers : Attempt(x) /\ x # w /\ jobs[x].doc = docs[jobs[w].version].id
                 => docs[jobs[w].version].id \in outlived
    BY <1>1 DEF HasRow, OneAttempt, PdfInv
  <1>2. ASSUME NEW w \in Workers, Finalize(w), docs' # docs PROVE PdfInv'
    <2>. DEFINE v == jobs[w].version
    <2>1. Attempt(w) /\ Rendering(w) /\ v \in Versions
      BY <1>2, PdfKnown DEF Finalize, Attempt, Rendering, AtStep, PdfInv
    <2>2. /\ HasRow(w) /\ docs[v].state = "PENDING" /\ AfterReady(w)
          /\ docs' = [docs EXCEPT ![v] = Doc(docs[v].id, "READY", jobs[w].snapshot, FALSE)]
      BY <1>2, <1>0 DEF Finalize
    <2>3. /\ docs'[v].id = docs[v].id /\ docs'[v].state = "READY" /\ docs'[v].sha256 = jobs[w].snapshot
          /\ \A u \in Versions : u # v => docs'[u] = docs[u]
      BY <1>0, <2>1, <2>2 DEF Doc
    <2>4. /\ \A x \in Workers : x # w => jobs'[x] = jobs[x]
          /\ \/ jobs'[w].step = "libre" /\ jobs'[w].doc = 0
             \/ jobs'[w].step = "publish" /\ jobs'[w].doc = jobs[w].doc /\ jobs'[w].version = v
      BY <1>0, <2>2 DEF AfterReady, Ends, Idle, Job
    <2>5. \A x \in Workers : Attempt(x)' /\ jobs'[x].doc = docs[v].id => docs[v].id \in outlived
      BY <1>1, <2>1, <2>2, <2>4 DEF Attempt, Rendering
    <2>6. docs[v].id \notin outlived => objects[docs[v].id] = jobs[w].snapshot
      BY <1>2, <2>2 DEF Finalize, AtStep, HasRow, Stored, PdfInv
    <2>7. v \notin owed => jobs[w].snapshot = digest[v]
      BY <2>1, <2>2 DEF UpToDate, PdfInv
    <2>. HIDE DEF v
    <2>8. UNCHANGED <<status, digest, sentDigest, lastDoc, objects, owed, outlived>>
      BY <1>2 DEF Finalize
    <2>9. \A x \in Workers : \/ jobs'[x] = jobs[x]
                             \/ jobs'[x].step = "libre" /\ jobs'[x].doc = 0
                             \/ /\ jobs'[x].step = "publish" /\ jobs'[x].doc = jobs[x].doc
                                /\ jobs'[x].version = v /\ jobs[x].version = v /\ docs'[v].state = "READY"
      BY <2>3, <2>4 DEF v
    <2>. QED  BY <2>1, <2>2, <2>3, <2>5, <2>6, <2>7, <2>8, <2>9, InvRow
  <1>3. ASSUME NEW w \in Workers, MarkFailed(w) PROVE PdfInv'
    <2>. DEFINE v == jobs[w].version
    <2>1. Attempt(w) /\ v \in Versions
      BY <1>3, PdfKnown DEF MarkFailed, Attempt, Rendering, AtStep, PdfInv
    <2>2. /\ \A x \in Workers : x # w => jobs'[x] = jobs[x]
          /\ jobs'[w].step = "libre" /\ jobs'[w].doc = 0
      BY <1>0, <1>3 DEF MarkFailed, Ends, Idle, Job
    <2>3. CASE docs' = docs
      <3>1. Quiet(w, Idle) /\ Idle.step # "head"
        BY DEF Quiet, Idle, Job
      <3>. QED  BY <1>3, <2>3, <3>1, InvQuiet DEF MarkFailed, Ends
    <2>4. CASE docs' # docs
      <3>1. /\ HasRow(w) /\ docs[v].state \in {"PENDING", "FAILED"}
            /\ docs' = [docs EXCEPT ![v] = Doc(docs[v].id, "FAILED", docs[v].sha256, FALSE)]
        BY <1>0, <1>3, <2>4 DEF MarkFailed
      <3>2. /\ docs'[v].id = docs[v].id /\ docs'[v].state = "FAILED"
            /\ \A u \in Versions : u # v => docs'[u] = docs[u]
        BY <1>0, <2>1, <3>1 DEF Doc
      <3>3. \A x \in Workers : Attempt(x)' /\ jobs'[x].doc = docs[v].id => docs[v].id \in outlived
        BY <1>1, <2>1, <2>2, <3>1 DEF Attempt, Rendering
      <3>4. UNCHANGED <<status, digest, sentDigest, lastDoc, objects, owed, outlived>>
        BY <1>3 DEF MarkFailed
      <3>. HIDE DEF v
      <3>. QED  BY <2>1, <2>2, <3>1, <3>2, <3>3, <3>4, InvRow
    <2>. QED  BY <2>3, <2>4
  <1>4. ASSUME NEW v \in Versions, Age(v) PROVE PdfInv'
    <2>1. /\ docs[v].state = "PENDING" /\ docs'[v].id = docs[v].id /\ docs'[v].state = "PENDING"
          /\ \A u \in Versions : u # v => docs'[u] = docs[u]
      BY <1>0, <1>4 DEF Age, DocRows
    <2>2. \A x \in Workers : jobs[x].doc = docs[v].id => docs[v].id \in outlived'
      BY <1>4 DEF Age
    <2>3. UNCHANGED <<status, digest, sentDigest, lastDoc, objects, owed, jobs>> /\ outlived \subseteq outlived'
      BY <1>4 DEF Age
    <2>. QED  BY <2>1, <2>2, <2>3, InvRow
  <1>. QED  BY <1>2, <1>3, <1>4

\* The row is gone: whoever was at it finds none, and the version owes nothing.
LEMMA InvErased ==
  ASSUME PdfInv, PdfRows', NEW w \in Workers, Erase(w) \/ (Invalidate(w) /\ Ends(w))
  PROVE  PdfInv'
  <1>. USE DEF PdfInv
  <1>. DEFINE v == jobs[w].version
  <1>0. v \in Versions
    BY PdfKnown DEF Erase, Invalidate, AtStep
  <1>1. /\ docs'[v].id = 0 /\ docs'[v].state = "NINGUNO"
        /\ \A u \in Versions : u # v => docs'[u] = docs[u]
    <2>1. CASE Erase(w)
      BY <1>0, <2>1 DEF Erase, NoDoc, Doc, PdfRows, DocsSound
    <2>2. CASE Invalidate(w) /\ Ends(w)
      <3>1. docs[v].state = "NINGUNO" /\ docs' = docs
        BY <2>2, <1>0 DEF Invalidate, Ends, Idle, Job, PdfRows, CallsSound
      <3>. QED  BY <1>0, <3>1, PdfKnown
    <2>. QED  BY <2>1, <2>2
  <1>2. UNCHANGED <<status, digest, sentDigest, lastDoc, objects, outlived>>
    BY DEF Erase, Invalidate, vars, versionVars
  <1>3. owed' = owed \ {v} /\ v \notin Sent
    <2>1. CASE Erase(w)
      BY <2>1 DEF Erase
    <2>2. CASE Invalidate(w) /\ Ends(w)
      <3>1. docs[v].state = "NINGUNO" /\ owed' = owed \ {v}
        BY <2>2, <1>0 DEF Invalidate, Ends, Idle, Job, PdfRows, CallsSound
      <3>. QED  BY <3>1 DEF SentHasDocument
    <2>. QED  BY <2>1, <2>2
  <1>4. /\ \A x \in Workers : x # w => jobs'[x] = jobs[x]
        /\ \/ jobs'[w].step = "libre" /\ jobs'[w].doc = 0
           \/ /\ jobs'[w].step = "delete" /\ jobs'[w].doc = jobs[w].doc /\ jobs'[w].version = v
              /\ jobs[w].doc = docs[v].id
    <2>1. jobs \in [Workers -> Calls]
      BY DEF PdfRows, CallsSound
    <2>2. CASE Ends(w)
      BY <2>1, <2>2 DEF Ends, Idle, Job
    <2>3. CASE Erase(w) /\ Goes(w, "delete")
      BY <2>1, <2>3 DEF Erase, Goes, HasRow, Calls
    <2>. QED  BY <2>2, <2>3 DEF Erase
  <1>5. \A x \in Workers : Attempt(x)' \/ AtStep(x, "publish")' =>
          /\ x # w /\ jobs'[x] = jobs[x] /\ jobs[x].version \in Versions /\ jobs[x].doc # 0
          /\ Attempt(x)' => Attempt(x)
          /\ HasRow(x)' => HasRow(x) /\ jobs[x].version # v
    BY <1>1, <1>4, PdfKnown DEF Attempt, Rendering, AtStep, HasRow
  <1>. HIDE DEF v
  <1>6. IdsOwned'
    <2>1. 0 <= lastDoc
      BY DEF PdfRows, StoreSound
    <2>2. \A x \in Workers : jobs'[x].doc <= lastDoc
      BY <1>4, <2>1 DEF IdsOwned
    <2>3. \A u \in Versions : docs'[u].id <= lastDoc
      BY <1>1, <2>1 DEF IdsOwned
    <2>4. \A t, u \in Versions : docs'[t].id = docs'[u].id /\ docs'[u].id # 0 => t = u
      BY <1>1 DEF IdsOwned
    <2>5. \A x \in Workers, u \in Versions : jobs'[x].doc = docs'[u].id /\ docs'[u].id # 0 => jobs'[x].version = u
      BY <1>0, <1>1, <1>4 DEF IdsOwned
    <2>. QED  BY <1>2, <2>2, <2>3, <2>4, <2>5 DEF IdsOwned
  <1>7. PublishesReady'
    <2>1. ASSUME NEW x \in Workers, AtStep(x, "publish")', HasRow(x)' PROVE docs'[jobs'[x].version].state = "READY"
      <3>1. AtStep(x, "publish") /\ HasRow(x) /\ jobs[x].version # v /\ jobs'[x] = jobs[x] /\ jobs[x].version \in Versions
        BY <1>5, <2>1 DEF AtStep
      <3>. QED  BY <1>1, <3>1 DEF PublishesReady
    <2>. QED  BY <2>1 DEF PublishesReady
  <1>8. SentHasDocument'
    BY <1>1, <1>2, <1>3, VersionsAsBefore DEF SentHasDocument, Sent
  <1>9. OneAttempt'
    <2>1. \A x, y \in Workers :
            Attempt(x)' /\ Attempt(y)' /\ jobs'[x].doc = jobs'[y].doc /\ jobs'[x].doc \notin outlived' => x = y
      BY <1>2, <1>5 DEF OneAttempt
    <2>2. ASSUME NEW x \in Workers, Attempt(x)', HasRow(x)', jobs'[x].doc \notin outlived'
          PROVE  docs'[jobs'[x].version].state = "PENDING" /\ ~docs'[jobs'[x].version].stale
      BY <1>1, <1>2, <1>5, <2>2 DEF OneAttempt
    <2>. QED  BY <2>1, <2>2 DEF OneAttempt
  <1>10. Stored'
    <2>1. ASSUME NEW x \in Workers, jobs'[x].step \in {"head", "finalize"}, HasRow(x)', jobs'[x].doc \notin outlived'
          PROVE  objects'[jobs'[x].doc] = jobs'[x].snapshot
      <3>1. Attempt(x)'
        BY <2>1 DEF Attempt, Rendering
      <3>. QED  BY <1>2, <1>5, <2>1, <3>1 DEF Stored
    <2>2. ASSUME NEW x \in Workers, NEW u \in Versions, AtStep(x, "delete")', docs'[u].id # 0
          PROVE  docs'[u].id # jobs'[x].doc
      <3>1. u # v /\ docs'[u] = docs[u]
        BY <1>1, <2>2
      <3>2. CASE x = w
        BY <1>0, <1>4, <2>2, <3>1, <3>2 DEF IdsOwned, AtStep
      <3>3. CASE x # w
        BY <1>4, <2>2, <3>1, <3>3 DEF Stored, AtStep
      <3>. QED  BY <3>2, <3>3
    <2>. QED  BY <2>1, <2>2 DEF Stored
  <1>11. ReadyHasBytes'
    BY <1>1, <1>2 DEF ReadyHasBytes
  <1>12. UpToDate'
    <2>1. \A u \in Versions \ owed' : /\ Internal(u) => docs'[u].state = "NINGUNO"
                                      /\ docs'[u].state = "READY" => docs'[u].sha256 = digest[u]
      BY <1>1, <1>3 DEF UpToDate
    <2>2. ASSUME NEW x \in Workers, Rendering(x)', HasRow(x)', jobs'[x].version \notin owed'
          PROVE  jobs'[x].snapshot = digest[jobs'[x].version]
      <3>1. Attempt(x)'
        BY <2>2 DEF Attempt
      <3>. QED  BY <1>3, <1>5, <2>2, <3>1 DEF UpToDate, Rendering
    <2>. QED  BY <1>2, <2>1, <2>2, VersionsAsBefore DEF UpToDate
  <1>. QED  BY <1>6, <1>7, <1>8, <1>9, <1>10, <1>11, <1>12

-----------------------------------------------------------------------------
(* The steps of the expediente.                                            *)

LEMMA InvPublished ==
  ASSUME Expediente, PdfInv, PdfRows', NEW w \in Workers, PublishReady(w)
  PROVE  PdfInv'
  <1>. DEFINE v == jobs[w].version
  <1>1. v \in Versions /\ docs[v].state = "READY"
    BY PdfKnown DEF PdfInv, PublishReady, MayPublish, AtStep, PublishesReady
  <1>2. /\ UNCHANGED <<digest, docs, lastDoc, objects, outlived, owed>>
        /\ status' = [status EXCEPT ![v] = "ENVIADA"] /\ sentDigest' = [sentDigest EXCEPT ![v] = digest[v]]
    BY DEF PublishReady, Publish, Moved, history
  <1>3. \A u \in Versions : Internal(u)' => Internal(u)
    BY <1>1, <1>2 DEF Internal, Expediente, Rows, TypeOK
  <1>4. \A u \in Sent' : u \in Sent \/ docs[u].state = "READY"
    BY <1>1, <1>2 DEF Sent, Expediente, Rows, TypeOK
  <1>5. Quiet(w, Idle) /\ Idle.step # "head"
    BY DEF Quiet, Idle, Job
  <1>6. jobs' = [jobs EXCEPT ![w] = Idle]
    BY DEF PublishReady, Ends
  <1>. HIDE DEF v
  <1>. QED  BY <1>2, <1>3, <1>4, <1>5, <1>6, InvQuietly

LEMMA InvReturned ==
  ASSUME Expediente, PdfInv, PdfRows', NEW w \in Workers, NEW v \in Versions, ReturnAndOwe(w, v)
  PROVE  PdfInv'
  <1>. DEFINE job == Job("invalidate", v, 0, 0, FALSE, 0)
  <1>1. /\ UNCHANGED <<digest, sentDigest, docs, lastDoc, objects, outlived>> /\ owed' = owed \cup {v}
        /\ status' = [status EXCEPT ![v] = "BORRADOR"] /\ jobs' = [jobs EXCEPT ![w] = job]
    BY DEF ReturnAndOwe, ReturnToDraft, Moved
  <1>2. \A u \in Versions \ owed' : Internal(u)' => Internal(u)
    BY <1>1 DEF Internal, Expediente, Rows, TypeOK
  <1>3. Sent' = Sent
    BY <1>1 DEF Sent
  <1>4. Quiet(w, job) /\ job.step # "head"
    BY DEF Quiet, Job
  <1>. HIDE DEF job
  <1>. QED  BY <1>1, <1>2, <1>3, <1>4, InvQuietly

\* The other operations send nothing, and write only what has no document.
LEMMA OthersWriteDrafts ==
  ASSUME Rows, Pointed, \/ Desk \/ Build \/ Approve \/ Convert \/ Time
                        \/ \E v \in Versions : Answer(v)
  PROVE  Sent' = Sent /\ \A v \in Versions : /\ Internal(v)' => Internal(v)
                                             /\ digest'[v] # digest[v] => Internal(v)
  <1>. DEFINE goal == Sent' = Sent /\ \A v \in Versions : /\ Internal(v)' => Internal(v)
                                                          /\ digest'[v] # digest[v] => Internal(v)
  <1>1. CASE UNCHANGED <<status, digest, sentDigest>>
    BY <1>1, VersionsAsBefore
  <1>2. ASSUME UNCHANGED <<digest, sentDigest>>, NEW v \in Versions, NEW to \in {"EN_REVISION", "RECHAZADA", "ACEPTADA"},
               status' = [status EXCEPT ![v] = to]
        PROVE  goal
    BY <1>2 DEF Sent, Internal, Rows, TypeOK
  <1>3. CASE Desk
    <2>1. CASE Close
      BY <1>1, <1>2, <2>1 DEF Close, Rows, TypeOK
    <2>. QED  BY <1>1, <1>3, <2>1 DEF Desk, StaffTransition, RequestInformation, MarkInformationReviewed,
                                      Reopen, versionVars
  <1>4. ASSUME NEW v \in Versions, NEW c, CreateVersion(v, c) PROVE goal
    BY <1>4 DEF CreateVersion, InsertVersion, Created, Sent, Internal, Rows, TypeOK
  <1>5. ASSUME NEW v \in Versions, NEW c, ReplaceDraft(v, c) PROVE goal
    BY <1>5 DEF ReplaceDraft, Sent, Internal, Rows, TypeOK
  <1>6. ASSUME NEW v \in Versions, Submit(v) \/ Reject(v) PROVE goal
    BY <1>2, <1>6 DEF Submit, Reject, Moved
  <1>7. CASE Build
    BY <1>4, <1>5, <1>6, <1>7 DEF Build, ClonePublished
  <1>8. ASSUME NEW v \in Versions, Answer(v) PROVE goal
    BY <1>2, <1>8 DEF Answer, Accept, Decline
  <1>9. CASE Approve \/ Convert \/ Time
    BY <1>1, <1>9 DEF Approve, RequestApproval, DecideApproval, Convert, ConvertToProject, Time,
                      LapseVersion, ExpireApproval, versionVars
  <1>. QED  BY <1>3, <1>7, <1>8, <1>9

LEMMA InvOthers ==
  ASSUME Expediente, PdfInv, UNCHANGED pdfVars,
         \/ Desk \/ Build \/ Approve \/ Convert \/ Time
         \/ \E v \in Versions : Answer(v)
  PROVE  PdfInv'
  <1>. USE DEF PdfInv
  <1>1. UNCHANGED <<docs, lastDoc, objects, jobs, owed, outlived>>
    BY DEF pdfVars, history
  <1>2. Sent' = Sent /\ \A v \in Versions : /\ Internal(v)' => Internal(v)
                                            /\ digest'[v] # digest[v] => Internal(v)
    BY OthersWriteDrafts DEF Expediente
  <1>3. PdfRows'
    BY <1>1 DEF PdfRows, DocsSound, CallsSound, StoreSound, DocSound, CallSound
  <1>4. IdsOwned' /\ PublishesReady' /\ SentHasDocument' /\ OneAttempt' /\ Stored' /\ ReadyHasBytes'
    BY <1>1, <1>2 DEF IdsOwned, PublishesReady, SentHasDocument, OneAttempt, Stored, ReadyHasBytes, HasRow,
                      AtStep, Attempt, Rendering
  <1>5. UpToDate'
    <2>1. \A v \in Versions \ owed : /\ Internal(v)' => docs[v].state = "NINGUNO"
                                     /\ docs[v].state = "READY" => docs[v].sha256 = digest'[v]
      BY <1>2 DEF UpToDate
    <2>2. ASSUME NEW x \in Workers, Rendering(x), HasRow(x), jobs[x].version \notin owed
          PROVE  jobs[x].snapshot = digest'[jobs[x].version]
      <3>1. jobs[x].version \in Versions /\ docs[jobs[x].version].state # "NINGUNO"
        BY <2>2, PdfKnown DEF Rendering, Attempt, HasRow
      <3>. QED  BY <1>2, <2>2, <3>1 DEF UpToDate
    <2>. QED  BY <1>1, <2>1, <2>2 DEF UpToDate, Rendering, HasRow
  <1>. QED  BY <1>3, <1>4, <1>5

LEMMA PdfInvStep == Expediente /\ PdfInv /\ [PdfNext]_allVars => PdfInv'
  <1>. SUFFICES ASSUME Expediente, PdfInv, [PdfNext]_allVars PROVE PdfInv'
    OBVIOUS
  <1>0. PdfRows'
    BY PdfRowsStep DEF PdfInv
  <1>1. ASSUME NEW w \in Workers, NEW v \in Versions, NEW publish \in BOOLEAN, NEW expected \in 0..MaxEdits,
               Prepare(w, v, publish, expected)
        PROVE  PdfInv'
    <2>1. CASE Claim(w, v, publish, expected)
      <3>1. ~Internal(v)
        BY <1>1 DEF Prepare, PdfSources, VersionStatuses, Internal
      <3>2. UNCHANGED <<status, digest, sentDigest, objects, outlived, owed>> /\ AtStep(w, "libre")
        BY <1>1 DEF Prepare, vars, versionVars, history
      <3>. QED  BY <1>0, <2>1, <3>1, <3>2, InvClaim
    <2>2. CASE Reuse(w, v, publish, expected)
      BY <1>0, <1>1, <2>2, InvMoves DEF Prepare
    <2>. QED  BY <1>1, <2>1, <2>2 DEF Prepare
  <1>2. ASSUME NEW w \in Workers, Call(w) PROVE PdfInv'
    <2>1. 0 \in 0..MaxEdits /\ \A v \in Versions : 1..digest[v] \subseteq 0..MaxEdits
      BY ConstantsAssumption DEF Expediente, Rows, TypeOK
    <2>. QED  BY <1>0, <1>1, <1>2, <2>1, InvReturned DEF Call
  <1>3. ASSUME NEW w \in Workers, Work(w) PROVE PdfInv'
    <2>1. CASE Upload(w) \/ CleanUp(w) \/ DeleteObject(w)
      BY <1>0, <2>1, InvObjects
    <2>2. CASE RenderFails(w) \/ Verify(w) \/ Crash(w)
      BY <1>0, <2>2, InvMoves
    <2>3. CASE Finalize(w)
      BY <1>0, <2>3, InvMoves, InvRows
    <2>4. CASE MarkFailed(w)
      BY <1>0, <2>4, InvRows
    <2>5. CASE Invalidate(w)
      BY <1>0, <2>5, InvMoves, InvErased
    <2>6. CASE Erase(w)
      BY <1>0, <2>6, InvErased
    <2>7. CASE PublishReady(w)
      BY <1>0, <2>7, InvPublished
    <2>. QED  BY <1>3, <2>1, <2>2, <2>3, <2>4, <2>5, <2>6, <2>7 DEF Work
  <1>4. ASSUME NEW v \in Versions, Age(v) PROVE PdfInv'
    BY <1>0, <1>4, InvRows
  <1>5. ASSUME NEW v \in Versions, AnswerWithPdf(v) PROVE PdfInv'
    BY <1>5, InvOthers DEF AnswerWithPdf
  <1>6. CASE (Desk \/ Build \/ Approve \/ Convert \/ Time) /\ UNCHANGED pdfVars
    BY <1>6, InvOthers
  <1>7. CASE UNCHANGED allVars
    BY <1>0, <1>7
    DEF allVars, vars, versionVars, pdfVars, history, PdfInv, IdsOwned, PublishesReady, SentHasDocument, Sent,
        OneAttempt, Stored, ReadyHasBytes, UpToDate, Internal, HasRow, AtStep, Attempt, Rendering
  <1>. QED  BY <1>2, <1>3, <1>4, <1>5, <1>6, <1>7 DEF PdfNext

LEMMA PdfInvariant == PdfSpec => [](Expediente /\ PdfInv)
  <1>1. PdfInit => Expediente /\ PdfInv
    BY ExpedienteInit, PdfInvInit DEF PdfInit
  <1>2. PdfInv => PdfRows
    BY DEF PdfInv
  <1>. QED  BY <1>1, <1>2, ExpedienteGoesOn, PdfInvStep, PTL DEF PdfSpec

-----------------------------------------------------------------------------

\* A READY document has in the store the bytes rendered for it, whatever attempts failed, crashed, were taken
\* over or cleaned up, unless one was taken over while it was still alive.
THEOREM ReadyDocumentsHaveBytes == PdfSpec => []ReadyHasBytes
  <1>1. PdfInv => ReadyHasBytes
    BY DEF PdfInv
  <1>. QED  BY <1>1, PdfInvariant, PTL

\* Every version that was sent has its READY document, for ever: no return to draft that was still under way
\* when it was sent can delete it.
THEOREM SentHasItsDocument == PdfSpec => []SentHasDocument
  <1>1. PdfInv => SentHasDocument
    BY DEF PdfInv
  <1>. QED  BY <1>1, PdfInvariant, PTL

\* The customer's PDF says what was sent, unless a return to draft of the version still owes the invalidation of
\* its document: that window between two transactions is the only way to send a stale PDF.
THEOREM StalePdfOnlyInTheWindow == PdfSpec => []StaleOnlyWhenOwed
  <1>1. Expediente /\ PdfInv => StaleOnlyWhenOwed
    BY DEF Expediente, SentUnwritten, PdfInv, SentHasDocument, UpToDate, StaleOnlyWhenOwed, Sent
  <1>. QED  BY <1>1, PdfInvariant, PTL

\* A READY row keeps its content and its state until it is deleted.
THEOREM ReadyNeverDemoted == PdfSpec => ReadyIsFinal
  <1>. DEFINE final == \A v \in Versions : docs[v].state = "READY" /\ docs'[v].id = docs[v].id => docs'[v] = docs[v]
  <1>1. PdfInv /\ [PdfNext]_allVars => [final]_allVars
    <2>. SUFFICES ASSUME PdfInv, PdfNext, NEW v \in Versions, docs[v].state = "READY", docs'[v].id = docs[v].id
                  PROVE  docs'[v] = docs[v]
      BY DEF final
    <2>0. docs \in [Versions -> DocRows]
      BY DEF PdfInv, PdfRows, DocsSound
    <2>1. ASSUME NEW w \in Workers, NEW u \in Versions, NEW publish, NEW expected, Prepare(w, u, publish, expected)
          PROVE  docs'[v] = docs[v]
      BY <2>0, <2>1 DEF Prepare, Reuse, Claim, MayClaim
    <2>2. ASSUME NEW w \in Workers, Work(w) PROVE docs'[v] = docs[v]
      <3>1. CASE Finalize(w)
        BY <2>0, <3>1 DEF Finalize
      <3>2. CASE MarkFailed(w)
        BY <2>0, <3>2 DEF MarkFailed
      <3>3. CASE Erase(w)
        BY <2>0, <3>3, PdfKnown DEF Erase, NoDoc, Doc, PdfInv
      <3>4. CASE UNCHANGED docs
        BY <3>4
      <3>. QED  BY <2>2, <3>1, <3>2, <3>3, <3>4
                DEF Work, Upload, RenderFails, Verify, CleanUp, PublishReady, Invalidate, DeleteObject, Crash
    <2>3. ASSUME NEW u \in Versions, Age(u) PROVE docs'[v] = docs[v]
      BY <2>0, <2>3 DEF Age
    <2>. QED  BY <2>1, <2>2, <2>3 DEF PdfNext, Call, ReturnAndOwe, AnswerWithPdf, pdfVars
  <1>. QED  BY <1>1, PdfInvariant, PTL DEF PdfSpec, ReadyIsFinal

\* What a publication freezes as sent is what the person confirming had on the screen.
THEOREM WhatWasReviewedIsSent == PdfSpec => ReviewedIsSent
  <1>. DEFINE reviewed ==
         \A w \in Workers :
           LET v == jobs[w].version
           IN jobs[w].expected # 0 /\ v \notin Sent /\ PublishReady(w) => sentDigest'[v] = jobs[w].expected
  <1>1. Expediente /\ PdfInv /\ [PdfNext]_allVars => [reviewed]_allVars
    <2>. SUFFICES ASSUME Expediente, PdfInv, NEW w \in Workers, jobs[w].expected # 0, PublishReady(w)
                  PROVE  sentDigest'[jobs[w].version] = jobs[w].expected
      BY DEF reviewed
    <2>1. jobs[w].version \in Versions
      BY PdfKnown DEF PublishReady, AtStep, PdfInv
    <2>. QED  BY <2>1 DEF PublishReady, MayPublish, Publish, Expediente, Rows, TypeOK
  <1>. QED  BY <1>1, PdfInvariant, PTL DEF PdfSpec, ReviewedIsSent
=============================================================================
