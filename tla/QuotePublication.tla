-------------------------- MODULE QuotePublication --------------------------
(***************************************************************************)
(* The commercial PDF of a version and what publishing makes of it.        *)
(*                                                                         *)
(* publishQuoteVersion, the PDF route and returnQuoteToDraft are not one   *)
(* transaction: they await a rendering, an object store and several        *)
(* transactions, and other calls run in between.  A call in flight is a    *)
(* job of a worker (a server request); each await is a step, and a worker  *)
(* may crash at any step.  QuoteLifecycle's operations are the rest of     *)
(* the system.                                                             *)
(***************************************************************************)
EXTENDS QuoteLifecycle

CONSTANTS
  Workers,   \* server requests that may be in flight
  MaxDocs    \* bound on the generated_documents rows ever inserted

ASSUME PublicationAssumption == MaxDocs \in Nat \ {0}

VARIABLES
  docs,     \* the GeneratedDocument row of each version
  lastDoc,  \* the last document id given out
  objects,  \* the object store: what is under each document's key, 0 for nothing
  jobs,     \* the step each worker is at
  owed,     \* history: versions back in draft whose document is not invalidated yet
  outlived  \* history: documents that aged with an attempt on them still alive

history == <<owed, outlived>>
pdfVars == <<docs, lastDoc, objects, jobs, history>>
allVars == <<vars, pdfVars>>

DocIds == 1..MaxDocs
DocStates == {"NINGUNO", "PENDING", "READY", "FAILED"}

\* sha256 stands for the content that was rendered; stale: updatedAt is too long ago.
Doc(id, state, sha256, stale) == [id |-> id, state |-> state, sha256 |-> sha256, stale |-> stale]

NoDoc == Doc(0, "NINGUNO", 0, FALSE)

\* expected: the digest the person confirming has on screen, 0 when the call gives none.
Job(step, version, doc, snapshot, publish, expected) ==
  [step |-> step, version |-> version, doc |-> doc, snapshot |-> snapshot, publish |-> publish,
   expected |-> expected]

Idle == Job("libre", NoVersion, 0, 0, FALSE, 0)

Steps == {"libre", "render", "head", "finalize", "publish", "cleanup", "fail",
          "invalidate", "erase", "erase with object", "delete"}

\* The columns of a row and the arguments of a call in flight go together.
PdfTypeOK ==
  /\ docs \in [Versions -> [id : 0..MaxDocs, state : DocStates, sha256 : 0..MaxEdits,
                            stale : BOOLEAN]]
  /\ lastDoc \in 0..MaxDocs
  /\ objects \in [DocIds -> 0..MaxEdits]
  /\ jobs \in [Workers -> [step : Steps, version : Versions \cup {NoVersion},
                           doc : 0..MaxDocs, snapshot : 0..MaxEdits, publish : BOOLEAN,
                           expected : 0..MaxEdits]]
  /\ owed \subseteq Versions /\ outlived \subseteq DocIds
  /\ \A v \in Versions : /\ docs[v].id = 0 <=> docs[v].state = "NINGUNO"
                         /\ docs[v].sha256 # 0 <=> docs[v].state = "READY"
  /\ \A w \in Workers : /\ jobs[w].version = NoVersion <=> jobs[w].step = "libre"
                        /\ jobs[w].step = "render" => jobs[w].snapshot # 0

\* The row a job works on is still the version's.
HasRow(w) == docs[jobs[w].version].id = jobs[w].doc

AtStep(w, step) == jobs[w].step = step

Goes(w, step) == jobs' = [jobs EXCEPT ![w].step = step]

Ends(w) == jobs' = [jobs EXCEPT ![w] = Idle]

\* The catch, which needs only the id of the document.
Fails(w, step) == jobs' = [jobs EXCEPT ![w] = Job(step, @.version, @.doc, 0, FALSE, 0)]

\* What follows a READY document: the transition, when the call was a publication.
AfterReady(w) ==
  IF jobs[w].publish
  THEN jobs' = [jobs EXCEPT ![w] = Job("publish", @.version, @.doc, 0, TRUE, @.expected)]
  ELSE Ends(w)

-----------------------------------------------------------------------------
(* generateQuotePdf                                                        *)

\* Nothing to prepare: the READY document is reused.
Reuse(w, v, publish, expected) ==
  /\ docs[v].state = "READY" /\ publish
  /\ jobs' = [jobs EXCEPT ![w] = Job("publish", v, docs[v].id, 0, TRUE, expected)]
  /\ UNCHANGED <<docs, lastDoc>>

\* Preparing a document somebody may still be preparing.
MayClaimAnyway(v) == docs[v].state # "READY"

\* No row, the row of a failed attempt, or that of an abandoned one.
MayClaim(v) ==
  \/ docs[v].state \in {"NINGUNO", "FAILED"}
  \/ docs[v].state = "PENDING" /\ docs[v].stale

\* The row becomes PENDING and the content is read in the same transaction. Claiming an
\* existing row keeps its id, and with it the key of the object.
Claim(w, v, publish, expected) ==
  LET id == IF docs[v].id = 0 THEN lastDoc + 1 ELSE docs[v].id
  IN /\ MayClaim(v)
     /\ id \in DocIds
     /\ docs' = [docs EXCEPT ![v] = Doc(id, "PENDING", 0, FALSE)]
     /\ lastDoc' = IF docs[v].id = 0 THEN id ELSE lastDoc
     /\ jobs' = [jobs EXCEPT ![w] = Job("render", v, id, digest[v], publish, expected)]

\* The first transaction. A PENDING row that is not stale refuses the call.
Prepare(w, v, publish, expected) ==
  /\ AtStep(w, "libre")
  /\ v \in Created /\ status[v] \in PdfSources
  /\ Reuse(w, v, publish, expected) \/ Claim(w, v, publish, expected)
  /\ UNCHANGED <<vars, objects, history>>

\* The PDF is rendered and put under the document's key; the store's answer may be lost,
\* and then nothing counts as uploaded.
Upload(w) ==
  /\ AtStep(w, "render")
  /\ objects' = [objects EXCEPT ![jobs[w].doc] = jobs[w].snapshot]
  /\ Goes(w, "head") \/ Fails(w, "fail")
  /\ UNCHANGED <<vars, docs, lastDoc, history>>

\* Rendering or uploading throws.
RenderFails(w) ==
  /\ AtStep(w, "render")
  /\ Fails(w, "fail")
  /\ UNCHANGED <<vars, docs, lastDoc, objects, history>>

\* storage.head: an object is there and has the size that was rendered, which another
\* content may have too; or it is not, or has not, or the store does not answer.
Verify(w) ==
  /\ AtStep(w, "head")
  /\ \/ objects[jobs[w].doc] # 0 /\ Goes(w, "finalize")
     \/ Fails(w, "cleanup")
  /\ UNCHANGED <<vars, docs, lastDoc, objects, history>>

\* Finalising the version's row, whichever it is.
FinalizeVersion(w) ==
  LET v == jobs[w].version IN
  /\ AtStep(w, "finalize")
  /\ docs[v].state = "PENDING"
  /\ docs' = [docs EXCEPT ![v].state = "READY", ![v].sha256 = jobs[w].snapshot]
  /\ AfterReady(w)
  /\ UNCHANGED <<vars, lastDoc, objects, history>>

\* The second transaction, by document id: a row that is gone or no longer PENDING is left
\* alone; one that somebody else finished is as good. It may also fail.
Finalize(w) ==
  LET v == jobs[w].version
      ready == [docs EXCEPT ![v] = Doc(@.id, "READY", jobs[w].snapshot, FALSE)]
  IN /\ AtStep(w, "finalize")
     /\ \/ HasRow(w) /\ docs[v].state = "READY" /\ AfterReady(w) /\ UNCHANGED docs
        \/ HasRow(w) /\ docs[v].state = "PENDING" /\ AfterReady(w) /\ docs' = ready
        \/ Fails(w, "cleanup") /\ UNCHANGED docs
     /\ UNCHANGED <<vars, lastDoc, objects, history>>

\* catch: the uploaded object is removed, best effort.
CleanUp(w) ==
  /\ AtStep(w, "cleanup")
  /\ objects' \in {objects, [objects EXCEPT ![jobs[w].doc] = 0]}
  /\ Fails(w, "fail")
  /\ UNCHANGED <<vars, docs, lastDoc, history>>

\* markFailed without looking at the row's state.
MarkAnyFailed(w) ==
  /\ AtStep(w, "fail")
  /\ docs' = IF HasRow(w) THEN [docs EXCEPT ![jobs[w].version].state = "FAILED"] ELSE docs
  /\ Ends(w)
  /\ UNCHANGED <<vars, lastDoc, objects, history>>

\* markFailed: a READY row is never demoted.
MarkFailed(w) ==
  LET v == jobs[w].version IN
  /\ AtStep(w, "fail")
  /\ docs' = IF HasRow(w) /\ docs[v].state \in {"PENDING", "FAILED"}
               THEN [docs EXCEPT ![v] = Doc(@.id, "FAILED", @.sha256, FALSE)]
               ELSE docs
  /\ Ends(w)
  /\ UNCHANGED <<vars, lastDoc, objects, history>>

\* Three minutes pass over a PENDING row, its attempt dead or only slow.
Age(v) ==
  /\ docs[v].state = "PENDING" /\ ~docs[v].stale
  /\ docs' = [docs EXCEPT ![v].stale = TRUE]
  /\ outlived' = IF \E w \in Workers : jobs[w].doc = docs[v].id
                   THEN outlived \cup {docs[v].id} ELSE outlived
  /\ UNCHANGED <<vars, lastDoc, objects, jobs, owed>>

-----------------------------------------------------------------------------
(* publishQuoteVersion's transition and returnQuoteToDraft's invalidation. *)

\* Publishing on the word of the confirmation, whatever became of the content.
MayPublishUnseen(w) == HasRow(w)

\* Publishing a version whose document was ready once.
MayPublishUndocumented(w) == jobs[w].expected \in {0, digest[jobs[w].version]}

\* The publication's row refers to the document's, and the content must be the one
\* confirmed, when the call says which.
MayPublish(w) ==
  /\ HasRow(w)
  /\ jobs[w].expected \in {0, digest[jobs[w].version]}

PublishReady(w) ==
  /\ AtStep(w, "publish")
  /\ MayPublish(w)
  /\ Publish(jobs[w].version)
  /\ Ends(w)
  /\ UNCHANGED <<docs, lastDoc, objects, history>>

\* The first transaction of returnQuoteToDraft.
ReturnAndOwe(w, v) ==
  /\ AtStep(w, "libre")
  /\ ReturnToDraft(v)
  /\ jobs' = [jobs EXCEPT ![w] = Job("invalidate", v, 0, 0, FALSE, 0)]
  /\ owed' = owed \cup {v}
  /\ UNCHANGED <<docs, lastDoc, objects, outlived>>

\* invalidateQuoteVersionDocument reads the version's row, outside any transaction.
Invalidate(w) ==
  LET v == jobs[w].version
      reads(step) == [jobs EXCEPT ![w] = Job(step, v, docs[v].id, 0, FALSE, 0)]
  IN /\ AtStep(w, "invalidate")
     /\ \/ docs[v].state = "NINGUNO" /\ Ends(w) /\ owed' = owed \ {v}
        \/ docs[v].state = "READY" /\ jobs' = reads("erase with object") /\ UNCHANGED owed
        \/ docs[v].state \in {"PENDING", "FAILED"} /\ jobs' = reads("erase") /\ UNCHANGED owed
     /\ UNCHANGED <<vars, docs, lastDoc, objects, outlived>>

\* It deletes the row it read. Without that row the call fails, and so it does when a
\* publication refers to the row: the foreign key is ON DELETE RESTRICT.
Erase(w) ==
  LET v == jobs[w].version IN
  /\ jobs[w].step \in {"erase", "erase with object"}
  /\ HasRow(w) /\ v \notin Sent
  /\ docs' = [docs EXCEPT ![v] = NoDoc]
  /\ owed' = owed \ {v}
  /\ IF AtStep(w, "erase") THEN Ends(w) ELSE Goes(w, "delete")
  /\ UNCHANGED <<vars, lastDoc, objects, outlived>>

\* The object of the row that was deleted, best effort.
DeleteObject(w) ==
  /\ AtStep(w, "delete")
  /\ objects' = [objects EXCEPT ![jobs[w].doc] = 0]
  /\ Ends(w)
  /\ UNCHANGED <<vars, docs, lastDoc, history>>

\* The request dies: a crash, a restart, or a step of it that throws.
Crash(w) ==
  /\ ~AtStep(w, "libre")
  /\ Ends(w)
  /\ UNCHANGED <<vars, docs, lastDoc, objects, history>>

\* The customer's answer needs the document READY and its object in the store.
AnswerWithPdf(v) ==
  /\ docs[v].state = "READY" /\ objects[docs[v].id] # 0
  /\ Answer(v)
  /\ UNCHANGED pdfVars

-----------------------------------------------------------------------------

PdfInit ==
  /\ Init
  /\ docs = [v \in Versions |-> NoDoc]
  /\ lastDoc = 0
  /\ objects = [d \in DocIds |-> 0]
  /\ jobs = [w \in Workers |-> Idle]
  /\ owed = {} /\ outlived = {}

\* The confirmation dialog read the digest at some earlier moment.
Call(w) ==
  \E v \in Versions :
    \/ \E publish \in BOOLEAN : Prepare(w, v, publish, 0)
    \/ \E seen \in 1..digest[v] : Prepare(w, v, TRUE, seen)
    \/ ReturnAndOwe(w, v)

Work(w) ==
  \/ Upload(w) \/ RenderFails(w) \/ Verify(w) \/ Finalize(w)
  \/ CleanUp(w) \/ MarkFailed(w)
  \/ PublishReady(w)
  \/ Invalidate(w) \/ Erase(w) \/ DeleteObject(w)
  \/ Crash(w)

PdfNext ==
  \/ \E w \in Workers : Call(w) \/ Work(w)
  \/ \E v \in Versions : Age(v) \/ AnswerWithPdf(v)
  \/ (Desk \/ Build \/ Approve \/ Convert \/ Time) /\ UNCHANGED pdfVars

PdfSpec == PdfInit /\ [][PdfNext]_allVars

-----------------------------------------------------------------------------
(* Properties.                                                             *)

\* A document that says READY has its bytes in the store, those that were rendered for it,
\* whatever attempts failed, were abandoned and taken over, or cleaned up after themselves
\* (the key belongs to the document id, not to the attempt). The exception is the one the
\* comment on PDF_PENDING_STALE_MS rules out: an attempt that outlived the three minutes.
ReadyHasBytes ==
  \A v \in Versions :
    docs[v].state = "READY" /\ docs[v].id \notin outlived
      => objects[docs[v].id] = docs[v].sha256

\* A proposal the customer can see has a READY document, for ever: publishing follows the
\* preparation, and no return to draft that was still under way can delete it.
SentHasDocument == \A v \in Sent : docs[v].state = "READY"

\* A READY document is final until it is deleted: attempts that were taken over and end late
\* neither fail it nor give it another content.
ReadyIsFinal ==
  [][\A v \in Versions :
       docs[v].state = "READY" /\ docs'[v].id = docs[v].id => docs'[v] = docs[v]]_allVars

\* What is frozen as sent is what the person who confirmed had reviewed, although others
\* may return, edit and submit the version while its document is prepared.
ReviewedIsSent ==
  [][\A w \in Workers :
       LET v == jobs[w].version
       IN jobs[w].expected # 0 /\ v \notin Sent /\ PublishReady(w)
            => sentDigest'[v] = jobs[w].expected]_allVars

\* The customer's PDF can say something else than what was sent only when the return to
\* draft of that version still owes its invalidation: no race of renderers does it.
StaleOnlyWhenOwed ==
  \A v \in Sent \ owed : docs[v].sha256 = sentDigest[v]
=============================================================================
