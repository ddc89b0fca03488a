# A verification development for ocpool-web

ocpool-web is the commercial portal of a pool builder: customers file quote requests, staff answer
them with quotes in versions, the customer accepts or declines the published one, and an acceptance
becomes a project. It is a Next.js application over PostgreSQL (Prisma), with an S3-like object
store, an SMTP provider, a notification worker and a server-sent-events stream.

This directory models the parts where the business can lose money, a customer, a file or the
control of an account:

- the life of an *expediente* (one request with its quote, approvals, publications, acceptance and
  project), what its versions cost, and the PDF that is sent with it;
- the outbox whose workers mail everybody about it, and the counter of the inbox in the browser;
- how requests and messages come in, and who answers for them when somebody leaves the team;
- the attachments and their bytes; and the ways into an account and out of it.

File references below are relative to `src/server/modules/` unless they say otherwise.

## 1. The system

| Component | State it keeps | Operations | What must hold |
|---|---|---|---|
| Request desk (`quote-requests/domain.ts`, `staff-service.ts`) | `QuoteRequest.status`, assignee | status menu, request information, mark reviewed, close, reopen, assign, take | no lost deal; closing withdraws the proposal |
| Quote versions (`quotes/service.ts`) | `QuoteVersion`, `Quote.{current,working,published}VersionId`, `QuotePublication` | create, clone, replace draft, submit, return, reject, publish | the pointers agree with the versions; what was sent is never rewritten |
| Approvals (`quotes/approval-service.ts`) | `QuoteApproval` | request, decide, expire, supersede | only an authorised content is sent; unique keys are never hit |
| Customer answers (`quote-documents/acceptance-service.ts`, `decline-service.ts`) | `QuoteAcceptance` | accept, decline | at most one deal; retries answered with the receipt |
| Commercial PDF (`quote-documents/service.ts`) | `GeneratedDocument`, `StorageObject`, the store | generate, reuse, take over, fail, invalidate | READY means the bytes are there and are those of what was sent |
| Workspace projection (`quotes/workspace-projection.ts`) | none | classify the expediente | total, and it names who must act |
| Projects (`projects/service.ts`) | `Project`, checklist | convert, handoff, complete | one project per acceptance |
| Pricing (`quotes/domain.ts`) | none | half-up rounding, totals | bounded, consistent totals |
| Intake (`quote-requests/service.ts`) | requests, folio sequence | submit a form | one request per form, one folio per request |
| Messaging (`messaging/`) | conversation, messages, read marks | send, read | no duplicated message, read marks only advance |
| Notifications (`notifications/`) | `OutboxEvent`, `NotificationDelivery` | claim, fan out, send, retry | every event is delivered or given up; no double completion |
| Inbox (`inbox/`) | `InboxNotification`, reminder log | record, resolve, remind | one open notice per group |
| Realtime (`src/server/realtime/`) | hub subscriptions, LISTEN connection | publish, deliver, resync | a browser converges to the counts |
| Private files (`private-files/`) | reservations, `StorageObject`, the store | reserve, complete, reject, delete | an available file has its bytes |
| Authentication (`src/server/auth/`) | sessions, tokens, MFA counter, rate limits | login, links, recovery, revoke | single use, one winner |
| Authorization, team, account, onboarding, catalog, portal, analytics, platform, UI | configuration, reports, reads | — | see `PROJECT.json` |

**How they interact.** Almost every operation is one database transaction that first locks the
`quote_requests` row, or a join that includes it, `FOR UPDATE`; so two operations on one expediente
are serial. The exceptions are what makes the system hard:

- publishing is *several* transactions: prepare the PDF (transaction), render and upload (no
  transaction), finalise (transaction), publish (transaction); other requests run in between and
  the process may die at any await;
- `returnQuoteToDraft` commits, and only then a second transaction invalidates the PDF;
- the conversion to a project locks nothing and leans on unique keys;
- a suspension moves the work of several requests in one transaction, listing it without a lock;
- an attachment is a row and an object, written one after the other, and the completion's
  transaction writes by id over what it read before;
- passwords are hashed and one-time codes checked between a read and a write of the account;
- domain events leave through an outbox that any number of workers poll, each holding rows under a
  lease while it awaits the database and the mail provider, and through `pg_notify`;
- time passes: validity of a version, expiry of an approval, age of a PENDING document.

**Hazards.** `PROJECT.json` lists 40, each at its line, with the properties that cover it: sequences
of legal calls that corrupt the three pointers or the approvals' keys; races and crashes around the
PDF and the attachments; answers racing staff; leases and retries of the notification workers;
deliveries of the realtime feed out of order or lost; forms and messages sent twice; work given to
somebody who is leaving; single-use credentials and sessions. Three have no property, with the
reason in their note: the lost acknowledgement of a commit, the order of locks and the reminder
sweep.

## 2. The modules

| Module | Models | State ↔ code |
|---|---|---|
| `CommercialStates` | the vocabularies and transition tables of requests and versions | a table is the set of its pairs |
| `QuotePricing` | a line's amounts, the rounding, the gate of the discount (`quotes/domain.ts`, `quotes/service.ts`) | no state |
| `QuoteTotals` | extends it with the sums of a version, a line at a time | `totals`, `kinds` |
| `QuoteLifecycle` | every operation on one expediente | one variable per column the guards read, see below |
| `OfferContract` | abstract: proposals are offered one after another, one answer, one deal | `deal`, `offer`, `latest` |
| `WorkspaceProjection` | `resolveQuoteWorkspaceProjection` as an operator over the state | no state |
| `QuotePublication` | extends `QuoteLifecycle` with the PDF, the object store and the calls in flight | `docs`, `objects`, `jobs` |
| `NotificationOutbox` | the outbox events, their mails and the workers | `events`, `deliveries`, `cancelled` are table rows; `jobs` is where each worker's loop is |
| `MailContract` | abstract: a notice is told or given up once, a mail is promised, taken, sent or given up | `notice`, `letters`, `handed`, `excused`, `told` |
| `PrivateFiles` | the attachments of one request | `rows` is `FileAttachment` with its `StorageObject`; `store` is the bytes the object store has |
| `AccountAccess` | one account: passwords, codes, links, sessions, and the team's operations on it | `user`, `links`, `sessions` are table rows |
| `InboxFeed` | from a commit in the inbox to the counter of a tab | `chain` is the hub's promise chain, `stream` and `wire` the connection, `tab` the provider's state |
| `RequestDesk` | forms, folios, messages and the notices they leave | `requests`, `nextFolio`, `conversations`, `messages`, `notices` |
| `ConversationView` | extends `RequestDesk` with the instants of the messages and one live view of a conversation | `order` is the pairs of instants by `createdAt`; `shown`, `cursor` and `fetches` are the panel's, `mark` is `lastReadAt` |
| `WorkHandover` | assignments, takes, conversions, changes of owner and suspensions of the team | `assignee`, `openRows`, `owner`, `members` |
| `X_proofs` | the theorems of module `X`: `QuoteLifecycle` (with `WorkspaceProjection` and `QuoteTotals`), `QuotePublication`, `NotificationOutbox`, `PrivateFiles`, `AccountAccess`, `InboxFeed`, `RequestDesk` (with `ConversationView`), `WorkHandover` | |
| `MCX` | the instance of module `X` for TLC, for the modules that have runs | |

`QuoteTotals` EXTENDS `QuotePricing`; `WorkspaceProjection` and `QuotePublication` EXTEND
`QuoteLifecycle`, which instantiates `OfferContract` through the mapping `Deal`, `OfferOf`,
`published`; `NotificationOutbox` instantiates `MailContract` through `Notices`, `Letters`, `Handed`
and its own `cancelled` and `promised`; `ConversationView` EXTENDS `RequestDesk`. What
`QuoteLifecycle` reads of a version's content is `ContentOf` of its lines: `MCQuoteLifecycle` makes
the contents of the runs with it. The other modules stand alone. The business reaches the outbox and
the inbox only by inserting rows in its own transaction (`Record`, `RecordNotice`), and nothing they
do is read by a guard of the business; `WorkHandover` keeps of the request's status only what the
handover tells apart.

**QuoteLifecycle.** One action per operation; each is the whole handler. `request` is the request's
status; `status`, `number`, `content`, `digest`, `sentDigest`, `lapsed` are functions over
`Versions`; `current`, `working`, `published` are the quote's pointers; `publication`, `approvals`,
`acceptances` and `projects` are the rows of their tables. `Moved` and `MayTransition` are
`performQuoteVersionTransition`, which `Submit`, `ReturnToDraft`, `Reject` and `Publish` share with
a different target, as in the code. A unique key is a guard: an action that would hit it does not
happen, because its transaction rolls back. In `RequestApproval` the keys are *not* guards: that the
service respects them is the property `ApprovalKeys`.

**QuotePublication.** A worker is a server request in flight; `jobs[w].step` is the await it is at.
`Prepare` is the first transaction of `generateQuotePdf` (`Reuse` or `Claim`), then `Upload` or
`RenderFails`, `Verify` (`storage.head`), `Finalize`, and the catch block as `CleanUp` and
`MarkFailed`. A call that publishes goes on to `PublishReady`, which is `QuoteLifecycle`'s
`Publish` with the two guards about the document and the digest confirmed. `ReturnAndOwe` is the
first transaction of `returnQuoteToDraft`, and `Invalidate`, `Erase`, `DeleteObject` are its second.
`Crash` ends a call at any await. All the other operations of `QuoteLifecycle` interleave freely.

**NotificationOutbox.** `notifications/worker.ts` is a loop: claim digests and fan them out, claim
events and fan them out, claim deliveries and send them. A worker's job has its `turn`, the `batch`
of claims still to process, the `item` it is at and the `step`, the await it is at. One action per
query or call: `ClaimEvents`, `Resolve` (who is to be mailed, read at that moment), `Materialize`
(one upsert per recipient) or `Cancel`, `CloseEvent`; on an exception `EventThrows` and `FailEvent`;
then `ClaimDeliveries`, `Send` (render and provider), `MarkSent`, on an exception of either
`MarkFailure`. `Crash` kills a worker at any await; `OutliveEvent` and `OutliveDelivery` end the
lease of a live one, so that two workers believe they hold the same row. The fences of the code
(`WHERE status = 'PROCESSING' AND availableAt = ...`, `AND processingStartedAt = ...`) are
`HoldsEvent` and `HoldsDelivery`. For `MailContract` a row in `PENDING` and one in `PROCESSING` are
the same: claims, leases, attempts and crashes are what it hides.

**PrivateFiles.** A call is at an await: `Complete` reads the row, `Head` and `Read` await the store,
`ConfirmRead` and `ConfirmWrite` are the two halves of the transaction that locks the request, and
`RejectRead`, `RejectWrite`, `RemoveRead`, `RemoveWrite`, `SweepRead`, `SweepWrite`, `ExpireWrite`
those of the others, which lock nothing: the write is by id, so what was read may be past. `Erase`
deletes the object afterwards; its error is swallowed. `Abort` ends a call at any step. `Upload` is a
PUT on the gateway: any bytes, as often as the signed link allows, whatever the row has become,
because neither a completion nor a deletion revokes the link. A row keeps the `sha256` of what was
scanned, and `replaced` records the files sent again after a completion had read them.

**AccountAccess.** Whatever hashes a password or checks one is a call of two steps: the first reads
the account (`Login`, `OpenReset`, `ChangePassword`, `Enrol`, `Provision`...), the second
(`FinishLogin`...) is the transaction that writes and checks only part of what was read. The
confirmation of a second factor has three: `Enrol` verifies a code against the sealed token of a
secret, which may be used again while it lasts, `EnrolRead` reads the account in the transaction
without a lock, and `FinishEnrol` writes it by id. The team's
operations (invite, resend, suspend, reactivate, cancel, reset, revoke) are one action each. `era`
counts the times the account's sessions were closed, `codes` the times a code was accepted and
`confirmed` the times a secret was; they are what the properties compare.

**InboxFeed.** The inbox is its version number. `RecordNotice` commits one and appends the signal to
the hub's `chain`; `Load` and `Send` are one link of the chain (count, then write to the stream);
`Connect`, `CountForHello`, `Hello` or `Resume` open the stream; `Receive` is the provider's handler
of an event. `Poll`, `ListTimer`, `ReadSummary`, `FinishSummary` are its fetches, `Mark`,
`WriteRead`, `PublishRead`, `CountRead` and the answer a "mark as read". `LoseListener`, `Break`
and the reads that fail are its faults; `Reconnect` publishes the resync.

**RequestDesk.** One action per statement that others may come between. A submission is `FindForm`,
`ResolveContact`, `AllocateFolio`, `CreateRequest`, or `Replay` when the key is taken; a message is
`LockRequest`, `InsertNotice` (`ON CONFLICT DO NOTHING` against the index of open notices),
`LockOpenGroup`, `CreateNotice` and `CommitMessage`. `MarkRead`, `MarkUnread` and `ResolveGroup` are
the person's side. What a transaction writes appears at its commit; `Die` undoes it at any step.
A content is who asks (`AddressOf`) and what for (`DetailOf`); a replay compares only the second
(`SameRequest`). `reopened` records the calls that had found no open notice when one was marked unread.

**ConversationView.** `order` has the pair of each instant taken and each later one, `NoMessage`
standing for the beginning, so that `After` compares as the queries do. `TakeInstant` is the `now`
that `sendMessage` takes before its transaction, and `DeskStep` any step of `RequestDesk`; a commit
signals the view (`Commits`). A fetch of `StaffMessagingPanel.tsx` (`loadThroughLatest`) is a step
per statement: `ReadPage`, `FindLatest` and `MarkConversationRead` or `MarkFails` for each page,
then `Answer`, or `FetchFails` anywhere. The first load and `Retry` read from the beginning and move
the cursor only when they are current (`IsCurrent`); `FetchNewer` reads from the cursor, whatever
else is in flight, and always moves it.

**WorkHandover.** A suspension is `Suspend`, `Mark`, then for each request it listed `CloseRows` and
`MoveRequest`, then `ListProjects` and `FinishSuspend`, the commit. An assignment is `Assign`,
`CloseAssigned`, `FinishAssign`; `Take`, `Convert` and `SetOwner` have one wait each, between
reading who receives and writing. The locks a call holds follow from its step (`LocksRequest`,
`ProjectFree`), and an UPDATE that waited works on the rows it finds then (`seen`, `outrun`).
`Abort` ends any call, by a deadlock or a lost connection.

**QuotePricing, QuoteTotals.** `RoundHalfUp`, `PercentageOf` and `LineTotals` are the integer
arithmetic of `quotes/domain.ts`; `AddLine` is a turn of the loop that sums the lines and refuses an
amount out of range; `NeedsApproval` is the gate of the discount.

### What is abstracted

- The instants `availableAt` and `processingStartedAt` are a flag `due` (the delay, the backoff or
  the lease is over; `EventDue` and `DeliveryDue` let it pass) and the number of the claim, which is
  what the fences compare: two claims of a row never have the same instant, because a row is claimed
  again only after its lease (5 s at least) or its backoff. `due` of a row that a live worker holds
  is raised only by an outlived lease, which is counted.
- A batch is any `BatchSize` claimable rows; the queries take the oldest first, so what holds for
  any choice holds for theirs. A turn that claims nothing changes nothing, so a free worker may go
  straight to one that finds rows.
- An event's recipients are any set (at most one for a digest), another one at each claim: roles,
  assignments and preferences change meanwhile. The provider accepts, refuses for now, refuses for
  good, or accepts and its answer is lost. `TEMPORARY_PROVIDER` stands for both codes that are
  retried and `CONFIGURATION` for those that are not.
- The reports of failed and recovered mails to the inbox (`delivery-inbox.ts`, which catches its own
  errors) and the reminder sweep change neither table; they are not modelled.
- `accepted`, `lost`, `cut`, `promised` and `setbacks` are history variables; only the bound on
  setbacks is read, by the setbacks.
- A version's content is the record of what guards read, `QuotePricing`'s `ContentOf`: its discount
  against the threshold (`NINGUNO`, `BAJO_UMBRAL`, `SOBRE_UMBRAL`), whether it has special concepts,
  whether a line has no price yet. A version always has lines (without them neither creation nor
  sending succeeds).
- The digest is the count of the writes of the content: `replaceQuoteDraft` deletes and inserts the
  lines, whose ids are in the digest, so two writes never give the same digest. The document's
  `sha256` is the digest of the content that was rendered.
- Permissions: actors are those allowed. The override of separation of duties is kept
  (`Overriders`), because it changes what a decision may be.
- Optional concurrency arguments (`expectedUpdatedAt`, the expected version number) are omitted: a
  caller may leave them out, and they only refuse. `expectedContentDigest` is kept, with the value 0
  for a caller that gives none.
- Terms, currency, policy version, texts, audit rows and domain events: no guard here reads them.
- The guard of `markInformationReviewed` on the customer's reply is a nondeterministic choice (the
  conversation is not state here), and so are the conversation, notice and document inputs of the
  projection: `Stages` is the set of stages it may return.
- `LapseVersion` may happen to any version; one without `validUntil` is a behaviour in which it
  does not.
- `clonePublishedVersion` reads the published lines before its transaction; they cannot change
  (`AnswersStand`), and the pointers are read again inside it, so it is one action.
- `owed` (versions back in draft whose document was not invalidated yet) and `outlived` (documents
  that aged under a live attempt) are history variables: no guard reads them.

- Pricing: one currency; the parsing of decimals, the texts and the lookup of the price list are
  left out. Scales and bounds are parameters, so that the theorems hold for those of the code and
  TLC evaluates small ones.
- Private files: bytes are one of four: two that are as declared, so that one can replace the other
  unseen, those of the declared size but another type, and those of another size, which is all that
  `head` and the scan tell apart. A link lasts any time. Who may see a file is a guard of the caller.
- Account: rate limits only refuse and are left out; the mandatory second factor of administrators
  who have none is left out; the status of the customer's client is assumed active. Hashes are right
  or wrong. The fifteen minutes of a sealed enrolment are longer than the periods followed.
- Inbox feed: one tab, which is the leader of its browser, and one process of the server. Signals of
  requests, the farewell of closed sessions, follower tabs and the refresh on navigation are left
  out; the transit of `NOTIFY` is merged with the commit; a summary is faster than the poll of 30 s.
- Request desk: the content of a form is a model value with its address and its detail, a message is
  its key; permissions, the limit on
  sending and the notice `REQUEST.RECEIVED` to the whole team are left out. The replay
  of a message changes no state. The branch of `getOrCreateConversation` for a key taken meanwhile
  (`messaging/service.ts:179`) is unreachable, because its callers hold the request's row.
- Conversation view: one view, which stays on its conversation and can see all of it; a fetch follows
  the pages to the end (the code stops at the tenth and offers a button); the counter and the divider
  of new messages are layout. Signals are not lost here: what loses them, and the resync, is in
  `InboxFeed`.
- Handover: `EN_REVISION` stands for every status before the acceptance. Reasons, notices, checklist
  and project folios are left out; the owner a conversion picks is any active member or nobody. The
  key-share locks that foreign keys take on users conflict with nothing here.

### Assumptions about the environment

- A transaction that throws did not commit. If the commit of the second transaction of
  `generateQuotePdf` succeeds and only its acknowledgement is lost, the catch (`service.ts:301`)
  deletes the object of a READY document: `ReadyHasBytes` would fail. The model has no such step;
  hazards list it.
- No live renderer outlasts `PDF_PENDING_STALE_MS`: the comment at
  `quote-documents/service.ts:16-19` says "no real render legitimately takes this long", and nothing
  enforces it (rendering and uploading have no timeout). This is not built into the model: `Age` may
  happen under a live attempt, and the history variable `outlived` records it. Every property but
  one holds then too; `ReadyHasBytes` excepts the documents in `outlived`, because there it is
  false: the attempt taken over and its successor share the object key, so the late cleanup or
  upload of the first deletes or replaces the bytes of the second.
- `SELECT ... FOR UPDATE` of a join reads the latest committed rows of what it locks.

## 3. What TLC checks

| Run | Instance | Distinct states | Shows |
|---|---|---|---|
| `quote_pointers` | 3 versions, contents with and without unpriced lines, 2 keys, 2 writes, symmetry on versions | 41 859 | `PointersSound`, `LatestSentIsPublished`, `OneDeal`, `AlwaysClassified`, `AnswersStand`, refinement of `OfferContract` |
| `quote_approvals` | 1 version, 2 employees (one with the override), contents under and over the threshold with special concepts, 2 writes | 473 855 | `TypeOK`, `SentAsAuthorised`, `ApprovalKeys` |
| `quote_publication` | 1 version, 2 writes, 2 calls in flight, 2 document rows, symmetry on workers | 1 510 535 | `ReadyHasBytes`, `SentHasDocument`, `StaleOnlyWhenOwed`, `ReadyIsFinal`, `ReviewedIsSent` |
| `outbox_mails` | 1 event, 2 recipients, 2 workers, batches of 2, 2 attempts, 1 setback, symmetry on both | 301 039 | `DuplicatesExplained`, `SentByLatestClaim`, `RecipientsKept`, refinement of `MailContract` (`KeepsContract`) |
| `outbox_recovery` | 1 digest and its recipient, 2 workers, 2 attempts, 2 setbacks, fairness | 159 342 | `AttemptsBounded`, `EventsEnd`, `DeliveriesEnd` |
| `private_files` | 1 file, sent as any bytes as often as its link allows, 4 calls in flight, symmetry on calls | 367 013 | `OfferedHasBytes`, `AnnouncedOnce`, `NothingLeftBehind`, `DeletedStaysClosed` |
| `account_access` | 1 account of either type, 2 calls, 2 sessions, 2 links, 2 closings, 1 secret, 2 periods, symmetry on calls, sessions and links | 699 022 | `SessionsOfThisEra`, `CodeAcceptedOnce`, `LinkWorksOnce`, `ClosedHasNoLinks`, `ActiveHasPassword` |
| `inbox_feed` | 2 changes, 1 "mark as read", 1 fault, fairness | 847 989 | `HubInOrder`, `NothingOwed`, `CounterSettles` |
| `request_desk` | 2 forms with 3 contents (2 differ in who asks), 2 messages on one request, 2 transactions, 1 view with pages of 1 and 2 fetches, symmetry on transactions | 497 405 | `SubmissionsSound`, `ActivityShown`, `NothingPassedOver`, `ViewSettles`, `MarkOnlyAdvances` |
| `work_handover` | 3 members, 1 request and its project, 2 calls, symmetry on both | 1 172 426 | `OpenWorkIsAttended`, `AssignmentsAgree` |
| `next_version`, `fanout_retried` | as above, smaller | — | the two findings, each a violation |

**Why these bounds.** Three versions are the smallest instance where a published version, a draft
and a third one compete for the pointers: a supersession, an orphaned draft and the collision of
numbers all need two, and the third lets TLC see what follows them. The pointers do not depend on
approvals, and approvals of different versions do not meet, so the second run takes one version
and gives it what approvals depend on: two types, two employees, edits and expiry. Two calls
in flight are enough for every race of the PDF, since each race is between two attempts, or between
an attempt and an invalidation; two document rows let a version lose its row and get another id.
`MaxEdits` (writes of a version's content), `MaxDocs` (document rows) and the size of `Versions` are
the only bounds there, and each is in a guard. Symmetry is used only in runs without liveness.

The outbox's hazards are all between two claims of one row, so two workers and one event suffice;
two recipients give a batch whose second mail is held while the first is sent, and a fan-out that
can be cut in the middle. One setback makes a second claim; `outbox_recovery` has two, so that the
worker that took over may itself die, or a retry by hand may follow a cut. `MaxSetbacks` bounds
crashes, outlived leases and retries by hand together, and is what keeps attempts and claims finite:
without it nothing in the code does (`AttemptsBounded` says by how much each cut raises them).

Attachments do not meet, but for the request's lock, so one file is enough; four calls let two
completions, a deletion and a sweep of it overlap while its link brings other bytes, and all may
start over for ever. Two calls in flight are enough for an account, whose races are between the two
steps of one call and a whole operation of another; two sessions show that one is kept and the other
closed, two links that a new one replaces an old one. `MaxEras` and `MaxCounter` bound the closings
(a confirmation of a second factor is one) and the periods of the codes followed: after the second
nothing new can happen that the first two did not show. One secret, confirmed twice, is what the
codes' hazard needs; that one secret may follow another is in the model and only the proof covers
it. In `inbox_feed`, `MaxVersion` counts the commits: two are the fewest whose order matters, and
the mark is one of them; `MaxFaults` is one, anywhere on the way. Two transactions are what the
request desk's races need, one holding the folio's row or the request's while the other arrives, and
the notices' other party is the reader. A view with pages of one message and two fetches has what
overtakes, overlaps and answers late. `Bound`, a CONSTRAINT, keeps the product of both small: until
the view asks for something the instants are taken in one order, which the desk cannot tell, and
from then on the desk only sends messages, which is all the view can tell; and messages are sent
while one request exists and one submission has been told, since the two halves of the desk share
only the request's existence. In `work_handover` three members are who leaves, who receives and a
third, so that a chain of suspensions has somewhere to go.

The operators of `QuotePricing` are evaluated in the runs of `MCQuoteLifecycle`, which makes its
contents with them and assumes `RoundingIsNearest`, the rounding against its definition for
numerators to 40 and denominators to 10. `QuoteTotals` has no run: it is proved, in
`QuoteLifecycle_proofs`. So are the type invariants of `QuotePublication`, `NotificationOutbox`,
`PrivateFiles`, `AccountAccess`, `InboxFeed`, `RequestDesk`, `ConversationView` and `WorkHandover`,
which no run repeats.

`CHECK_DEADLOCK FALSE` is in every configuration because the modelled parts do stop: a project is a
final state, the instances run out of versions, writes, rows and closings, and a worker that finds
nothing to claim sleeps and polls again, which changes nothing. That is not a claim that the
database never deadlocks: the model has transactions that abort, for that reason too.

**Fairness.** Only the outbox and the feed have any. Staff and customers may stop for ever, and a
PDF whose renderer died waits for the next call. `OutboxSpec` assumes weak fairness of
each worker's `Work(w)` (`runNotificationWorker` loops until it is told to stop, polling when idle,
and the process is started again after a crash) and of `EventDue` and `DeliveryDue` (time passes).
It assumes nothing about setbacks: crashes are never obliged, only bounded, so the liveness
properties say that a finite number of them loses no event and no mail. `Work(w)` is one fair action
although its turns are ordered in the code: a worker that may choose its turn is fair to less.
`InboxFeed` assumes weak fairness of what the runtime does by itself: `Reconnect` (the listener
retries with a delay), `HubStep` (a settled promise runs its continuation), `Connect` and
`StreamStep` (EventSource reconnects; the route goes on), `Receive`, `Poll` and `ListTimer` (events
and timers of the tab), `ReadSummary` and `FinishSummary` (a fetch ends), and each `MarkStep`. It
assumes nothing of writes, marks begun by the person, or faults.

Mutants: each property of a passing run has a mutated definition, kept beside the one it mutates
(`MovedKeepingWorking` beside `Moved`), that stands for a plausible bug; substituting it breaks the
property.

## 4. Findings

1. **The next version's number collides** (`next_version`, code bug). Create v1, publish it, create
   draft v2, reject the *published* v1: `performQuoteVersionTransition` writes
   `workingVersionId = null` (`quotes/service.ts:941`) although v2 is still a draft. From then on the
   base of the next version is v1 and its number is `1 + 1`, v2's: `@@unique([quoteId,
   versionNumber])` fails every creation and clone, for ever, and v2 can be reached by no operation.
   The orphaned draft also contradicts `docs/adr/2026-09-11-quote-working-published-pointers.md:12`,
   "`workingVersionId`: única versión editable/en revisión del equipo".
2. **A failed fan-out is never tried again** (`fanout_retried`, divergence). Any exception while an
   event is fanned out, a lost database connection included, ends in `markNotificationOutboxFailed`,
   which computes a retry time into `availableAt` and writes `FAILED`; both claims read only
   `PENDING` and `PROCESSING`, and no other query updates `outbox_events`. The people concerned get
   no mail, and the retry by hand is for deliveries, of which there are none. The specification of
   the notifications says temporary errors are retried
   (`docs/historicos/specs/2026-09-08-ocpool-notifications.md:71`).

### Observations

What the properties had to except, or what was met on the way. No run is kept for these. Where a
property excepts a case (`outlived`, `owed`, `refused`, `replaced`, `late`, `overtaken`, `missed`,
`reopened`, `excused`, `crossed`, `tab.shown < received`) the code has that fault; what the property
shows is that no other way leads there. The conversion to a project is one action, so that its
overtaking is seen only through the unique keys.

*Expediente and PDF.*
- The invalidation of the PDF is a second transaction after `returnQuoteToDraft`. If the process
  dies there, or another employee edits, resubmits and publishes in between, the READY document of
  the previous content is reused, which the comment at `quotes/service.ts:1040-1041` says must not
  happen. `StaleOnlyWhenOwed` excepts this window, and its theorem says it is the *only* way.
- Publishing does not look at a rejected request (`quotes/service.ts:970`): the workspace then shows
  `ESPERANDO_DECISION`, with the customer as the actor, and acceptance refuses
  (`acceptance-service.ts:170`).
- The ADR `2026-09-10-commercial-lifecycle-v2.md` says that self-approval is refused, and the code
  lets a holder of `quotes.approval.override` approve their own request. `SentAsAuthorised` states
  what the code does.

*Pricing.*
- The ratio of the discount is truncated to a whole basis point (`quotes/service.ts:906`). With the
  threshold 0, where "ANY discount requires approval" (`quotes/service.ts:765-768`), a discount under
  one basis point of the subtotal requires none (`GateWithinOnePoint` says how much that can be).
- Each line rounds half up, so a version of many small lines may pass the threshold although no line
  does, by half a cent a line at most (`ThresholdByRounding`). The branch for a subtotal of 0 is
  never taken, because such a version has no discount.

*Outbox.* A mail can be sent twice only after a worker died between the provider's acceptance and
the update, outlived its lease, or lost the provider's answer (`DuplicatesExplained`), which no
outbox can avoid with a provider that has no idempotency key. The cap on attempts bounds what a
worker *reports*: a delivery whose worker always dies is claimed once more each time, with no cap.
A worker that lost its event to another goes on writing deliveries for the recipients it had
resolved, also after the other has closed the event as SENT: `MailContract` has to allow a mail for
a notice already told, and those mails are sent although `promised` does not name them.

*Private files.*
- A completion that found a fault can reject a file that another has just made AVAILABLE, and
  delete its bytes; the transaction of a completion writes by id, so a row goes through transitions
  that `FILE_STATUS_TRANSITIONS` (`private-files/domain.ts:75-80`) does not have.
  `OfferedHasBytes` excepts the files once refused (`refused`).
- The signed upload link works for fifteen minutes, for any number of PUTs of any bytes
  (`private-files/storage-gateway.ts:105-132`), and is not revoked when the file becomes AVAILABLE:
  the bytes that were scanned can be replaced by others that never were, and a download serves what
  the store has, without comparing it with the recorded `sha256`. `AnnouncedOnce` excepts those
  files (`replaced`); that nothing else replaces the bytes is what it shows.
- The list offers a download without looking at `deletedAt` (`private-files/service.ts:154`).
- `cleanupExpiredPrivateFiles` is called by no worker or script of the repository.
- Deletion, sweep and expiry write the attachment and then the storage object; confirming and
  rejecting write them in the other order, so two of them can deadlock, and one is aborted.

*Access.*
- A login under way while the sessions are closed opens one afterwards (`late`).
- The confirmation of a second factor reads the account without a lock and writes it by id
  (`account/service.ts:152-158`), and the sealed token of a secret is good for fifteen minutes however
  often it is used. Two confirmations that overlap, or one after the factor is disabled, accept the
  same code of the same secret, and the second moves the counter back to its own code, so that those
  after it are accepted again. `CodeAcceptedOnce` therefore says once *for each confirmation*.
- Two resends at once, or a recovery the person asks for later, leave an earlier link working
  although "sólo funciona el último enviado" (`src/server/auth/service.ts:363`).
- A magic link followed twice at once by a customer not yet active can be spent by the call that
  then loses the activation, and gives no session.

*Inbox feed.* The counter may end older than what the tab was told, which `NothingOwed` and
`CounterSettles` name: the events of a resumption carry the counts of the hello that comes with them
(`src/server/realtime/stream.ts:103-113`) and are applied as newer, against the comment "Un evento en
vivo es más nuevo que cualquier resumen en camino" (`InboxProvider.tsx:272`); the late answer of a
mark overwrites a newer live counter; a delivery under way when the listener is lost arrives after
the resync. A failed load of the hub and a failed summary while the channel is live are not retried.

*Request desk.*
- A form's key used again with the same detail and another name, mail or phone is answered with the
  first request's folio: `sameQuoteRequest` compares ten fields and none of them is the contact's,
  while its comment says that the key "con datos distintos nunca debe regresar en silencio la primera
  solicitud creada" (`quote-requests/service.ts:185-198`). `SubmissionsSound` promises the detail only.
- A message whose notice was read between its first insert and its look for an open one inserts
  another; if an older notice is marked unread just then, the second insert meets it and gives up
  (`inbox/record.ts:126-132`), and no notice counts the message. `ActivityShown` excepts that call and
  no other.
- Two first forms sent at once from one address create two clients, and from then on every form
  from it creates another, because the match must be unique.
- `createdAt` of a message is taken before the request's lock (`messaging/service.ts:248`), so a
  message can commit with an earlier instant than one already served: the cursor of the live view
  (`messaging/service.ts:428-429`) never asks for it, and the read mark counts it as read.
  `NothingPassedOver` and `ViewSettles` except those messages (`overtaken`) and no others.
- A fetch that a signal started and that fails is silent and not repeated
  (`StaffMessagingPanel.tsx:228`): what it would have shown waits for the next signal (`missed`).

*Handover.*
- Without any race, a request closed while assigned, whose assignee is suspended and which is then
  reopened, is open in the name of somebody who cannot sign in (a completed project likewise),
  against "Nada pendiente: su trabajo se reasignó al suspender el acceso."
  (`src/components/StaffTeamPanel.tsx:234`).
- An assignment that overlaps a suspension leaves its request with the suspended person, or is
  overwritten by it, which moves requests by id; a change of a project's owner that read the person
  active (`projects/service.ts:540-543`) likewise leaves them the project, suspended. The request
  may then have two open assignment rows, which no index forbids. Two members suspended at once may
  each be the other's heir.
- Each of those windows is recorded in `excused`, so `OpenWorkIsAttended` says that there is no other
  way, not that they are closed; `AssignmentsAgree` and `crossed` likewise.
- An assignment locks the request and then its assignment rows, a suspension the reverse: they can
  deadlock, and one is aborted.
- Taking a request looks at no status: a closed one can be taken.

## 5. What is proved

Each module of theorems EXTENDS the modules it is about and TLAPS, and needs only their assumptions
on their constants. So its theorems hold for any number of versions, files, calls, people
and workers, and any bound.

**Expediente** (`QuoteLifecycle_proofs`, from `ConstantsAssumption`).

| Theorem | Statement | Inductive invariant |
|---|---|---|
| `TypeCorrect` | `Spec => []TypeOK` | `Rows` = `TypeOK` and every created version's digest is not 0 (`RowsWritten`): an approval is made with the version's digest, which must be a written one |
| `PointersCorrect`, `LatestSentCorrect` | `Spec => []PointersSound`, `Spec => []LatestSentIsPublished` | `Rows /\ Pointed` |
| `OneDealOnly` | `Spec => []OneDeal` | `Rows /\ OneDeal` |
| `SentWasAuthorised` | `Spec => []SentAsAuthorised` | `Rows /\ Pointed /\ Entitled` |
| `ApprovalKeysHold` | `Spec => []ApprovalKeys` | `Rows /\ ApprovalKeys` |
| `AnswersAlwaysStand` | `Spec => AnswersStand` | `Rows /\ Pointed` |
| `Refinement` | `Spec => ImplementsContract` | `Rows /\ Pointed /\ Offered` |

`Pointed` adds two facts to the two properties. `SentStaysVisible`: a version that was sent is never
internal again, or `MayTransition` would let the published one be edited. `WorkingIsLater`: the
working version's number is above that of every version sent; this is what makes publishing keep
"the published one is the highest", and it survives because a new version takes the number after the
base, which is the published one. `Entitled` adds `DecidedByRight` to `SentAsAuthorised`: every
APPROVED row was decided by somebody entitled to, wherever its version is, since the property speaks
of it only once the version is sent. `Offered` adds that the request is never in a status that only
exists inside the acceptance's transaction, and that a version open to an answer was sent, so the
mapping's `CASE` is stable. The same four parts give `EveryStageClassified` (`Spec =>
[]AlwaysClassified`): a won request has an accepted version, which was sent, so it has a published
pointer, without which the projection would have no stage for it. Each proof has one lemma per group
of `Next` (`...Desk`, `...Build`, `...Approve`, ...), one step per action under it, and ends with
PTL.

**PDF** (`QuotePublication_proofs`, from both modules' assumptions). `PdfTypeCorrect`,
`ReadyDocumentsHaveBytes`, `SentHasItsDocument`, `StalePdfOnlyInTheWindow`, `ReadyNeverDemoted`,
`WhatWasReviewedIsSent`: every property of the run. Every step is a step of `QuoteLifecycle`, or
leaves its variables alone, so `Expediente` (`Rows`, `Pointed`, and `SentUnwritten`: what was sent is
not written again) holds by that module's lemmas. Over it, `PdfInv` is inductive as a whole: the
bytes of a document depend on who is working on it, and that on what the row says.
`IdsOwned`: a document id belongs to one version, so a late attempt finds its row or none.
`OneAttempt`: unless the document outlived an attempt, one call works on it and its row is PENDING
and not stale, which is why no other may claim it. `Stored`: what that call uploaded is in the store
until it ends, and no object under deletion is some row's. `UpToDate`: but for the versions whose
invalidation is owed, what is rendered and what is READY is the version's content, and a draft has
no document. `PublishesReady`: a call about to publish finds the document READY or gone.

Because every step is one of the expediente's, `PublicationIsExpediente` (`PdfSpec => Spec`) carries
all the theorems above over to the composition, the refinement of `OfferContract` among them
(`PublicationKeepsContract`).

**Pricing** (`QuoteLifecycle_proofs`, from `PricingAssumption`). `RoundsToNearest`: the rounding is
the nearest integer, of two the greater, for all naturals. `PercentageBounded`: no discount exceeds
its amount. The loop over the lines is a state machine, so that induction over them is the rule of
invariance: `PricingInv` (the totals agree, the discount is what was asked for to half a cent a
line, and that is at most the highest rate of the subtotal) gives `TotalsAgreeAlways`,
`DiscountIsFairAlways`, `ThresholdExceededByRounding` and `GateIsOnePointWide`.

**Outbox** (`NotificationOutbox_proofs`, from `OutboxAssumption`). `OutboxTypeCorrect`,
`NoUnexplainedDuplicate` (`DuplicatesExplained`) and `SentWasAccepted` (`SentByLatestClaim`)
follow from one inductive invariant, `OutboxInv`, because duplicates, fences and leases
depend on each other. `HeldOnce`: a claim is in the hands of one worker, as one item of its batch.
`HeldIsCurrent`: who holds a claim either holds the row's latest, and the row is in `PROCESSING`, or
lost it to a later claim *and is recorded as cut off*. `Attended`: a row in `PROCESSING` is held by
a worker and its lease is not over, or its claim was cut off; so taking a row over is always
explained. `OutcomeKnown`: what a worker has not handed over was not accepted, what it is about to
mark as sent was, and what it is about to report as retriable was refused or its answer lost.
`RetriesExplained` generalises the property to deliveries that *may* be claimed again: an accepted
claim that is not the latest, or whose row is open to another, is lost or cut off.
`ClaimsCounted` numbers the claims. Steps of the events' side leave all of it alone (`EventSide`);
each other action has a lemma.

`AttemptsAreBounded` (`AttemptsBounded`) needs to know *which* claims were cut off. `CutsCounted`:
the cut claims of a delivery are among those counted, hence finitely many. `AttemptsKnown`: who
reports a claim that is still the delivery's remembers the attempts the row has.
`AttemptsExplained`: a delivery that waits has an attempt left, and the attempts of any other are at
most the limit and its claims cut off before the latest one. The retry by hand starts from 0, so it
only helps. `RecipientsAreKept` (`RecipientsKept`) has `FanoutFits`: a fan-out under way has written
a delivery for everybody it no longer has left, which a step of anybody else preserves because
deliveries never disappear.

`ContractKept` (`OutboxSpec => KeepsContract`) is the refinement of `MailContract`. It takes
`OutboxInv` (what is about to be marked was accepted; a claimed delivery exists), `FanoutFits` (who
closes an event has written everybody) and `FanoutsRecorded` (what a worker fans out is an event
that was recorded). Claims, leases, crashes and the late reports of a worker whose row was taken over
are stutters: that is what the fences are for.

**Attachments** (`PrivateFiles_proofs`). `FilesTypeCorrect`, `OfferIsBacked`,
`AnnouncedAtMostOnce`, `NoBytesLeftBehind`, `DeletionIsFinal`, from `FilesInv`, inductive as a whole
because what is in the store depends on what every call in flight has read. `Exclusive`: one call
at a time holds the request's lock. `Announced`: nobody who is about to confirm a file finds it
announced. `ErasesLost`: only the bytes of a deleted, refused or rejected file are erased.
`ScannedThere`: who has read bytes finds some there when confirming, or the file is lost.
`StillOpen`: under the request's lock only a refusal can have closed the row being confirmed.
`SameBytes`: what was scanned is what is in the store, or it is gone, or it was replaced.

**Access** (`AccountAccess_proofs`). `AccessTypeCorrect`, `ClosingCloses`, `CodesWorkOnce`,
`LinksWorkOnce`, `ClosedAccountsHaveNoLinks`, `ActiveMembersHavePasswords`, from `AccessInv`.
`CallKnows` says what a call's first step guarantees at its second: an `era` not in the future, a
password it checked, and for a link being issued, that the account may use it unless it was closed
since. `UsedIsSpent` carries single use; `CodesLeft`, that a code above the counter is left one time of
those its secret was confirmed.

**Request desk** (`RequestDesk_proofs`). `SubmissionsCorrect`, `FoliosUnique`, `MessagesAreShown`,
from `DeskInv`. `FolioHeld`: one submission holds the folio's row, and what it read is the next.
`OneSender`: messages of one request exclude each other. `StillFound`: what a message found of the
open notice is still so at its next statement, or a notice was marked unread while that call was
about to insert another (`reopened`). `Counted`: the
requests created are finitely many, with distinct folios 1 to n.

**Conversation view** (`RequestDesk_proofs`, from `RequestDeskAssumption` and
`ConversationViewAssumption`). `ViewedDesk` (`ViewSpec => Spec`) makes every theorem of the desk one
of the composition. `CursorSkipsNothing` (`NothingPassedOver`), `ViewShowsAll` (`ViewSettles`) and
`MarkNeverGoesBack` (`MarkOnlyAdvances`) follow from `ViewInv`, on top of `DeskInv`. `Ordered` and
`SentTimed`: the instants are a strict total order with a beginning, and what is sent or being sent
has one; so a finite set of messages has a latest (`LatestIsLatest`, by well-founded induction on
its subsets). `FetchPassesOver`: every message up to the place a fetch has reached is in its items,
shown already, or overtaken. `ShownOrComing`: a message not shown yet will be brought by a fetch
that has a page to read or has it among its items, or a signal is on its way, unless it was
overtaken or missed.

**Inbox feed** (`InboxFeed_proofs`, from `InboxFeedAssumption`). `FeedTyped`, `HubKeepsOrder`
(`HubInOrder`) and `NothingIsOwed` (`NothingOwed`), from `FeedInv`. The idea is a debt: from the
commit on, news of the latest version was told to the tab, or a read of it failed, or somebody still
owes it (`ToldOrOwed`): a link of the hub's chain, an event on the wire, the tab's summary or timer,
a call that marks as read, or the connection to come. Each step pays a debt only by leaving another
or by telling the tab. `HeadOnly` and `HeadNewest` give the order: only the head of the chain has
been counted, and its counts are no older than anything the hub has written.

**Handover** (`WorkHandover_proofs`). `HandoverTypeCorrect`, `OpenWorkAttended`, `AssignmentsTell`,
`OneWriterPerRequest`, from `HandoverInv`. `LockedOnce`: one call at a time writes a request.
`CallInv(c)` says of each call that the rows it saw are those that are open unless others wrote
after it looked (`SeesRows`), that a suspension listed all the person has but for what is excused
(`ListsWork`), and that who receives may still, unless suspended meanwhile (`ReceiverReady`).
A change of owner is a call like an assignment, which knows that the person was active when it read
them. A step of one call that writes no table is shown once (`OwnMove`), an operation of the desk
once (`DeskMove`), and a commit by what it leaves to the others (`Committed`).

**Only model-checked:** the liveness properties `EventsEnd`, `DeliveriesEnd` and `CounterSettles`;
the two findings, which are violations; and `RoundingIsNearest` with the totals TLC evaluates, which
only repeat on small numbers what `RoundsToNearest` proves. Every other property of a run is a
theorem. **Out of the prover's reach:** liveness under fairness, `ENABLED`, and what a recursive
definition computes for every input.

## 6. Not modelled yet, and the plan

In the order in which each would add most:

1. The reminder sweep (`inbox/reminders.ts`): one advisory lock, candidates read, conditions read
   again under the request's lock, a unique key per reminder, notices in the same transaction. Each
   rule takes its 25 oldest candidates (`reminders.ts:10`), and one with nobody to remind leaves no
   key and stays first for ever (`reminders.ts:103`): 25 expired quotes of requests without an
   assignee would keep every other from being reminded.
2. `LockOrder`: the sequences of locks of the transactions, for the deadlocks above. The models
   have their effect, an abort, at any step.
3. The reports of failed and recovered mails in the inbox; the checklist of a project and its folio;
   creation and edits of requests by staff; signals of requests and closed sessions in the feed.

Left out for good: PDF layout, rendering of pages, mail templates, routes that only parse, reports
and read projections, catalog maintenance, environment and logging: no state that a guard here
reads, or pure output. They are most of the repository's lines: interface components, templates and
reads are what the map leaves uncovered, and modelling them would only restate them.
