------------------------- MODULE NotificationOutbox -------------------------
(***************************************************************************)
(* The outbox and its mails: workers claim events under a lease, write one *)
(* delivery per recipient, claim those deliveries under a lease and hand   *)
(* them to the mail provider.                                              *)
(*                                                                         *)
(* Several workers run the same loop.  Every await is a step; between two  *)
(* of them a worker may die, or live on past its lease while another       *)
(* worker takes its rows over.  A row is closed only by the claim it       *)
(* carries (availableAt for events, processingStartedAt for deliveries).   *)
(***************************************************************************)
EXTENDS Naturals, FiniteSets

CONSTANTS
  Events,        \* outbox events that mails are sent about
  Digests,       \* those of them that are INBOX.DIGEST_DUE
  People,        \* recipients
  Workers,       \* notification workers
  BatchSize,     \* NOTIFICATION_BATCH_SIZE
  MaxAttempts,   \* NOTIFICATION_MAX_ATTEMPTS
  MaxSetbacks,   \* bound on crashes, leases outlived and manual retries
  NoItem         \* a worker's item between two items

ASSUME OutboxAssumption ==
  /\ Digests \subseteq Events
  /\ BatchSize \in Nat \ {0}
  /\ MaxAttempts \in Nat \ {0}
  /\ MaxSetbacks \in Nat

VARIABLES
  events,      \* outbox_events
  deliveries,  \* notification_deliveries, one per event and recipient
  cancelled,   \* events with a CANCELLED delivery that says why nobody is mailed
  jobs,        \* where each worker's loop is
  setbacks,    \* history: how many crashes, outlived leases and manual retries
  accepted,    \* history: claims whose mail the provider accepted
  lost,        \* history: those of them whose answer was lost on the way
  cut,         \* history: claims whose worker died, or outlived the lease
  promised     \* history: the recipients resolved by the claim that closed an event

tables == <<events, deliveries, cancelled>>
mail == <<accepted, lost>>
outboxVars == <<tables, jobs, setbacks, mail, cut, promised>>

Deliveries == Events \X People

Statuses == {"NINGUNO", "PENDING", "PROCESSING", "SENT", "FAILED"}

\* TEMPORARY_PROVIDER stands for RATE_LIMIT too, CONFIGURATION for every permanent code.
Codes == {"NINGUNO", "TEMPORARY_PROVIDER", "CONFIGURATION"}
Recoverable == {"TEMPORARY_PROVIDER"}

Steps == {"claim", "work", "materialize", "close", "giveUp", "mark", "fail"}

EventRows == [status : Statuses, attempts : Nat, due : BOOLEAN]
DeliveryRows ==
  [status : Statuses, attempts : Nat, claims : Nat, due : BOOLEAN, code : Codes]

\* due: availableAt has come; for a row in PROCESSING, its lease is over. An event's
\* attempts are never reset, so they also tell its claims apart.
NoEvent == [status |-> "NINGUNO", attempts |-> 0, due |-> FALSE]

\* claims tells processingStartedAt apart, which is another at each claim.
NoDelivery == [status |-> "NINGUNO", attempts |-> 0, claims |-> 0, due |-> FALSE,
               code |-> "NINGUNO"]

NewDelivery == [status |-> "PENDING", attempts |-> 0, claims |-> 0, due |-> TRUE,
                code |-> "NINGUNO"]

Job(turn, step, batch) == [turn |-> turn, step |-> step, batch |-> batch, item |-> NoItem,
                           people |-> {}, left |-> {}, code |-> "NINGUNO"]

\* A claimed row as the worker remembers it: which claim it holds, with how many attempts.
Items(rows) == [of : rows, claim : Nat \ {0}, attempts : Nat \ {0}]

JobsOf(turns, rows) ==
  [turn : turns, step : Steps, batch : SUBSET Items(rows), item : Items(rows) \cup {NoItem},
   people : SUBSET People, left : SUBSET People, code : Codes]

\* The claims a worker still has to report on.
Holds(w) ==
  IF jobs[w].step \in {"claim", "work"} THEN jobs[w].batch
  ELSE jobs[w].batch \cup {jobs[w].item}

\* Rows and jobs have their columns, and a row's status says whether it was ever claimed.
OutboxTypeOK ==
  /\ events \in [Events -> EventRows]
  /\ deliveries \in [Deliveries -> DeliveryRows]
  /\ cancelled \subseteq Events
  /\ setbacks \in 0..MaxSetbacks
  /\ accepted \subseteq Deliveries \X Nat /\ lost \subseteq accepted
  /\ cut \subseteq Deliveries \X Nat
  /\ promised \in [Events -> SUBSET People]
  /\ jobs \in [Workers -> JobsOf({"free", "digest", "fanout"}, Events)
                            \cup JobsOf({"deliver"}, Deliveries)]
  /\ \A d \in Deliveries :
       deliveries[d].status \in {"PROCESSING", "SENT", "FAILED"} => deliveries[d].attempts > 0

Free == Job("free", "claim", {})

\* A worker with rows to process. The three turns of a batch come round in order, but one
\* that finds nothing changes nothing: a free worker may take any that finds something.
Busy(turn, batch) == IF batch # {} THEN Job(turn, "work", batch) ELSE Free

AtStep(w, step) == jobs[w].step = step

\* At a step for one row of its batch; people and left are the recipients of an event.
Does(w, step, item, people, left, code) ==
  jobs' = [jobs EXCEPT ![w] = [turn |-> jobs[w].turn, step |-> step,
             batch |-> jobs[w].batch \ {item}, item |-> item,
             people |-> people, left |-> left, code |-> code]]

Goes(w, step) ==
  Does(w, step, jobs[w].item, jobs[w].people, jobs[w].left, jobs[w].code)

Finishes(w) == jobs' = [jobs EXCEPT ![w] = Busy(jobs[w].turn, jobs[w].batch)]

-----------------------------------------------------------------------------
(* Events: recordDomainEvent, the digest's schedule and the two fan-outs.  *)

EventBecomes(e, status, due) ==
  events' = [events EXCEPT ![e] = [status |-> status, attempts |-> events[e].attempts,
                                   due |-> due]]

\* Created in the transaction of the change it is about; a digest is due minutes later.
Record(e) ==
  /\ events[e].status = "NINGUNO"
  /\ EventBecomes(e, "PENDING", e \notin Digests)
  /\ UNCHANGED <<deliveries, cancelled, jobs, setbacks, mail, cut, promised>>

EventsOf(turn) == IF turn = "digest" THEN Digests ELSE Events \ Digests

\* Claiming what is pending only.
PendingEvents(turn) == {e \in EventsOf(turn) : events[e].status = "PENDING" /\ events[e].due}

\* What is due, and what another claim left in PROCESSING past its lease.
ClaimableEvents(turn) ==
  {e \in EventsOf(turn) : events[e].status \in {"PENDING", "PROCESSING"} /\ events[e].due}

\* Up to BatchSize rows; which come first is left open.
Batches(rows) ==
  {S \in SUBSET rows : Cardinality(S) = IF Cardinality(rows) < BatchSize
                                          THEN Cardinality(rows) ELSE BatchSize}

TakenEvent(e) ==
  [status |-> "PROCESSING", attempts |-> events[e].attempts + 1, due |-> FALSE]

EventClaim(e) ==
  [of |-> e, claim |-> events[e].attempts + 1, attempts |-> events[e].attempts + 1]

ClaimEvents(w, turn) ==
  /\ jobs[w] = Free
  /\ ClaimableEvents(turn) # {}
  /\ \E S \in Batches(ClaimableEvents(turn)) :
       /\ events' = [e \in Events |-> IF e \in S THEN TakenEvent(e) ELSE events[e]]
       /\ jobs' = [jobs EXCEPT ![w] = Busy(turn, {EventClaim(e) : e \in S})]
  /\ UNCHANGED <<deliveries, cancelled, setbacks, mail, cut, promised>>

\* The recipients are read now, for as many as the event still has; without any the event
\* is cancelled, whatever the reason.
Resolve(w) ==
  /\ AtStep(w, "work") /\ jobs[w].turn # "deliver"
  /\ \E c \in jobs[w].batch, R \in SUBSET People :
       /\ jobs[w].turn = "digest" => Cardinality(R) <= 1
       /\ Does(w, "materialize", c, R, R, "NINGUNO")
  /\ UNCHANGED <<tables, setbacks, mail, cut, promised>>

\* Stopping at the first recipient.
NobodyLeft(w, p) == {}

LeftAfter(w, p) == jobs[w].left \ {p}

\* One upsert: a delivery that exists is left as it is.
Materialize(w) ==
  /\ AtStep(w, "materialize")
  /\ \E p \in jobs[w].left :
       LET d == <<jobs[w].item.of, p>> IN
       /\ deliveries' = IF deliveries[d].status # "NINGUNO" THEN deliveries
                        ELSE [deliveries EXCEPT ![d] = NewDelivery]
       /\ Does(w, IF LeftAfter(w, p) = {} THEN "close" ELSE "materialize", jobs[w].item,
               jobs[w].people, LeftAfter(w, p), "NINGUNO")
  /\ UNCHANGED <<events, cancelled, setbacks, mail, cut, promised>>

\* With nobody to mail, the upsert of the cancellation.
Cancel(w) ==
  /\ AtStep(w, "materialize") /\ jobs[w].left = {}
  /\ cancelled' = cancelled \cup {jobs[w].item.of}
  /\ Goes(w, "close")
  /\ UNCHANGED <<events, deliveries, setbacks, mail, cut, promised>>

\* Writing by id, whichever claim the event is at.
ExistsEvent(w) == events[jobs[w].item.of].status # "NINGUNO"

\* Still the event's claim.
HoldsEvent(w) ==
  LET c == jobs[w].item IN
  events[c.of].status = "PROCESSING" /\ events[c.of].attempts = c.claim

CloseEvent(w) ==
  LET e == jobs[w].item.of IN
  /\ AtStep(w, "close")
  /\ IF HoldsEvent(w) THEN /\ EventBecomes(e, "SENT", TRUE)
                           /\ promised' = [promised EXCEPT ![e] = jobs[w].people]
                      ELSE UNCHANGED <<events, promised>>
  /\ Finishes(w)
  /\ UNCHANGED <<deliveries, cancelled, setbacks, mail, cut>>

\* Any of those steps throws.
EventThrows(w) ==
  /\ jobs[w].step \in {"materialize", "close"}
  /\ Goes(w, "giveUp")
  /\ UNCHANGED <<tables, setbacks, mail, cut, promised>>

\* catch: FAILED, with a retry time.
FailEvent(w) ==
  /\ AtStep(w, "giveUp")
  /\ IF HoldsEvent(w) THEN EventBecomes(jobs[w].item.of, "FAILED", FALSE)
                      ELSE UNCHANGED events
  /\ Finishes(w)
  /\ UNCHANGED <<deliveries, cancelled, setbacks, mail, cut, promised>>

-----------------------------------------------------------------------------
(* Deliveries.                                                             *)

PendingDeliveries ==
  {d \in Deliveries : deliveries[d].status = "PENDING" /\ deliveries[d].due}

\* Taking over what is in PROCESSING without looking at its lease.
UnfinishedDeliveries ==
  PendingDeliveries \cup {d \in Deliveries : deliveries[d].status = "PROCESSING"}

ClaimableDeliveries ==
  {d \in Deliveries : deliveries[d].status \in {"PENDING", "PROCESSING"} /\ deliveries[d].due}

Taken(d) ==
  [status |-> "PROCESSING", attempts |-> deliveries[d].attempts + 1,
   claims |-> deliveries[d].claims + 1, due |-> FALSE, code |-> deliveries[d].code]

DeliveryClaim(d) ==
  [of |-> d, claim |-> deliveries[d].claims + 1, attempts |-> deliveries[d].attempts + 1]

ClaimDeliveries(w) ==
  /\ jobs[w] = Free
  /\ ClaimableDeliveries # {}
  /\ \E S \in Batches(ClaimableDeliveries) :
       /\ deliveries' = [d \in Deliveries |-> IF d \in S THEN Taken(d) ELSE deliveries[d]]
       /\ jobs' = [jobs EXCEPT ![w] = Busy("deliver", {DeliveryClaim(d) : d \in S})]
  /\ UNCHANGED <<events, cancelled, setbacks, mail, cut, promised>>

\* The template is rendered and the provider given the mail: it accepts, refuses for now
\* or for good, or accepts and its answer is lost, which looks like a refusal for now.
Send(w) ==
  /\ AtStep(w, "work") /\ jobs[w].turn = "deliver"
  /\ \E c \in jobs[w].batch :
       LET sent == <<c.of, c.claim>>
           goes(step, code) == Does(w, step, c, {}, {}, code)
       IN \/ /\ accepted' = accepted \cup {sent} /\ goes("mark", "NINGUNO")
             /\ UNCHANGED lost
          \/ /\ accepted' = accepted \cup {sent} /\ lost' = lost \cup {sent}
             /\ goes("fail", "TEMPORARY_PROVIDER")
          \/ /\ \E code \in Codes \ {"NINGUNO"} : goes("fail", code)
             /\ UNCHANGED mail
  /\ UNCHANGED <<tables, setbacks, cut, promised>>

\* Closing whichever attempt is under way.
InProgress(w) == deliveries[jobs[w].item.of].status = "PROCESSING"

\* Still the delivery's claim.
HoldsDelivery(w) ==
  LET c == jobs[w].item IN
  deliveries[c.of].status = "PROCESSING" /\ deliveries[c.of].claims = c.claim

DeliveryBecomes(d, status, attempts, due, code) ==
  deliveries' = [deliveries EXCEPT ![d] =
    [status |-> status, attempts |-> attempts, claims |-> deliveries[d].claims,
     due |-> due, code |-> code]]

MarkSent(w) ==
  LET d == jobs[w].item.of IN
  /\ AtStep(w, "mark")
  /\ IF HoldsDelivery(w) THEN DeliveryBecomes(d, "SENT", deliveries[d].attempts, FALSE, "NINGUNO")
                         ELSE UNCHANGED deliveries
  /\ Finishes(w)
  /\ UNCHANGED <<events, cancelled, setbacks, mail, cut, promised>>

\* An error of the update is none of the provider's, and so permanent.
MarkThrows(w) ==
  /\ AtStep(w, "mark")
  /\ Does(w, "fail", jobs[w].item, {}, {}, "CONFIGURATION")
  /\ UNCHANGED <<tables, setbacks, mail, cut, promised>>

\* One attempt more.
MayRetryOnce(w) ==
  jobs[w].code \in Recoverable /\ jobs[w].item.attempts <= MaxAttempts

MayRetry(w) == jobs[w].code \in Recoverable /\ jobs[w].item.attempts < MaxAttempts

MarkFailure(w) ==
  LET d == jobs[w].item.of IN
  /\ AtStep(w, "fail")
  /\ IF HoldsDelivery(w)
       THEN DeliveryBecomes(d, IF MayRetry(w) THEN "PENDING" ELSE "FAILED",
                            deliveries[d].attempts, FALSE, jobs[w].code)
       ELSE UNCHANGED deliveries
  /\ Finishes(w)
  /\ UNCHANGED <<events, cancelled, setbacks, mail, cut, promised>>

\* retryStaffNotificationDelivery: an employee has a failed delivery tried from scratch.
ManualRetry(d) ==
  /\ deliveries[d].status = "FAILED" /\ deliveries[d].code \in Recoverable
  /\ setbacks < MaxSetbacks /\ setbacks' = setbacks + 1
  /\ DeliveryBecomes(d, "PENDING", 0, TRUE, "NINGUNO")
  /\ UNCHANGED <<events, cancelled, jobs, mail, cut, promised>>

-----------------------------------------------------------------------------
(* Time and failure.                                                       *)

\* The latest claim of a row is in the hands of a live worker.
EventHeld(e) == \E w \in Workers : \E c \in Holds(w) :
                  c.of = e /\ c.claim = events[e].attempts
DeliveryHeld(d) == \E w \in Workers : \E c \in Holds(w) :
                     c.of = d /\ c.claim = deliveries[d].claims

Waiting(row) == row.status \in {"PENDING", "PROCESSING", "FAILED"} /\ ~row.due

\* The delay, the backoff or the lease is over.
EventDue(e) ==
  /\ Waiting(events[e]) /\ ~(events[e].status = "PROCESSING" /\ EventHeld(e))
  /\ EventBecomes(e, events[e].status, TRUE)
  /\ UNCHANGED <<deliveries, cancelled, jobs, setbacks, mail, cut, promised>>

DeliveryDue(d) ==
  /\ Waiting(deliveries[d]) /\ ~(deliveries[d].status = "PROCESSING" /\ DeliveryHeld(d))
  /\ DeliveryBecomes(d, deliveries[d].status, deliveries[d].attempts, TRUE, deliveries[d].code)
  /\ UNCHANGED <<events, cancelled, jobs, setbacks, mail, cut, promised>>

\* A worker is slower than its lease: a claim lasts for the batch, item after item.
OutliveEvent(e) ==
  /\ events[e].status = "PROCESSING" /\ ~events[e].due /\ EventHeld(e)
  /\ setbacks < MaxSetbacks /\ setbacks' = setbacks + 1
  /\ EventBecomes(e, events[e].status, TRUE)
  /\ UNCHANGED <<deliveries, cancelled, jobs, mail, cut, promised>>

OutliveDelivery(d) ==
  /\ deliveries[d].status = "PROCESSING" /\ ~deliveries[d].due /\ DeliveryHeld(d)
  /\ setbacks < MaxSetbacks /\ setbacks' = setbacks + 1
  /\ DeliveryBecomes(d, deliveries[d].status, deliveries[d].attempts, TRUE, deliveries[d].code)
  /\ cut' = cut \cup {<<d, deliveries[d].claims>>}
  /\ UNCHANGED <<events, cancelled, jobs, mail, promised>>

\* The process dies, killed or by an error outside the loops' catch, and is started again.
Crash(w) ==
  /\ jobs[w] # Free
  /\ setbacks < MaxSetbacks /\ setbacks' = setbacks + 1
  /\ cut' = IF jobs[w].turn # "deliver" THEN cut
            ELSE cut \cup {<<c.of, c.claim>> : c \in Holds(w)}
  /\ jobs' = [jobs EXCEPT ![w] = Free]
  /\ UNCHANGED <<tables, mail, promised>>

-----------------------------------------------------------------------------

OutboxInit ==
  /\ events = [e \in Events |-> NoEvent]
  /\ deliveries = [d \in Deliveries |-> NoDelivery]
  /\ cancelled = {}
  /\ jobs = [w \in Workers |-> Free]
  /\ setbacks = 0
  /\ accepted = {} /\ lost = {} /\ cut = {}
  /\ promised = [e \in Events |-> {}]

\* A worker's loop, which nothing but a crash stops.
Work(w) ==
  \/ ClaimEvents(w, "digest") \/ ClaimEvents(w, "fanout") \/ Resolve(w)
  \/ Materialize(w) \/ Cancel(w) \/ CloseEvent(w)
  \/ EventThrows(w) \/ FailEvent(w)
  \/ ClaimDeliveries(w) \/ Send(w) \/ MarkSent(w) \/ MarkThrows(w) \/ MarkFailure(w)

OutboxNext ==
  \/ \E w \in Workers : Work(w) \/ Crash(w)
  \/ \E e \in Events : Record(e) \/ EventDue(e) \/ OutliveEvent(e)
  \/ \E d \in Deliveries : DeliveryDue(d) \/ OutliveDelivery(d) \/ ManualRetry(d)

\* Workers run and time passes.
Fairness ==
  /\ \A w \in Workers : WF_outboxVars(Work(w))
  /\ \A e \in Events : WF_outboxVars(EventDue(e))
  /\ \A d \in Deliveries : WF_outboxVars(DeliveryDue(d))

OutboxSpec == OutboxInit /\ [][OutboxNext]_outboxVars /\ Fairness

-----------------------------------------------------------------------------
(* Properties.                                                             *)

\* A person gets a mail twice only when the claim that sent the earlier copy could not
\* report it: its worker died or outlived the lease, or the provider's answer was lost. No
\* race between two workers, and no second fan-out of the event, sends one by itself.
DuplicatesExplained ==
  \A s, t \in accepted : s[1] = t[1] /\ s[2] < t[2] => s \in lost \cup cut

\* A delivery that says SENT was accepted by the provider in its latest claim: a worker
\* that lost the delivery to another cannot close the other's attempt.
SentByLatestClaim ==
  \A d \in Deliveries :
    deliveries[d].status = "SENT" => <<d, deliveries[d].claims>> \in accepted

\* A delivery is attempted NOTIFICATION_MAX_ATTEMPTS times, and once more for each claim
\* that was cut off before it could report.
AttemptsBounded ==
  \A d \in Deliveries :
    deliveries[d].attempts <= MaxAttempts + Cardinality({c \in cut : c[1] = d})

\* An event that says SENT has a delivery for each recipient, or says why it has none:
\* what a first claim left half done is completed by the one that closes the event.
RecipientsKept ==
  \A e \in Events :
    events[e].status = "SENT" =>
      \/ promised[e] = {} /\ e \in cancelled
      \/ /\ promised[e] # {}
         /\ \A p \in promised[e] : deliveries[<<e, p>>].status # "NINGUNO"

\* What the outbox is to the business: an event is open until it is told or abandoned, and a
\* delivery is promised until it is sent or given up, whoever holds them meanwhile.
NoticeOf(status) ==
  CASE status = "NINGUNO" -> "INEDITO"
    [] status \in {"PENDING", "PROCESSING"} -> "ABIERTO"
    [] status = "SENT" -> "AVISADO"
    [] status = "FAILED" -> "ABANDONADO"

LetterOf(status) ==
  CASE status = "NINGUNO" -> "NO_ESCRITA"
    [] status \in {"PENDING", "PROCESSING"} -> "PROMETIDA"
    [] status = "SENT" -> "ENVIADA"
    [] status = "FAILED" -> "DESISTIDA"

Notices == [e \in Events |-> NoticeOf(events[e].status)]
Letters == [d \in Deliveries |-> LetterOf(deliveries[d].status)]
Handed == {s[1] : s \in accepted}

Contract == INSTANCE MailContract WITH
  notice <- Notices, letters <- Letters, handed <- Handed, excused <- cancelled, told <- promised

\* Every behaviour of the workers is one the contract allows: a late worker undoes nothing, no
\* event is closed with somebody unwritten, and no mail is called sent that nobody took.
KeepsContract == Contract!Spec

\* Every event is fanned out or given up: none stays with a worker that died.
EventsEnd ==
  \A e \in Events :
    events[e].status = "PENDING" ~> events[e].status \in {"SENT", "FAILED"}

\* Every delivery is sent or given up, also those in the hands of a worker that died.
DeliveriesEnd ==
  \A d \in Deliveries :
    deliveries[d].status = "PENDING" ~> deliveries[d].status \in {"SENT", "FAILED"}

\* An event whose fan-out failed is tried again. (Violated: see README, findings.)
FanoutRetried ==
  \A e \in Events : events[e].status = "FAILED" ~> events[e].status # "FAILED"
=============================================================================
