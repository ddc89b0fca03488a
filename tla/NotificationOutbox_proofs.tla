---------------------- MODULE NotificationOutbox_proofs ----------------------
(***************************************************************************)
(* That no mail is sent twice without a cause, that attempts are bounded,  *)
(* that an event closed as SENT missed nobody and that the workers keep    *)
(* MailContract, for any number of events, recipients and workers, any     *)
(* batch size and any number of setbacks.                                  *)
(***************************************************************************)
EXTENDS NotificationOutbox, FiniteSetTheorems, TLAPS

Delivering(w) == jobs[w].turn = "deliver"

\* The claim a held item is, as the history variables name it.
Key(c) == <<c.of, c.claim>>

\* Steps belong to their turns, and a step that works on an item has one.
StepsFit ==
  \A w \in Workers :
    /\ jobs[w].step = "claim" => jobs[w].turn = "free"
    /\ jobs[w].step \in {"materialize", "close", "giveUp"}
         => ~Delivering(w) /\ jobs[w].item \in Items(Events)
    /\ jobs[w].step \in {"mark", "fail"} => Delivering(w) /\ jobs[w].item \in Items(Deliveries)

\* A claim is held once: by one worker, as one item.
HeldOnce ==
  \A v, w \in Workers : Delivering(v) /\ Delivering(w) =>
    /\ \A b \in Holds(v), c \in Holds(w) : Key(b) = Key(c) => v = w /\ b = c
    /\ jobs[v].step # "work" => jobs[v].item \notin jobs[v].batch

\* Claims are numbered up to the delivery's count.
ClaimsCounted ==
  /\ \A w \in Workers : Delivering(w) => \A c \in Holds(w) : c.claim <= deliveries[c.of].claims
  /\ \A s \in accepted : s[2] \in 1..deliveries[s[1]].claims
  /\ \A d \in Deliveries : deliveries[d].status \in {"PROCESSING", "SENT", "FAILED"}
                             => deliveries[d].claims > 0
  /\ \A d \in Deliveries : deliveries[d].status = "NINGUNO" => deliveries[d].claims = 0

\* What a worker has not handed over was not accepted; what it is about to mark was.
OutcomeKnown ==
  \A w \in Workers : Delivering(w) =>
    /\ \A c \in jobs[w].batch : Key(c) \notin accepted
    /\ jobs[w].step = "mark" => Key(jobs[w].item) \in accepted
    /\ jobs[w].step = "fail" /\ jobs[w].code \in Recoverable
         => Key(jobs[w].item) \notin accepted \ lost

\* Who holds a claim holds the delivery, or lost it to a later claim and is cut off.
HeldIsCurrent ==
  \A w \in Workers : Delivering(w) => \A c \in Holds(w) :
    \/ c.claim = deliveries[c.of].claims /\ deliveries[c.of].status = "PROCESSING"
    \/ c.claim < deliveries[c.of].claims /\ Key(c) \in cut

\* A delivery in PROCESSING is in somebody's hands, or its claim was cut off; and it is
\* due only in the second case.
Attended ==
  \A d \in Deliveries : deliveries[d].status = "PROCESSING" =>
    \/ <<d, deliveries[d].claims>> \in cut
    \/ /\ ~deliveries[d].due
       /\ \E w \in Workers : Delivering(w) /\ \E c \in Holds(w) : Key(c) = <<d, deliveries[d].claims>>

\* A delivery that may be claimed again was not accepted, as far as anybody could know.
Retriable(d) ==
  \/ deliveries[d].status \in {"NINGUNO", "PENDING"}
  \/ deliveries[d].status = "FAILED" /\ deliveries[d].code \in Recoverable

RetriesExplained ==
  \A s \in accepted : s[2] < deliveries[s[1]].claims \/ Retriable(s[1]) => s \in lost \cup cut

OutboxInv ==
  /\ OutboxTypeOK /\ StepsFit /\ HeldOnce /\ ClaimsCounted /\ OutcomeKnown
  /\ HeldIsCurrent /\ Attended /\ RetriesExplained /\ SentByLatestClaim

-----------------------------------------------------------------------------
(* Types.                                                                  *)

\* The job of a worker that claims, or that is done with an item.
LEMMA BusyTyped ==
  ASSUME NEW w \in Workers, OutboxTypeOK, NEW turn, NEW rows, NEW batch \in SUBSET Items(rows),
         \/ turn \in {"digest", "fanout"} /\ rows = Events
         \/ turn = "deliver" /\ rows = Deliveries
  PROVE  Busy(turn, batch) \in JobsOf({"free", "digest", "fanout"}, Events)
                                \cup JobsOf({"deliver"}, Deliveries)
<1>1. Job(turn, "work", batch) \in JobsOf({turn}, rows)
  BY SMT DEF Job, JobsOf, Steps, Codes
<1>2. Free \in JobsOf({"free", "digest", "fanout"}, Events)
  BY SMT DEF Free, Job, JobsOf, Steps, Codes
<1> QED
  BY <1>1, <1>2, SMT DEF Busy, JobsOf

\* What kind of job a worker has, by its turn.
LEMMA JobTyped ==
  ASSUME NEW w \in Workers, OutboxTypeOK
  PROVE  /\ Delivering(w) => jobs[w] \in JobsOf({"deliver"}, Deliveries)
         /\ ~Delivering(w) => jobs[w] \in JobsOf({"free", "digest", "fanout"}, Events)
BY SMT DEF OutboxTypeOK, Delivering, JobsOf

LEMMA TypeInit == OutboxInit => OutboxTypeOK /\ StepsFit
BY OutboxAssumption, SMT DEF OutboxInit, OutboxTypeOK, StepsFit, Delivering, Free, Job, JobsOf,
   EventRows, DeliveryRows, NoEvent, NoDelivery, Statuses, Steps, Codes

\* A worker that is done with an item goes on with its batch, or is free.
LEMMA FinishTyped ==
  ASSUME NEW w \in Workers, OutboxTypeOK, StepsFit, Finishes(w), jobs[w].step # "claim",
         \/ jobs[w] \in JobsOf({"free", "digest", "fanout"}, Events) /\ jobs[w].item \in Items(Events)
         \/ Delivering(w) /\ jobs[w] \in JobsOf({"deliver"}, Deliveries)
  PROVE  /\ jobs' \in [Workers -> JobsOf({"free", "digest", "fanout"}, Events)
                                    \cup JobsOf({"deliver"}, Deliveries)]
         /\ StepsFit'
<1> DEFINE job == Busy(jobs[w].turn, jobs[w].batch)
<1>1. job \in JobsOf({"free", "digest", "fanout"}, Events) \cup JobsOf({"deliver"}, Deliveries)
  BY SMT DEF Busy, Free, Job, JobsOf, Steps, Codes, Delivering
<1>2. StepsFit'
  BY SMT DEF Finishes, StepsFit, Delivering, Busy, Free, Job, OutboxTypeOK
<1> QED
  BY <1>1, <1>2, SMT DEF Finishes, OutboxTypeOK

\* A worker at a step for an item.
LEMMA DoesTyped ==
  ASSUME NEW w \in Workers, OutboxTypeOK, StepsFit, NEW step, NEW item,
         NEW people \in SUBSET People, NEW left \in SUBSET People, NEW code \in Codes,
         Does(w, step, item, people, left, code),
         \/ /\ jobs[w] \in JobsOf({"free", "digest", "fanout"}, Events) /\ item \in Items(Events)
            /\ step \in {"materialize", "close", "giveUp"}
         \/ /\ jobs[w] \in JobsOf({"deliver"}, Deliveries) /\ item \in Items(Deliveries)
            /\ step \in {"mark", "fail"}
  PROVE  /\ jobs' \in [Workers -> JobsOf({"free", "digest", "fanout"}, Events)
                                    \cup JobsOf({"deliver"}, Deliveries)]
         /\ StepsFit'
<1> DEFINE job == [turn |-> jobs[w].turn, step |-> step, batch |-> jobs[w].batch \ {item},
                   item |-> item, people |-> people, left |-> left, code |-> code]
<1>1. job \in JobsOf({"free", "digest", "fanout"}, Events) \cup JobsOf({"deliver"}, Deliveries)
  BY SMT DEF JobsOf, Steps
<1>2. jobs' = [jobs EXCEPT ![w] = job]
  BY DEF Does
<1>3. jobs'[w].turn = jobs[w].turn /\ jobs'[w].step = step /\ jobs'[w].item = item
  BY <1>2, SMT DEF OutboxTypeOK
<1>4. jobs[w].turn = "deliver" <=> step \in {"mark", "fail"}
  BY SMT DEF JobsOf
<1>5. StepsFit'
  BY <1>2, <1>3, <1>4, SMT DEF StepsFit, Delivering, OutboxTypeOK
<1> QED
  BY <1>1, <1>2, <1>5, SMT DEF OutboxTypeOK

LEMMA EventTyped ==
  ASSUME OutboxTypeOK, NEW e \in Events, NEW status \in Statuses, NEW due \in BOOLEAN,
         EventBecomes(e, status, due)
  PROVE  events' \in [Events -> EventRows]
<1> DEFINE row == [status |-> status, attempts |-> events[e].attempts, due |-> due]
<1>1. row \in EventRows
  BY SMT DEF OutboxTypeOK, EventRows
<1>2. events' = [events EXCEPT ![e] = row]
  BY DEF EventBecomes
<1>3. events \in [Events -> EventRows]
  BY DEF OutboxTypeOK
<1> QED
  BY <1>1, <1>2, <1>3, SMT

\* What a worker makes of handing a mail over.
LEMMA SendCases ==
  ASSUME NEW w \in Workers, Send(w)
  PROVE  \E c \in jobs[w].batch, step \in {"mark", "fail"}, code \in Codes :
           /\ Does(w, step, c, {}, {}, code)
           /\ \/ UNCHANGED mail /\ step = "fail"
              \/ accepted' = accepted \cup {Key(c)} /\ UNCHANGED lost /\ step = "mark"
              \/ /\ accepted' = accepted \cup {Key(c)} /\ lost' = lost \cup {Key(c)}
                 /\ step = "fail"
BY DEF Send, Codes, Key, mail

LEMMA DeliveryTyped ==
  ASSUME OutboxTypeOK, NEW d \in Deliveries, NEW status \in Statuses, NEW attempts \in Nat,
         NEW due \in BOOLEAN, NEW code \in Codes,
         status \in {"PROCESSING", "SENT", "FAILED"} => attempts > 0,
         DeliveryBecomes(d, status, attempts, due, code)
  PROVE  /\ deliveries' \in [Deliveries -> DeliveryRows]
         /\ \A c \in Deliveries : deliveries'[c].status \in {"PROCESSING", "SENT", "FAILED"}
                                    => deliveries'[c].attempts > 0
<1> DEFINE row == [status |-> status, attempts |-> attempts, claims |-> deliveries[d].claims,
                   due |-> due, code |-> code]
<1>1. row \in DeliveryRows
  BY SMT DEF OutboxTypeOK, DeliveryRows
<1>2. deliveries' = [deliveries EXCEPT ![d] = row]
  BY DEF DeliveryBecomes
<1> QED
  BY <1>1, <1>2, SMT DEF OutboxTypeOK

LEMMA TypeStep ==
  ASSUME OutboxTypeOK, StepsFit, [OutboxNext]_outboxVars
  PROVE  OutboxTypeOK' /\ StepsFit'
<1> DEFINE EventJobs == JobsOf({"free", "digest", "fanout"}, Events)
           MailJobs == JobsOf({"deliver"}, Deliveries)
           JobsTyped == jobs' \in [Workers -> EventJobs \cup MailJobs]
<1> USE DEF tables, mail
<1>1. ASSUME NEW w \in Workers, NEW turn \in {"digest", "fanout"}, ClaimEvents(w, turn)
      PROVE  OutboxTypeOK' /\ StepsFit'
  <2>1. PICK S \in Batches(ClaimableEvents(turn)) :
          /\ events' = [e \in Events |-> IF e \in S THEN TakenEvent(e) ELSE events[e]]
          /\ jobs' = [jobs EXCEPT ![w] = Busy(turn, {EventClaim(e) : e \in S})]
    BY <1>1 DEF ClaimEvents
  <2>2. S \subseteq Events
    BY OutboxAssumption, SMT DEF Batches, ClaimableEvents, EventsOf
  <2>3. \A e \in S : EventClaim(e) \in Items(Events) /\ TakenEvent(e) \in EventRows
    BY <2>2, SMT DEF Items, OutboxTypeOK, EventClaim, TakenEvent, EventRows, Statuses
  <2>4. JobsTyped
    <3>1. {EventClaim(e) : e \in S} \in SUBSET Items(Events)
      BY <2>3
    <3>2. Busy(turn, {EventClaim(e) : e \in S}) \in EventJobs \cup MailJobs
      BY <3>1, BusyTyped
    <3> QED
      BY <3>2, <2>1, SMT DEF OutboxTypeOK
  <2>5. events' \in [Events -> EventRows]
    BY <2>1, <2>3, SMT DEF OutboxTypeOK
  <2>6. StepsFit'
    BY <2>1, SMT DEF StepsFit, Delivering, Busy, Free, Job, OutboxTypeOK
  <2> QED
    BY <1>1, <2>4, <2>5, <2>6, SMT DEF OutboxTypeOK, ClaimEvents
<1>2. ASSUME NEW w \in Workers, Resolve(w)
      PROVE  OutboxTypeOK' /\ StepsFit'
  <2>1. PICK c \in jobs[w].batch, R \in SUBSET People :
          Does(w, "materialize", c, R, R, "NINGUNO")
    BY <1>2 DEF Resolve
  <2>2. jobs[w] \in EventJobs
    BY <1>2, JobTyped DEF Resolve, Delivering
  <2>3. c \in Items(Events)
    BY <2>2, SMT DEF JobsOf
  <2>4. JobsTyped /\ StepsFit'
    BY <2>1, <2>2, <2>3, DoesTyped DEF Codes
  <2> QED
    BY <1>2, <2>4, SMT DEF OutboxTypeOK, Resolve
<1>3. ASSUME NEW w \in Workers, Materialize(w)
      PROVE  OutboxTypeOK' /\ StepsFit'
  <2>1. PICK p \in jobs[w].left :
          LET d == <<jobs[w].item.of, p>> IN
          /\ deliveries' = IF deliveries[d].status # "NINGUNO" THEN deliveries
                           ELSE [deliveries EXCEPT ![d] = NewDelivery]
          /\ Does(w, IF LeftAfter(w, p) = {} THEN "close" ELSE "materialize", jobs[w].item,
                  jobs[w].people, LeftAfter(w, p), "NINGUNO")
    BY <1>3 DEF Materialize
  <2>2. jobs[w].item \in Items(Events) /\ ~Delivering(w)
    BY <1>3 DEF Materialize, AtStep, StepsFit
  <2>3. jobs[w] \in EventJobs
    BY <2>2, JobTyped
  <2>4. LeftAfter(w, p) \in SUBSET People /\ jobs[w].people \in SUBSET People
    BY <2>3, SMT DEF JobsOf, LeftAfter
  <2>5. JobsTyped /\ StepsFit'
    BY <2>1, <2>2, <2>3, <2>4, DoesTyped DEF Codes
  <2>6. NewDelivery \in DeliveryRows /\ NewDelivery.status = "PENDING"
    BY SMT DEF NewDelivery, DeliveryRows, Statuses, Codes
  <2>7. /\ deliveries' \in [Deliveries -> DeliveryRows]
        /\ \A d \in Deliveries : deliveries'[d].status \in {"PROCESSING", "SENT", "FAILED"}
                                   => deliveries'[d].attempts > 0
    <3> DEFINE d == <<jobs[w].item.of, p>>
    <3>1. UNCHANGED deliveries \/ deliveries' = [deliveries EXCEPT ![d] = NewDelivery]
      BY <2>1
    <3>2. CASE UNCHANGED deliveries
      BY <3>2 DEF OutboxTypeOK
    <3>3. CASE deliveries' = [deliveries EXCEPT ![d] = NewDelivery]
      <4>1. d \in Deliveries
        BY <2>2, <2>3, SMT DEF Items, Deliveries, JobsOf
      <4> QED
        BY <2>6, <3>3, <4>1, SMT DEF OutboxTypeOK
    <3> QED
      BY <3>1, <3>2, <3>3
  <2> QED
    BY <1>3, <2>5, <2>7, SMT DEF OutboxTypeOK, Materialize
<1>4. ASSUME NEW w \in Workers, Cancel(w) \/ EventThrows(w)
      PROVE  OutboxTypeOK' /\ StepsFit'
  <2>1. jobs[w].item \in Items(Events) /\ ~Delivering(w)
    BY <1>4 DEF Cancel, EventThrows, AtStep, StepsFit
  <2>2. jobs[w] \in EventJobs
    BY <2>1, JobTyped
  <2>3. /\ jobs[w].people \in SUBSET People /\ jobs[w].left \in SUBSET People
        /\ jobs[w].code \in Codes
    BY <2>2, SMT DEF JobsOf
  <2>4. Goes(w, "close") \/ Goes(w, "giveUp")
    BY <1>4 DEF Cancel, EventThrows
  <2>5. JobsTyped /\ StepsFit'
    BY <2>1, <2>2, <2>3, <2>4, DoesTyped DEF Goes
  <2>6. cancelled' \subseteq Events
    BY <1>4, <2>1, SMT DEF Cancel, EventThrows, OutboxTypeOK, Items
  <2> QED
    BY <1>4, <2>5, <2>6, SMT DEF OutboxTypeOK, Cancel, EventThrows
<1>5. ASSUME NEW w \in Workers, CloseEvent(w) \/ FailEvent(w)
      PROVE  OutboxTypeOK' /\ StepsFit'
  <2>1. jobs[w].item \in Items(Events) /\ ~Delivering(w) /\ jobs[w].step # "claim"
    <3>1. jobs[w].step = "close" \/ jobs[w].step = "giveUp"
      BY <1>5 DEF CloseEvent, FailEvent, AtStep
    <3> QED
      BY <3>1 DEF StepsFit
  <2> DEFINE e == jobs[w].item.of
  <2>2. jobs[w] \in EventJobs /\ e \in Events
    BY <2>1, JobTyped, SMT DEF Items
  <2>3. Finishes(w)
    BY <1>5 DEF CloseEvent, FailEvent
  <2>4. JobsTyped /\ StepsFit'
    BY <2>1, <2>2, <2>3, FinishTyped
  <2>5. \/ UNCHANGED events
        \/ EventBecomes(e, "SENT", TRUE)
        \/ EventBecomes(e, "FAILED", FALSE)
    BY <1>5 DEF CloseEvent, FailEvent
  <2>6. events' \in [Events -> EventRows]
    <3>1. CASE UNCHANGED events
      BY <3>1 DEF OutboxTypeOK
    <3>2. CASE EventBecomes(e, "SENT", TRUE)
      BY <2>2, <3>2, EventTyped DEF Statuses
    <3>3. CASE EventBecomes(e, "FAILED", FALSE)
      BY <2>2, <3>3, EventTyped DEF Statuses
    <3> QED
      BY <2>5, <3>1, <3>2, <3>3
  <2>7. promised' \in [Events -> SUBSET People]
    <3>1. jobs[w].people \in SUBSET People
      BY <2>2, SMT DEF JobsOf
    <3> QED
      <4>1. \/ UNCHANGED promised
            \/ promised' = [promised EXCEPT ![jobs[w].item.of] = jobs[w].people]
        BY <1>5 DEF CloseEvent, FailEvent
      <4> QED
        BY <3>1, <4>1, SMT DEF OutboxTypeOK
  <2>8. UNCHANGED <<deliveries, cancelled, setbacks, mail, cut>>
    BY <1>5 DEF CloseEvent, FailEvent
  <2> QED
    BY <2>4, <2>6, <2>7, <2>8, SMT DEF OutboxTypeOK
<1>6. ASSUME NEW w \in Workers, ClaimDeliveries(w)
      PROVE  OutboxTypeOK' /\ StepsFit'
  <2>1. PICK S \in Batches(ClaimableDeliveries) :
          /\ deliveries' = [d \in Deliveries |-> IF d \in S THEN Taken(d) ELSE deliveries[d]]
          /\ jobs' = [jobs EXCEPT ![w] = Busy("deliver", {DeliveryClaim(d) : d \in S})]
    BY <1>6 DEF ClaimDeliveries
  <2>2. S \subseteq Deliveries
    BY SMT DEF Batches, ClaimableDeliveries
  <2>3. \A d \in S : /\ Taken(d) \in DeliveryRows /\ Taken(d).attempts > 0
                     /\ DeliveryClaim(d) \in Items(Deliveries)
    BY <2>2, SMT DEF Taken, DeliveryClaim, Items, OutboxTypeOK, DeliveryRows, Statuses
  <2>4. JobsTyped
    <3>1. {DeliveryClaim(d) : d \in S} \in SUBSET Items(Deliveries)
      BY <2>3
    <3>2. Busy("deliver", {DeliveryClaim(d) : d \in S}) \in EventJobs \cup MailJobs
      BY <3>1, BusyTyped
    <3> QED
      BY <3>2, <2>1, SMT DEF OutboxTypeOK
  <2>5. /\ deliveries' \in [Deliveries -> DeliveryRows]
        /\ \A d \in Deliveries : deliveries'[d].status \in {"PROCESSING", "SENT", "FAILED"}
                                   => deliveries'[d].attempts > 0
    BY <2>1, <2>3, SMT DEF OutboxTypeOK
  <2>6. StepsFit'
    BY <2>1, SMT DEF StepsFit, Delivering, Busy, Free, Job, OutboxTypeOK
  <2> QED
    BY <1>6, <2>4, <2>5, <2>6, SMT DEF OutboxTypeOK, ClaimDeliveries
<1>7. ASSUME NEW w \in Workers, Send(w)
      PROVE  OutboxTypeOK' /\ StepsFit'
  <2>1. PICK c \in jobs[w].batch, step \in {"mark", "fail"}, code \in Codes :
          /\ Does(w, step, c, {}, {}, code)
          /\ \/ UNCHANGED mail /\ step = "fail"
             \/ accepted' = accepted \cup {Key(c)} /\ UNCHANGED lost /\ step = "mark"
             \/ /\ accepted' = accepted \cup {Key(c)} /\ lost' = lost \cup {Key(c)}
                /\ step = "fail"
    BY <1>7, SendCases
  <2>2. jobs[w] \in MailJobs
    BY <1>7, JobTyped DEF Send, Delivering
  <2>3. c \in Items(Deliveries)
    BY <2>2, SMT DEF JobsOf
  <2>4. JobsTyped /\ StepsFit'
    BY <2>1, <2>2, <2>3, DoesTyped
  <2>5. Key(c) \in Deliveries \X Nat
    BY <2>3, SMT DEF Items, Key
  <2>6. accepted' \subseteq Deliveries \X Nat /\ lost' \subseteq accepted'
    BY <2>1, <2>5, SMT DEF OutboxTypeOK
  <2> QED
    BY <1>7, <2>4, <2>6, SMT DEF OutboxTypeOK, Send
<1>8. ASSUME NEW w \in Workers, MarkThrows(w)
      PROVE  OutboxTypeOK' /\ StepsFit'
  <2>1. Delivering(w) /\ jobs[w].item \in Items(Deliveries)
    BY <1>8 DEF MarkThrows, AtStep, StepsFit
  <2>2. jobs[w] \in MailJobs
    BY <2>1, JobTyped
  <2>3. Does(w, "fail", jobs[w].item, {}, {}, "CONFIGURATION")
    BY <1>8 DEF MarkThrows
  <2>4. JobsTyped /\ StepsFit'
    BY <2>1, <2>2, <2>3, DoesTyped DEF Codes
  <2> QED
    BY <1>8, <2>4, SMT DEF OutboxTypeOK, MarkThrows
<1>9. ASSUME NEW w \in Workers, MarkSent(w) \/ MarkFailure(w)
      PROVE  OutboxTypeOK' /\ StepsFit'
  <2>1. Delivering(w) /\ jobs[w].item \in Items(Deliveries) /\ jobs[w].step # "claim"
    <3>1. jobs[w].step = "mark" \/ jobs[w].step = "fail"
      BY <1>9 DEF MarkSent, MarkFailure, AtStep
    <3> QED
      BY <3>1 DEF StepsFit
  <2>2. jobs[w] \in MailJobs
    BY <2>1, JobTyped
  <2>3. Finishes(w)
    BY <1>9 DEF MarkSent, MarkFailure
  <2>4. JobsTyped /\ StepsFit'
    BY <2>1, <2>2, <2>3, FinishTyped
  <2> DEFINE d == jobs[w].item.of
  <2>5. jobs[w].code \in Codes /\ d \in Deliveries
    BY <2>1, <2>2, SMT DEF JobsOf, Items
  <2>6. deliveries[d].attempts \in Nat
    BY <2>5, SMT DEF OutboxTypeOK, DeliveryRows
  <2>7. /\ deliveries' \in [Deliveries -> DeliveryRows]
        /\ \A c \in Deliveries : deliveries'[c].status \in {"PROCESSING", "SENT", "FAILED"}
                                   => deliveries'[c].attempts > 0
    <3>1. CASE UNCHANGED deliveries
      BY <3>1 DEF OutboxTypeOK
    <3>2. ASSUME HoldsDelivery(w), NEW status \in Statuses, NEW code \in Codes,
                 DeliveryBecomes(d, status, deliveries[d].attempts, FALSE, code)
          PROVE  <2>7!1 /\ <2>7!2
      <4>1. deliveries[d].attempts > 0
        BY <2>5, <3>2 DEF HoldsDelivery, OutboxTypeOK
      <4> QED
        BY <2>5, <2>6, <3>2, <4>1, DeliveryTyped
    <3> QED
      BY <1>9, <2>5, <3>1, <3>2 DEF MarkSent, MarkFailure, Statuses, Codes
  <2>8. UNCHANGED <<events, cancelled, setbacks, mail, cut, promised>>
    BY <1>9 DEF MarkSent, MarkFailure
  <2> QED
    BY <2>4, <2>7, <2>8, SMT DEF OutboxTypeOK
<1>10. ASSUME NEW w \in Workers, Crash(w)
       PROVE  OutboxTypeOK' /\ StepsFit'
  <2>1. JobsTyped
    BY <1>10, SMT DEF OutboxTypeOK, Crash, Free, Job, JobsOf, Steps, Codes
  <2>2. StepsFit'
    BY <1>10, SMT DEF StepsFit, Delivering, OutboxTypeOK, Crash, Free, Job
  <2>3. Delivering(w) => \A c \in Holds(w) : c \in Items(Deliveries)
    BY JobTyped, SMT DEF Holds, StepsFit, JobsOf, Steps
  <2>4. cut' \subseteq Deliveries \X Nat
    BY <1>10, <2>3, SMT DEF Crash, OutboxTypeOK, Delivering, Items
  <2>5. setbacks' \in 0..MaxSetbacks
    BY <1>10, OutboxAssumption, SMT DEF Crash, OutboxTypeOK
  <2> QED
    BY <1>10, <2>1, <2>2, <2>4, <2>5, SMT DEF OutboxTypeOK, Crash
<1>11. ASSUME NEW e \in Events, Record(e) \/ EventDue(e) \/ OutliveEvent(e)
       PROVE  OutboxTypeOK' /\ StepsFit'
  <2>1. events[e].status \in Statuses
    BY SMT DEF OutboxTypeOK, EventRows
  <2>2. EventBecomes(e, "PENDING", e \notin Digests) \/ EventBecomes(e, events[e].status, TRUE)
    BY <1>11 DEF Record, EventDue, OutliveEvent
  <2>3. events' \in [Events -> EventRows]
    BY <2>1, <2>2, EventTyped DEF Statuses
  <2>4. setbacks' \in 0..MaxSetbacks
    <3>2. setbacks \in 0..MaxSetbacks
      BY DEF OutboxTypeOK
    <3>1. UNCHANGED setbacks \/ (setbacks < MaxSetbacks /\ setbacks' = setbacks + 1)
      BY <1>11 DEF Record, EventDue, OutliveEvent
    <3> QED
      BY <3>1, <3>2, OutboxAssumption, SMT
  <2>5. UNCHANGED <<deliveries, cancelled, jobs, mail, cut, promised>>
    BY <1>11 DEF Record, EventDue, OutliveEvent
  <2> QED
    BY <2>3, <2>4, <2>5, SMT DEF OutboxTypeOK, StepsFit, Delivering
<1>12. ASSUME NEW d \in Deliveries, DeliveryDue(d) \/ OutliveDelivery(d) \/ ManualRetry(d)
       PROVE  OutboxTypeOK' /\ StepsFit'
  <2>1. deliveries[d] \in DeliveryRows
    BY DEF OutboxTypeOK
  <2>2. /\ deliveries[d].status \in Statuses /\ deliveries[d].attempts \in Nat
        /\ deliveries[d].code \in Codes /\ deliveries[d].claims \in Nat
    BY <2>1, SMT DEF DeliveryRows
  <2>3. deliveries[d].status \in {"PROCESSING", "SENT", "FAILED"} => deliveries[d].attempts > 0
    BY DEF OutboxTypeOK
  <2>4. \/ DeliveryBecomes(d, "PENDING", 0, TRUE, "NINGUNO")
        \/ DeliveryBecomes(d, deliveries[d].status, deliveries[d].attempts, TRUE,
                           deliveries[d].code)
    BY <1>12 DEF DeliveryDue, OutliveDelivery, ManualRetry
  <2>5. /\ deliveries' \in [Deliveries -> DeliveryRows]
        /\ \A c \in Deliveries : deliveries'[c].status \in {"PROCESSING", "SENT", "FAILED"}
                                   => deliveries'[c].attempts > 0
    <3>1. CASE DeliveryBecomes(d, "PENDING", 0, TRUE, "NINGUNO")
      BY <3>1, DeliveryTyped DEF Statuses, Codes
    <3>2. CASE DeliveryBecomes(d, deliveries[d].status, deliveries[d].attempts, TRUE,
                               deliveries[d].code)
      BY <2>2, <2>3, <3>2, DeliveryTyped
    <3> QED
      BY <2>4, <3>1, <3>2
  <2>6. setbacks' \in 0..MaxSetbacks
    <3>2. setbacks \in 0..MaxSetbacks
      BY DEF OutboxTypeOK
    <3>1. UNCHANGED setbacks \/ (setbacks < MaxSetbacks /\ setbacks' = setbacks + 1)
      BY <1>12 DEF DeliveryDue, OutliveDelivery, ManualRetry
    <3> QED
      BY <3>1, <3>2, OutboxAssumption, SMT
  <2>7. cut' \subseteq Deliveries \X Nat
    <3>1. UNCHANGED cut \/ cut' = cut \cup {<<d, deliveries[d].claims>>}
      BY <1>12 DEF DeliveryDue, OutliveDelivery, ManualRetry
    <3> QED
      BY <2>2, <3>1, SMT DEF OutboxTypeOK
  <2>8. UNCHANGED <<events, cancelled, jobs, mail, promised>>
    BY <1>12 DEF DeliveryDue, OutliveDelivery, ManualRetry
  <2> QED
    BY <2>5, <2>6, <2>7, <2>8, SMT DEF OutboxTypeOK, StepsFit, Delivering
<1>13. CASE UNCHANGED outboxVars
  BY <1>13, SMT DEF outboxVars, OutboxTypeOK, StepsFit, Delivering
<1> QED
  BY <1>1, <1>2, <1>3, <1>4, <1>5, <1>6, <1>7, <1>8, <1>9, <1>10, <1>11, <1>12, <1>13
     DEF OutboxNext, Work

-----------------------------------------------------------------------------
(* Mails.                                                                  *)

\* The shape of a delivering worker's job.
LEMMA HeldTyped ==
  ASSUME NEW w \in Workers, OutboxTypeOK, StepsFit, Delivering(w)
  PROVE  /\ jobs[w].step \in {"work", "mark", "fail"}
         /\ jobs[w].batch \subseteq Items(Deliveries)
         /\ jobs[w].step = "work" => Holds(w) = jobs[w].batch
         /\ jobs[w].step # "work" => /\ Holds(w) = jobs[w].batch \cup {jobs[w].item}
                                     /\ jobs[w].item \in Items(Deliveries)
         /\ Holds(w) \subseteq Items(Deliveries)
<1>1. jobs[w] \in JobsOf({"deliver"}, Deliveries)
  BY JobTyped
<1>2. jobs[w].step \in Steps /\ jobs[w].batch \subseteq Items(Deliveries)
  BY <1>1, SMT DEF JobsOf
<1>3. jobs[w].step \in {"work", "mark", "fail"}
  BY <1>2, SMT DEF Steps, StepsFit, Delivering
<1>4. jobs[w].step # "work" => jobs[w].item \in Items(Deliveries)
  BY <1>3, SMT DEF StepsFit
<1> QED
  BY <1>2, <1>3, <1>4, SMT DEF Holds

\* A claim and the name of it say the same.
LEMMA KeyTyped ==
  ASSUME NEW c \in Items(Deliveries)
  PROVE  /\ c.of \in Deliveries /\ c.claim \in Nat \ {0}
         /\ Key(c) = <<c.of, c.claim>> /\ Key(c)[1] = c.of /\ Key(c)[2] = c.claim
BY SMT DEF Items, Key

LEMMA RowTyped ==
  ASSUME OutboxTypeOK, NEW d \in Deliveries
  PROVE  /\ deliveries[d].status \in Statuses /\ deliveries[d].claims \in Nat
         /\ deliveries[d].due \in BOOLEAN /\ deliveries[d].code \in Codes
BY SMT DEF OutboxTypeOK, DeliveryRows

LEMMA AcceptedTyped ==
  ASSUME OutboxTypeOK, NEW s \in accepted
  PROVE  s[1] \in Deliveries /\ s[2] \in Nat /\ s = <<s[1], s[2]>>
BY SMT DEF OutboxTypeOK

MailInv == /\ HeldOnce /\ ClaimsCounted /\ OutcomeKnown
           /\ HeldIsCurrent /\ Attended /\ RetriesExplained /\ SentByLatestClaim

\* A step of the events' side: it leaves those who deliver, what was accepted and every
\* delivery there was as they are.
LEMMA EventSide ==
  ASSUME OutboxTypeOK, StepsFit, MailInv,
         \A w \in Workers : /\ jobs'[w].turn = "deliver" <=> Delivering(w)
                            /\ Delivering(w) => jobs'[w] = jobs[w],
         UNCHANGED <<accepted, lost, cut>>,
         \A d \in Deliveries : \/ deliveries'[d] = deliveries[d]
                               \/ deliveries[d].status = "NINGUNO" /\ deliveries'[d] = NewDelivery
  PROVE  MailInv'
<1>1. \A w \in Workers : (Delivering(w)' <=> Delivering(w)) /\ (Delivering(w) => Holds(w)' = Holds(w))
  BY SMT DEF Delivering, Holds
<1>2. \A d \in Deliveries : /\ deliveries'[d].claims = deliveries[d].claims
                            /\ deliveries'[d].status # deliveries[d].status =>
                                 /\ deliveries[d].status = "NINGUNO" /\ deliveries[d].claims = 0
                                 /\ deliveries'[d].status = "PENDING"
                            /\ deliveries'[d].status = deliveries[d].status =>
                                 deliveries'[d] = deliveries[d]
  BY SMT DEF MailInv, ClaimsCounted, NewDelivery
<1>3. HeldOnce'
  BY <1>1, SMT DEF MailInv, HeldOnce
<1>4. ClaimsCounted'
  <2>1. \A w \in Workers : Delivering(w)' => \A c \in Holds(w)' : c.claim <= deliveries'[c.of].claims
    BY <1>1, <1>2, HeldTyped, KeyTyped, SMT DEF MailInv, ClaimsCounted
  <2>2. \A s \in accepted' : s[2] \in 1..deliveries'[s[1]].claims
    BY <1>2, AcceptedTyped, SMT DEF MailInv, ClaimsCounted
  <2>3. \A d \in Deliveries :
          /\ deliveries'[d].status \in {"PROCESSING", "SENT", "FAILED"} => deliveries'[d].claims > 0
          /\ deliveries'[d].status = "NINGUNO" => deliveries'[d].claims = 0
    BY <1>2, SMT DEF MailInv, ClaimsCounted
  <2> QED
    BY <2>1, <2>2, <2>3 DEF ClaimsCounted
<1>5. OutcomeKnown'
  BY <1>1, SMT DEF MailInv, OutcomeKnown
<1>6. HeldIsCurrent'
  BY <1>1, <1>2, HeldTyped, KeyTyped, SMT DEF MailInv, HeldIsCurrent
<1>7. Attended'
  BY <1>1, <1>2, SMT DEF MailInv, Attended
<1>8. RetriesExplained'
  BY <1>2, AcceptedTyped, SMT DEF MailInv, RetriesExplained, Retriable
<1>9. SentByLatestClaim'
  BY <1>2, SMT DEF MailInv, SentByLatestClaim
<1> QED
  BY <1>3, <1>4, <1>5, <1>6, <1>7, <1>8, <1>9 DEF MailInv

\* Claiming deliveries: nobody's earlier claim of them is worth anything any more, and each
\* was cut off or had nothing accepted.
LEMMA ClaimsKeep ==
  ASSUME OutboxTypeOK, StepsFit, MailInv, NEW w \in Workers, ClaimDeliveries(w)
  PROVE  MailInv'
<1>1. PICK S \in Batches(ClaimableDeliveries) :
        /\ deliveries' = [d \in Deliveries |-> IF d \in S THEN Taken(d) ELSE deliveries[d]]
        /\ jobs' = [jobs EXCEPT ![w] = Busy("deliver", {DeliveryClaim(d) : d \in S})]
  BY DEF ClaimDeliveries
<1>2. /\ S \subseteq Deliveries
      /\ \A d \in S : deliveries[d].status \in {"PENDING", "PROCESSING"} /\ deliveries[d].due
  BY SMT DEF Batches, ClaimableDeliveries
<1>3. UNCHANGED <<accepted, lost, cut>> /\ ~Delivering(w)
  BY DEF ClaimDeliveries, mail, Free, Job, Delivering
<1>4. \A d \in S : deliveries'[d] = Taken(d)
  BY <1>1, <1>2
<1>5. \A d \in S : /\ deliveries'[d].claims = deliveries[d].claims + 1
                   /\ deliveries'[d].status = "PROCESSING" /\ ~deliveries'[d].due
  <2>1. \A d \in S : /\ Taken(d).claims = deliveries[d].claims + 1
                     /\ Taken(d).status = "PROCESSING" /\ ~Taken(d).due
    BY DEF Taken
  <2> QED
    BY <1>4, <2>1
<1>6. \A d \in Deliveries \ S : deliveries'[d] = deliveries[d]
  BY <1>1
<1>7. \A v \in Workers : v # w => /\ Delivering(v)' <=> Delivering(v)
                                  /\ jobs'[v] = jobs[v] /\ Holds(v)' = Holds(v)
  BY <1>1, SMT DEF Delivering, Holds, OutboxTypeOK
<1>8. Delivering(w)' => /\ jobs'[w].step = "work" /\ jobs'[w].batch = Holds(w)'
                        /\ Holds(w)' = {DeliveryClaim(d) : d \in S}
  BY <1>1, SMT DEF Delivering, Holds, Busy, Free, Job, OutboxTypeOK
<1>9. S # {} => Delivering(w)'
  BY <1>1, SMT DEF Delivering, Busy, Job, OutboxTypeOK
<1>10. \A d \in S : /\ DeliveryClaim(d).of = d
                    /\ DeliveryClaim(d).claim = deliveries[d].claims + 1
  BY SMT DEF DeliveryClaim
<1>11. \A d \in S : deliveries[d].status = "PROCESSING" => <<d, deliveries[d].claims>> \in cut
  BY <1>2, SMT DEF MailInv, Attended
<1>12. Delivering(w)' => \A c \in Holds(w)' : /\ c.of \in S
                                              /\ c.claim = deliveries[c.of].claims + 1
                                              /\ c = DeliveryClaim(c.of)
  BY <1>8, <1>10, SMT
<1>13. \A v \in Workers : v # w /\ Delivering(v)' => \A c \in Holds(v)' :
         c \in Holds(v) /\ c \in Items(Deliveries) /\ c.claim <= deliveries[c.of].claims
  BY <1>7, HeldTyped, SMT DEF MailInv, ClaimsCounted
<1>14. \A d \in Deliveries : deliveries[d].claims \in Nat
  BY RowTyped
<1>15. HeldOnce'
  <2> SUFFICES ASSUME NEW u \in Workers, NEW v \in Workers, Delivering(u)', Delivering(v)'
               PROVE  /\ \A b \in Holds(u)', c \in Holds(v)' : Key(b) = Key(c) => u = v /\ b = c
                      /\ jobs'[u].step # "work" => jobs'[u].item \notin jobs'[u].batch
    BY DEF HeldOnce
  <2>1. CASE u # w /\ v # w
    BY <1>7, <2>1, SMT DEF MailInv, HeldOnce
  <2>2. CASE u = w /\ v = w
    BY <1>8, <1>12, <2>2, SMT DEF Key
  <2>3. CASE u = w /\ v # w
    BY <1>2, <1>8, <1>12, <1>13, <1>14, <2>3, SMT DEF Key
  <2>4. CASE u # w /\ v = w
    <3>1. \A b \in Holds(u)', c \in Holds(v)' : Key(b) # Key(c)
      BY <1>2, <1>12, <1>13, <1>14, <2>4, SMT DEF Key
    <3>2. jobs'[u].step # "work" => jobs'[u].item \notin jobs'[u].batch
      BY <1>7, <2>4, SMT DEF MailInv, HeldOnce
    <3> QED
      BY <3>1, <3>2
  <2> QED
    BY <2>1, <2>2, <2>3, <2>4
<1>16. ClaimsCounted'
  <2>1. \A d \in Deliveries : deliveries[d].claims <= deliveries'[d].claims
                              /\ deliveries'[d].claims \in Nat
    BY <1>2, <1>5, <1>6, <1>14, SMT
  <2>2. \A v \in Workers : Delivering(v)' => \A c \in Holds(v)' : c.claim <= deliveries'[c.of].claims
    <3> SUFFICES ASSUME NEW v \in Workers, Delivering(v)', NEW c \in Holds(v)'
                 PROVE  c.claim <= deliveries'[c.of].claims
      OBVIOUS
    <3>1. CASE v = w
      BY <1>2, <1>5, <1>12, <1>14, <3>1, SMT
    <3>2. CASE v # w
      BY <1>13, <1>14, <2>1, <3>2, KeyTyped, SMT
    <3> QED
      BY <3>1, <3>2
  <2>3. \A s \in accepted' : s[2] \in 1..deliveries'[s[1]].claims
    BY <1>3, <1>14, <2>1, AcceptedTyped, SMT DEF MailInv, ClaimsCounted
  <2>4. \A d \in Deliveries :
          /\ deliveries'[d].status \in {"PROCESSING", "SENT", "FAILED"} => deliveries'[d].claims > 0
          /\ deliveries'[d].status = "NINGUNO" => deliveries'[d].claims = 0
    BY <1>2, <1>5, <1>6, <1>14, SMT DEF MailInv, ClaimsCounted
  <2> QED
    BY <2>2, <2>3, <2>4 DEF ClaimsCounted
<1>17. OutcomeKnown'
  <2> SUFFICES ASSUME NEW v \in Workers, Delivering(v)'
               PROVE  /\ \A c \in jobs'[v].batch : Key(c) \notin accepted'
                      /\ jobs'[v].step = "mark" => Key(jobs'[v].item) \in accepted'
                      /\ jobs'[v].step = "fail" /\ jobs'[v].code \in Recoverable
                           => Key(jobs'[v].item) \notin accepted' \ lost'
    BY DEF OutcomeKnown
  <2>1. CASE v = w
    <3>1. \A s \in accepted : s[1] \in Deliveries /\ s[2] <= deliveries[s[1]].claims /\ s[2] \in Nat
      BY AcceptedTyped, <1>14, SMT DEF MailInv, ClaimsCounted
    <3>2. \A c \in Holds(w)' : Key(c) \notin accepted
      BY <1>2, <1>12, <1>14, <2>1, <3>1, SMT DEF Key
    <3> QED
      BY <1>3, <1>8, <2>1, <3>2, SMT
  <2>2. CASE v # w
    BY <1>3, <1>7, <2>2, SMT DEF MailInv, OutcomeKnown
  <2> QED
    BY <2>1, <2>2
<1>18. HeldIsCurrent'
  <2> SUFFICES ASSUME NEW v \in Workers, Delivering(v)', NEW c \in Holds(v)'
               PROVE  \/ /\ c.claim = deliveries'[c.of].claims
                         /\ deliveries'[c.of].status = "PROCESSING"
                      \/ c.claim < deliveries'[c.of].claims /\ Key(c) \in cut'
    BY DEF HeldIsCurrent
  <2>1. CASE v = w
    BY <1>5, <1>12, <2>1, SMT
  <2>2. CASE v # w
    <3>1. c \in Holds(v) /\ c \in Items(Deliveries) /\ Delivering(v)
      BY <1>7, <1>13, <2>2
    <3>2. \/ c.claim = deliveries[c.of].claims /\ deliveries[c.of].status = "PROCESSING"
          \/ c.claim < deliveries[c.of].claims /\ Key(c) \in cut
      BY <3>1 DEF MailInv, HeldIsCurrent
    <3>3. CASE c.of \notin S
      BY <1>3, <1>6, <3>1, <3>2, <3>3, KeyTyped, SMT
    <3>4. CASE c.of \in S
      BY <1>3, <1>5, <1>11, <1>14, <3>1, <3>2, <3>4, KeyTyped, SMT
    <3> QED
      BY <3>3, <3>4
  <2> QED
    BY <2>1, <2>2
<1>19. Attended'
  <2> SUFFICES ASSUME NEW d \in Deliveries, deliveries'[d].status = "PROCESSING"
               PROVE  \/ <<d, deliveries'[d].claims>> \in cut'
                      \/ /\ ~deliveries'[d].due
                         /\ \E v \in Workers :
                              Delivering(v)' /\ \E c \in Holds(v)' : Key(c) = <<d, deliveries'[d].claims>>
    BY DEF Attended
  <2>1. CASE d \in S
    <3>1. Delivering(w)' /\ DeliveryClaim(d) \in Holds(w)'
      BY <1>8, <1>9, <2>1
    <3>2. Key(DeliveryClaim(d)) = <<d, deliveries'[d].claims>>
      BY <1>5, <1>10, <2>1, SMT DEF Key
    <3> QED
      BY <1>5, <2>1, <3>1, <3>2
  <2>2. CASE d \notin S
    BY <1>3, <1>6, <1>7, <2>2, SMT DEF MailInv, Attended
  <2> QED
    BY <2>1, <2>2
<1>20. RetriesExplained'
  <2> SUFFICES ASSUME NEW s \in accepted, s[2] < deliveries'[s[1]].claims \/ Retriable(s[1])'
               PROVE  s \in lost \cup cut
    BY <1>3 DEF RetriesExplained
  <2>1. s[1] \in Deliveries /\ s[2] \in Nat /\ s = <<s[1], s[2]>> /\ s[2] <= deliveries[s[1]].claims
    BY AcceptedTyped, <1>14, SMT DEF MailInv, ClaimsCounted
  <2>2. CASE s[1] \notin S
    BY <1>6, <2>1, <2>2, SMT DEF MailInv, RetriesExplained, Retriable
  <2>3. CASE s[1] \in S
    <3>1. CASE s[2] < deliveries[s[1]].claims \/ deliveries[s[1]].status = "PENDING"
      BY <3>1, SMT DEF MailInv, RetriesExplained, Retriable
    <3>2. CASE s[2] = deliveries[s[1]].claims /\ deliveries[s[1]].status = "PROCESSING"
      BY <1>11, <2>1, <2>3, <3>2
    <3> QED
      BY <1>2, <1>14, <2>1, <2>3, <3>1, <3>2, SMT
  <2> QED
    BY <2>2, <2>3
<1>21. SentByLatestClaim'
  BY <1>3, <1>5, <1>6, SMT DEF MailInv, SentByLatestClaim
<1> QED
  BY <1>15, <1>16, <1>17, <1>18, <1>19, <1>20, <1>21 DEF MailInv

\* Handing a mail over: the claim is still held, now as the item under way.
LEMMA SendKeeps ==
  ASSUME OutboxTypeOK, StepsFit, MailInv, NEW w \in Workers, Send(w)
  PROVE  MailInv'
<1>1. PICK c \in jobs[w].batch, step \in {"mark", "fail"}, code \in Codes :
        /\ Does(w, step, c, {}, {}, code)
        /\ \/ UNCHANGED mail /\ step = "fail"
           \/ accepted' = accepted \cup {Key(c)} /\ UNCHANGED lost /\ step = "mark"
           \/ /\ accepted' = accepted \cup {Key(c)} /\ lost' = lost \cup {Key(c)}
              /\ step = "fail"
  BY SendCases
<1>2. UNCHANGED <<deliveries, cut>> /\ Delivering(w) /\ jobs[w].step = "work"
  BY DEF Send, tables, AtStep, Delivering
<1>3. jobs' = [jobs EXCEPT ![w] = [turn |-> jobs[w].turn, step |-> step,
                 batch |-> jobs[w].batch \ {c}, item |-> c, people |-> {}, left |-> {},
                 code |-> code]]
  BY <1>1 DEF Does
<1>4. /\ Delivering(w)' /\ jobs'[w].step = step /\ jobs'[w].item = c
      /\ jobs'[w].batch = jobs[w].batch \ {c}
  BY <1>2, <1>3, SMT DEF OutboxTypeOK, Delivering
<1>5. \A v \in Workers : v # w => /\ Delivering(v)' <=> Delivering(v)
                                  /\ jobs'[v] = jobs[v] /\ Holds(v)' = Holds(v)
  BY <1>3, SMT DEF Delivering, Holds, OutboxTypeOK
<1>6. Holds(w) = jobs[w].batch /\ c \in Holds(w) /\ c \in Items(Deliveries)
  BY <1>2, HeldTyped
<1>7. Holds(w)' = Holds(w)
  BY <1>1, <1>4, <1>6, SMT DEF Holds
<1>8. \A v \in Workers : Delivering(v) =>
        /\ \A b \in Holds(v) : Key(b) = Key(c) => v = w /\ b = c
        /\ jobs[v].step # "work" => jobs[v].item \in Holds(v)
        /\ jobs[v].batch \subseteq Holds(v)
  BY <1>2, <1>6, HeldTyped, SMT DEF MailInv, HeldOnce
<1>9. \/ UNCHANGED <<accepted, lost>>
      \/ accepted' = accepted \cup {Key(c)}
  BY <1>1 DEF mail
<1>10. HeldOnce'
  BY <1>1, <1>2, <1>4, <1>5, <1>7, SMT DEF MailInv, HeldOnce
<1>11. ClaimsCounted'
  <2>1. \A v \in Workers : Delivering(v)' => \A b \in Holds(v)' : b.claim <= deliveries'[b.of].claims
    BY <1>2, <1>5, <1>7, SMT DEF MailInv, ClaimsCounted
  <2>2. Key(c)[2] \in 1..deliveries[Key(c)[1]].claims
    BY <1>2, <1>6, KeyTyped, RowTyped, SMT DEF MailInv, ClaimsCounted
  <2>3. \A s \in accepted' : s[2] \in 1..deliveries'[s[1]].claims
    BY <1>2, <1>9, <2>2, SMT DEF MailInv, ClaimsCounted
  <2> QED
    BY <1>2, <2>1, <2>3, SMT DEF MailInv, ClaimsCounted
<1>12. OutcomeKnown'
  <2>1. Key(c) \notin accepted
    BY <1>2, <1>1 DEF MailInv, OutcomeKnown
  <2> SUFFICES ASSUME NEW v \in Workers, Delivering(v)'
               PROVE  /\ \A b \in jobs'[v].batch : Key(b) \notin accepted'
                      /\ jobs'[v].step = "mark" => Key(jobs'[v].item) \in accepted'
                      /\ jobs'[v].step = "fail" /\ jobs'[v].code \in Recoverable
                           => Key(jobs'[v].item) \notin accepted' \ lost'
    BY DEF OutcomeKnown
  <2>2. CASE v = w
    <3>1. \A b \in jobs'[w].batch : Key(b) # Key(c) /\ Key(b) \notin accepted
      BY <1>2, <1>4, <1>6, <1>8, SMT DEF MailInv, OutcomeKnown
    <3>2. \A b \in jobs'[w].batch : Key(b) \notin accepted'
      BY <1>9, <3>1
    <3>3. step = "mark" => Key(c) \in accepted'
      BY <1>1
    <3>4. step = "fail" => Key(c) \notin accepted' \ lost'
      BY <1>1, <2>1 DEF mail
    <3> QED
      BY <1>4, <2>2, <3>2, <3>3, <3>4
  <2>3. CASE v # w
    <3>1. Delivering(v) /\ jobs'[v] = jobs[v]
      BY <1>5, <2>3
    <3>2. \A b \in jobs[v].batch : Key(b) # Key(c)
      BY <1>8, <2>3, <3>1
    <3>3. jobs[v].step # "work" => Key(jobs[v].item) # Key(c)
      BY <1>8, <2>3, <3>1
    <3>4. lost \subseteq lost' /\ accepted \subseteq accepted'
      BY <1>1 DEF mail
    <3> QED
      BY <1>9, <3>1, <3>2, <3>3, <3>4, SMT DEF MailInv, OutcomeKnown
  <2> QED
    BY <2>2, <2>3
<1>13. HeldIsCurrent'
  BY <1>2, <1>5, <1>7, SMT DEF MailInv, HeldIsCurrent
<1>14. Attended'
  BY <1>2, <1>4, <1>5, <1>7, SMT DEF MailInv, Attended
<1>15. RetriesExplained'
  <2>1. \/ c.claim = deliveries[c.of].claims /\ deliveries[c.of].status = "PROCESSING"
        \/ c.claim < deliveries[c.of].claims /\ Key(c) \in cut
    BY <1>2, <1>6 DEF MailInv, HeldIsCurrent
  <2>2. lost \subseteq lost'
    BY <1>1 DEF mail
  <2>3. Key(c)[2] < deliveries[Key(c)[1]].claims \/ Retriable(Key(c)[1]) => Key(c) \in lost \cup cut
    BY <1>6, <2>1, KeyTyped, RowTyped, SMT DEF Retriable
  <2>4. \A s \in accepted' :
          s[2] < deliveries[s[1]].claims \/ Retriable(s[1]) => s \in lost \cup cut
    BY <1>9, <2>3 DEF MailInv, RetriesExplained
  <2> QED
    BY <1>2, <2>2, <2>4, SMT DEF RetriesExplained, Retriable
<1>16. SentByLatestClaim'
  BY <1>2, <1>9, SMT DEF MailInv, SentByLatestClaim
<1> QED
  BY <1>10, <1>11, <1>12, <1>13, <1>14, <1>15, <1>16 DEF MailInv

\* A worker done with an item holds the rest of its batch, and nobody holds that item.
LEMMA Finished ==
  ASSUME OutboxTypeOK, StepsFit, HeldOnce, NEW w \in Workers, Delivering(w),
         jobs[w].step \in {"mark", "fail"}, Finishes(w)
  PROVE  /\ jobs[w].item \in Holds(w) /\ jobs[w].item \in Items(Deliveries)
         /\ \A v \in Workers : Delivering(v)' =>
              /\ Delivering(v) /\ jobs'[v].batch = jobs[v].batch
              /\ \A b \in Holds(v)' : b \in Holds(v) /\ Key(b) # Key(jobs[w].item)
              /\ jobs'[v].step # "work" => jobs'[v] = jobs[v]
         /\ \A v \in Workers : Delivering(v) => \A b \in Holds(v) :
              Key(b) # Key(jobs[w].item) => Delivering(v)' /\ b \in Holds(v)'
<1>1. /\ jobs[w].item \in Holds(w) /\ jobs[w].item \in Items(Deliveries)
      /\ Holds(w) = jobs[w].batch \cup {jobs[w].item} /\ jobs[w].item \notin jobs[w].batch
  BY HeldTyped, SMT DEF HeldOnce
<1>2. jobs' = [jobs EXCEPT ![w] = Busy(jobs[w].turn, jobs[w].batch)]
  BY DEF Finishes
<1>3. \A v \in Workers : v # w => /\ Delivering(v)' <=> Delivering(v)
                                  /\ jobs'[v] = jobs[v] /\ Holds(v)' = Holds(v)
  BY <1>2, SMT DEF Delivering, Holds, OutboxTypeOK
<1>4. Delivering(w)' => /\ jobs'[w].step = "work" /\ jobs'[w].batch = jobs[w].batch
                        /\ Holds(w)' = jobs[w].batch
  BY <1>2, SMT DEF Delivering, Holds, Busy, Free, Job, OutboxTypeOK
<1>5. jobs[w].batch # {} => Delivering(w)'
  BY <1>2, SMT DEF Delivering, Busy, Job, OutboxTypeOK
<1>6. \A v \in Workers : Delivering(v) => \A b \in Holds(v) :
        Key(b) = Key(jobs[w].item) => v = w /\ b = jobs[w].item
  BY <1>1 DEF HeldOnce
<1>7. \A v \in Workers : Delivering(v)' =>
        /\ Delivering(v) /\ jobs'[v].batch = jobs[v].batch
        /\ \A b \in Holds(v)' : b \in Holds(v) /\ Key(b) # Key(jobs[w].item)
        /\ jobs'[v].step # "work" => jobs'[v] = jobs[v]
  BY <1>1, <1>3, <1>4, <1>6, SMT
<1>8. \A v \in Workers : Delivering(v) => \A b \in Holds(v) :
        Key(b) # Key(jobs[w].item) => Delivering(v)' /\ b \in Holds(v)'
  BY <1>1, <1>3, <1>4, <1>5, SMT
<1> QED
  BY <1>1, <1>7, <1>8

\* Marking a delivery, sent or failed: the mark counts only for the delivery's latest claim,
\* and a delivery goes back to PENDING, or becomes retriable, only if nobody could know of
\* a mail that was accepted.
LEMMA MarksKeep ==
  ASSUME OutboxTypeOK, StepsFit, MailInv, NEW w \in Workers, MarkSent(w) \/ MarkFailure(w)
  PROVE  MailInv'
<1> DEFINE c == jobs[w].item
           d == jobs[w].item.of
<1>1. /\ jobs[w].step \in {"mark", "fail"} /\ Finishes(w)
      /\ UNCHANGED <<accepted, lost, cut>>
  BY DEF MarkSent, MarkFailure, AtStep, mail
<1>2. Delivering(w)
  BY <1>1 DEF StepsFit
<1>3. /\ c \in Holds(w) /\ c \in Items(Deliveries)
      /\ \A v \in Workers : Delivering(v)' =>
           /\ Delivering(v) /\ jobs'[v].batch = jobs[v].batch
           /\ \A b \in Holds(v)' : b \in Holds(v) /\ Key(b) # Key(c)
           /\ jobs'[v].step # "work" => jobs'[v] = jobs[v]
      /\ \A v \in Workers : Delivering(v) => \A b \in Holds(v) :
           Key(b) # Key(c) => Delivering(v)' /\ b \in Holds(v)'
  BY <1>1, <1>2, Finished DEF MailInv
<1>4. d \in Deliveries /\ Key(c) = <<d, c.claim>>
  BY <1>3, KeyTyped
<1>5. \A b \in Items(Deliveries) : b.of \in Deliveries /\ Key(b) = <<b.of, b.claim>>
  BY KeyTyped
<1>6. \A v \in Workers : Delivering(v)' => Holds(v)' \subseteq Items(Deliveries)
  BY <1>3, HeldTyped
<1>7. \/ ~HoldsDelivery(w) /\ UNCHANGED deliveries
      \/ /\ HoldsDelivery(w)
         /\ \/ /\ jobs[w].step = "mark"
               /\ DeliveryBecomes(d, "SENT", deliveries[d].attempts, FALSE, "NINGUNO")
            \/ /\ jobs[w].step = "fail" /\ jobs[w].code \in Recoverable
               /\ DeliveryBecomes(d, "PENDING", deliveries[d].attempts, FALSE, jobs[w].code)
            \/ /\ jobs[w].step = "fail"
               /\ DeliveryBecomes(d, "FAILED", deliveries[d].attempts, FALSE, jobs[w].code)
  BY DEF MarkSent, MarkFailure, MayRetry, AtStep
<1>8. HoldsDelivery(w) => /\ deliveries[d].status = "PROCESSING"
                          /\ Key(c) = <<d, deliveries[d].claims>>
  BY <1>4 DEF HoldsDelivery
<1>9. ~HoldsDelivery(w) => \/ deliveries[d].status # "PROCESSING"
                           \/ Key(c) # <<d, deliveries[d].claims>>
  BY <1>3, <1>4, SMT DEF HoldsDelivery
<1>10. \A e \in Deliveries : e # d => deliveries'[e] = deliveries[e]
  BY <1>7, SMT DEF DeliveryBecomes, OutboxTypeOK
<1>11. \/ ~HoldsDelivery(w) /\ UNCHANGED deliveries
       \/ /\ HoldsDelivery(w) /\ deliveries'[d].claims = deliveries[d].claims
          /\ \/ jobs[w].step = "mark" /\ deliveries'[d].status = "SENT"
             \/ /\ jobs[w].step = "fail" /\ jobs[w].code \in Recoverable
                /\ deliveries'[d].status = "PENDING"
             \/ /\ jobs[w].step = "fail" /\ deliveries'[d].status = "FAILED"
                /\ deliveries'[d].code = jobs[w].code
  <2>1. ASSUME NEW status, NEW attempts, NEW due, NEW code,
               DeliveryBecomes(d, status, attempts, due, code)
        PROVE  /\ deliveries'[d].claims = deliveries[d].claims
               /\ deliveries'[d].status = status /\ deliveries'[d].code = code
    BY <1>4, <2>1, SMT DEF DeliveryBecomes, OutboxTypeOK
  <2> QED
    BY <1>7, <2>1
<1>12. \A e \in Deliveries : deliveries'[e].claims = deliveries[e].claims
  BY <1>10, <1>11
<1>13. HeldOnce'
  BY <1>3, SMT DEF MailInv, HeldOnce
<1>14. ClaimsCounted'
  <2>1. \A v \in Workers : Delivering(v)' => \A b \in Holds(v)' : b.claim <= deliveries'[b.of].claims
    BY <1>3, <1>5, <1>6, <1>12, SMT DEF MailInv, ClaimsCounted
  <2>2. \A s \in accepted' : s[2] \in 1..deliveries'[s[1]].claims
    BY <1>1, <1>12, AcceptedTyped, SMT DEF MailInv, ClaimsCounted
  <2>3. \A e \in Deliveries :
          /\ deliveries'[e].status \in {"PROCESSING", "SENT", "FAILED"} => deliveries'[e].claims > 0
          /\ deliveries'[e].status = "NINGUNO" => deliveries'[e].claims = 0
    BY <1>8, <1>10, <1>11, SMT DEF MailInv, ClaimsCounted
  <2> QED
    BY <2>1, <2>2, <2>3 DEF ClaimsCounted
<1>15. OutcomeKnown'
  BY <1>1, <1>3, SMT DEF MailInv, OutcomeKnown
<1>16. HeldIsCurrent'
  <2> SUFFICES ASSUME NEW v \in Workers, Delivering(v)', NEW b \in Holds(v)'
               PROVE  \/ /\ b.claim = deliveries'[b.of].claims
                         /\ deliveries'[b.of].status = "PROCESSING"
                      \/ b.claim < deliveries'[b.of].claims /\ Key(b) \in cut'
    BY DEF HeldIsCurrent
  <2>1. /\ Delivering(v) /\ b \in Holds(v) /\ Key(b) # Key(c)
        /\ b.of \in Deliveries /\ Key(b) = <<b.of, b.claim>>
    BY <1>3, <1>5, <1>6
  <2>2. \/ b.claim = deliveries[b.of].claims /\ deliveries[b.of].status = "PROCESSING"
        \/ b.claim < deliveries[b.of].claims /\ Key(b) \in cut
    BY <2>1 DEF MailInv, HeldIsCurrent
  <2>3. CASE b.of # d
    BY <1>1, <1>10, <2>1, <2>2, <2>3
  <2>4. CASE ~HoldsDelivery(w)
    BY <1>1, <1>11, <2>2, <2>4
  <2>5. CASE b.of = d /\ HoldsDelivery(w)
    BY <1>1, <1>8, <1>12, <2>1, <2>2, <2>5
  <2> QED
    BY <2>3, <2>4, <2>5
<1>17. Attended'
  <2> SUFFICES ASSUME NEW e \in Deliveries, deliveries'[e].status = "PROCESSING"
               PROVE  \/ <<e, deliveries'[e].claims>> \in cut'
                      \/ /\ ~deliveries'[e].due
                         /\ \E v \in Workers :
                              Delivering(v)' /\ \E b \in Holds(v)' : Key(b) = <<e, deliveries'[e].claims>>
    BY DEF Attended
  <2>1. deliveries'[e] = deliveries[e]
    BY <1>10, <1>11
  <2>2. CASE <<e, deliveries[e].claims>> \in cut
    BY <1>1, <2>1, <2>2
  <2>3. CASE /\ ~deliveries[e].due
             /\ \E v \in Workers :
                  Delivering(v) /\ \E b \in Holds(v) : Key(b) = <<e, deliveries[e].claims>>
    <3>1. PICK v \in Workers :
            Delivering(v) /\ \E b \in Holds(v) : Key(b) = <<e, deliveries[e].claims>>
      BY <2>3
    <3>2. PICK b \in Holds(v) : Key(b) = <<e, deliveries[e].claims>>
      BY <3>1
    <3>3. Key(b) # Key(c)
      <4>1. CASE e = d
        BY <1>9, <1>11, <2>1, <3>2, <4>1
      <4>2. CASE e # d
        BY <1>4, <3>2, <4>2, SMT
      <4> QED
        BY <4>1, <4>2
    <3> QED
      BY <1>3, <2>1, <2>3, <3>1, <3>2, <3>3
  <2> QED
    BY <2>1, <2>2, <2>3 DEF MailInv, Attended
<1>18. RetriesExplained'
  <2> SUFFICES ASSUME NEW s \in accepted, s[2] < deliveries'[s[1]].claims \/ Retriable(s[1])'
               PROVE  s \in lost \cup cut
    BY <1>1 DEF RetriesExplained
  <2>1. s[1] \in Deliveries /\ s[2] \in Nat /\ s = <<s[1], s[2]>> /\ s[2] <= deliveries[s[1]].claims
    BY AcceptedTyped, RowTyped, SMT DEF MailInv, ClaimsCounted
  <2>2. CASE s[2] < deliveries[s[1]].claims \/ Retriable(s[1])
    BY <2>2 DEF MailInv, RetriesExplained
  <2>3. CASE s[2] = deliveries[s[1]].claims /\ ~Retriable(s[1])
    <3>1. s[1] = d /\ HoldsDelivery(w) /\ Retriable(s[1])'
      BY <1>10, <1>11, <1>12, <2>1, <2>3, SMT DEF Retriable
    <3>2. jobs[w].step = "fail" /\ jobs[w].code \in Recoverable
      BY <1>11, <3>1, SMT DEF Retriable
    <3>3. s = Key(c)
      BY <1>8, <2>1, <2>3, <3>1
    <3> QED
      BY <1>2, <3>2, <3>3 DEF MailInv, OutcomeKnown
  <2> QED
    BY <2>1, <2>2, <2>3, RowTyped, SMT
<1>19. SentByLatestClaim'
  <2>1. jobs[w].step = "mark" => Key(c) \in accepted
    BY <1>2 DEF MailInv, OutcomeKnown
  <2>2. deliveries'[d].status = "SENT" => <<d, deliveries'[d].claims>> \in accepted
    BY <1>4, <1>8, <1>11, <2>1 DEF MailInv, SentByLatestClaim
  <2> QED
    BY <1>1, <1>10, <2>2 DEF MailInv, SentByLatestClaim
<1> QED
  BY <1>13, <1>14, <1>15, <1>16, <1>17, <1>18, <1>19 DEF MailInv

\* The update of a sent delivery fails: what is under way is still held, its code permanent.
LEMMA ThrowsKeep ==
  ASSUME OutboxTypeOK, StepsFit, MailInv, NEW w \in Workers, MarkThrows(w)
  PROVE  MailInv'
<1>1. /\ jobs[w].step = "mark" /\ UNCHANGED <<deliveries, accepted, lost, cut>>
      /\ Does(w, "fail", jobs[w].item, {}, {}, "CONFIGURATION")
  BY DEF MarkThrows, AtStep, tables, mail
<1>2. Delivering(w)
  BY <1>1 DEF StepsFit
<1>3. /\ Delivering(w)' /\ jobs'[w].step = "fail" /\ jobs'[w].item = jobs[w].item
      /\ jobs'[w].batch = jobs[w].batch \ {jobs[w].item} /\ jobs'[w].code \notin Recoverable
  BY <1>1, <1>2, SMT DEF Does, Delivering, OutboxTypeOK, Recoverable
<1>4. \A v \in Workers : v # w => /\ Delivering(v)' <=> Delivering(v)
                                  /\ jobs'[v] = jobs[v] /\ Holds(v)' = Holds(v)
  BY <1>1, SMT DEF Does, Delivering, Holds, OutboxTypeOK
<1>5. Holds(w)' = Holds(w)
  <2>1. Holds(w) = jobs[w].batch \cup {jobs[w].item}
    BY <1>1, <1>2, HeldTyped
  <2>2. Holds(w)' = jobs'[w].batch \cup {jobs'[w].item}
    BY <1>3, SMT DEF Holds
  <2> QED
    BY <1>3, <2>1, <2>2
<1>6. HeldOnce'
  BY <1>2, <1>3, <1>4, <1>5, SMT DEF MailInv, HeldOnce
<1>7. ClaimsCounted'
  BY <1>1, <1>2, <1>4, <1>5, SMT DEF MailInv, ClaimsCounted
<1>8. OutcomeKnown'
  BY <1>1, <1>2, <1>3, <1>4, SMT DEF MailInv, OutcomeKnown
<1>9. HeldIsCurrent'
  BY <1>1, <1>2, <1>4, <1>5, SMT DEF MailInv, HeldIsCurrent
<1>10. Attended'
  BY <1>1, <1>2, <1>3, <1>4, <1>5, SMT DEF MailInv, Attended
<1>11. RetriesExplained' /\ SentByLatestClaim'
  BY <1>1, SMT DEF MailInv, RetriesExplained, Retriable, SentByLatestClaim
<1> QED
  BY <1>6, <1>7, <1>8, <1>9, <1>10, <1>11 DEF MailInv

\* A lease that runs out, a backoff that is over, a retry by hand: no claim changes hands.
LEMMA RowKeeps ==
  ASSUME OutboxTypeOK, StepsFit, MailInv, NEW d \in Deliveries,
         DeliveryDue(d) \/ OutliveDelivery(d) \/ ManualRetry(d)
  PROVE  MailInv'
<1>1. /\ UNCHANGED <<jobs, accepted, lost>> /\ cut \subseteq cut'
  BY DEF DeliveryDue, OutliveDelivery, ManualRetry, mail
<1>2. \/ /\ DeliveryDue(d)
         /\ DeliveryBecomes(d, deliveries[d].status, deliveries[d].attempts, TRUE,
                            deliveries[d].code)
      \/ /\ <<d, deliveries[d].claims>> \in cut'
         /\ DeliveryBecomes(d, deliveries[d].status, deliveries[d].attempts, TRUE,
                            deliveries[d].code)
      \/ /\ deliveries[d].status = "FAILED" /\ deliveries[d].code \in Recoverable
         /\ DeliveryBecomes(d, "PENDING", 0, TRUE, "NINGUNO")
  BY DEF OutliveDelivery, ManualRetry, DeliveryDue
<1>3. ASSUME NEW status, NEW attempts, NEW due, NEW code,
             DeliveryBecomes(d, status, attempts, due, code)
      PROVE  /\ deliveries'[d].claims = deliveries[d].claims
             /\ deliveries'[d].status = status /\ deliveries'[d].code = code
             /\ \A e \in Deliveries : e # d => deliveries'[e] = deliveries[e]
  BY <1>3, SMT DEF DeliveryBecomes, OutboxTypeOK
<1>4. /\ deliveries'[d].claims = deliveries[d].claims
      /\ \A e \in Deliveries : e # d => deliveries'[e] = deliveries[e]
      /\ \/ /\ deliveries'[d].status = deliveries[d].status
            /\ deliveries'[d].code = deliveries[d].code
            /\ DeliveryDue(d) \/ <<d, deliveries[d].claims>> \in cut'
         \/ /\ deliveries[d].status = "FAILED" /\ deliveries[d].code \in Recoverable
            /\ deliveries'[d].status = "PENDING"
  BY <1>2, <1>3
<1>5. \A e \in Deliveries : deliveries'[e].claims = deliveries[e].claims
  BY <1>4
<1>6. \A v \in Workers : (Delivering(v)' <=> Delivering(v)) /\ Holds(v)' = Holds(v)
  BY <1>1, SMT DEF Delivering, Holds
<1>7. \A v \in Workers : Delivering(v) => \A b \in Holds(v) : b.of \in Deliveries
  BY HeldTyped, KeyTyped
<1>8. HeldOnce' /\ OutcomeKnown'
  BY <1>1, <1>6, SMT DEF MailInv, HeldOnce, OutcomeKnown
<1>9. ClaimsCounted'
  <2>1. \A v \in Workers : Delivering(v)' => \A b \in Holds(v)' : b.claim <= deliveries'[b.of].claims
    BY <1>5, <1>6, <1>7, SMT DEF MailInv, ClaimsCounted
  <2>2. \A s \in accepted' : s[2] \in 1..deliveries'[s[1]].claims
    BY <1>1, <1>5, AcceptedTyped, SMT DEF MailInv, ClaimsCounted
  <2>3. \A e \in Deliveries :
          /\ deliveries'[e].status \in {"PROCESSING", "SENT", "FAILED"} => deliveries'[e].claims > 0
          /\ deliveries'[e].status = "NINGUNO" => deliveries'[e].claims = 0
    BY <1>4, SMT DEF MailInv, ClaimsCounted
  <2> QED
    BY <2>1, <2>2, <2>3 DEF ClaimsCounted
<1>10. HeldIsCurrent'
  BY <1>1, <1>4, <1>5, <1>6, <1>7, SMT DEF MailInv, HeldIsCurrent
<1>11. Attended'
  <2> SUFFICES ASSUME NEW e \in Deliveries, deliveries'[e].status = "PROCESSING"
               PROVE  \/ <<e, deliveries'[e].claims>> \in cut'
                      \/ /\ ~deliveries'[e].due
                         /\ \E v \in Workers :
                              Delivering(v)' /\ \E b \in Holds(v)' : Key(b) = <<e, deliveries'[e].claims>>
    BY DEF Attended
  <2>1. CASE e # d
    BY <1>1, <1>4, <1>6, <2>1, SMT DEF MailInv, Attended
  <2>2. CASE e = d
    <3>1. deliveries[d].status = "PROCESSING" /\ (DeliveryDue(d) \/ <<d, deliveries[d].claims>> \in cut')
      BY <1>4, <2>2
    <3>2. ASSUME NEW v \in Workers, Delivering(v), NEW b \in Holds(v),
                 Key(b) = <<d, deliveries[d].claims>>
          PROVE  DeliveryHeld(d)
      <4>1. b.of = d /\ b.claim = deliveries[d].claims
        BY <3>2, SMT DEF Key
      <4> QED
        BY <4>1 DEF DeliveryHeld
    <3>3. DeliveryDue(d) => <<d, deliveries[d].claims>> \in cut
      BY <3>1, <3>2 DEF DeliveryDue, MailInv, Attended
    <3> QED
      BY <1>1, <1>4, <2>2, <3>1, <3>3
  <2> QED
    BY <2>1, <2>2
<1>12. RetriesExplained'
  <2>1. \A e \in Deliveries : Retriable(e)' => Retriable(e)
    BY <1>4, SMT DEF Retriable
  <2> QED
    BY <1>1, <1>5, <2>1, AcceptedTyped DEF MailInv, RetriesExplained
<1>13. SentByLatestClaim'
  BY <1>1, <1>4, SMT DEF MailInv, SentByLatestClaim
<1> QED
  BY <1>8, <1>9, <1>10, <1>11, <1>12, <1>13 DEF MailInv

\* A worker that dies drops what it held, all of it cut off.
LEMMA CrashKeeps ==
  ASSUME OutboxTypeOK, StepsFit, MailInv, NEW w \in Workers, Crash(w)
  PROVE  MailInv'
<1>1. /\ UNCHANGED <<deliveries, accepted, lost>> /\ jobs' = [jobs EXCEPT ![w] = Free]
      /\ cut \subseteq cut'
  BY DEF Crash, tables, mail
<1>2. Delivering(w) => \A c \in Holds(w) : Key(c) \in cut'
  BY DEF Crash, Delivering, Key
<1>3. ~Delivering(w)'
  BY <1>1, SMT DEF Delivering, Free, Job, OutboxTypeOK
<1>4. \A v \in Workers : v # w => /\ Delivering(v)' <=> Delivering(v)
                                  /\ jobs'[v] = jobs[v] /\ Holds(v)' = Holds(v)
  BY <1>1, SMT DEF Delivering, Holds, OutboxTypeOK
<1>5. HeldOnce' /\ OutcomeKnown'
  BY <1>1, <1>3, <1>4, SMT DEF MailInv, HeldOnce, OutcomeKnown
<1>6. ClaimsCounted'
  BY <1>1, <1>3, <1>4, SMT DEF MailInv, ClaimsCounted
<1>7. HeldIsCurrent'
  BY <1>1, <1>3, <1>4, SMT DEF MailInv, HeldIsCurrent
<1>8. Attended'
  <2> SUFFICES ASSUME NEW e \in Deliveries, deliveries[e].status = "PROCESSING",
                      <<e, deliveries[e].claims>> \notin cut'
               PROVE  /\ ~deliveries[e].due
                      /\ \E v \in Workers :
                           Delivering(v)' /\ \E b \in Holds(v)' : Key(b) = <<e, deliveries[e].claims>>
    BY <1>1 DEF Attended
  <2>1. /\ ~deliveries[e].due
        /\ \E v \in Workers : Delivering(v) /\ \E b \in Holds(v) : Key(b) = <<e, deliveries[e].claims>>
    BY <1>1 DEF MailInv, Attended
  <2>2. PICK v \in Workers :
          Delivering(v) /\ \E b \in Holds(v) : Key(b) = <<e, deliveries[e].claims>>
    BY <2>1
  <2>3. v # w
    BY <1>2, <2>2
  <2> QED
    BY <1>4, <2>1, <2>2, <2>3
<1>9. RetriesExplained' /\ SentByLatestClaim'
  BY <1>1, SMT DEF MailInv, RetriesExplained, Retriable, SentByLatestClaim
<1> QED
  BY <1>5, <1>6, <1>7, <1>8, <1>9 DEF MailInv

\* The steps of the events' side, as EventSide wants them.
LEMMA EventSideKeeps ==
  ASSUME OutboxTypeOK, StepsFit, MailInv,
         \/ \E w \in Workers : \/ \E turn \in {"digest", "fanout"} : ClaimEvents(w, turn)
                               \/ Resolve(w) \/ Materialize(w) \/ Cancel(w) \/ CloseEvent(w)
                               \/ EventThrows(w) \/ FailEvent(w)
         \/ \E e \in Events : Record(e) \/ EventDue(e) \/ OutliveEvent(e)
         \/ UNCHANGED outboxVars
  PROVE  MailInv'
<1> DEFINE JobsKept == \A v \in Workers : /\ jobs'[v].turn = "deliver" <=> Delivering(v)
                                          /\ Delivering(v) => jobs'[v] = jobs[v]
           MailKept == UNCHANGED <<accepted, lost, cut>>
<1>1. ASSUME UNCHANGED <<jobs, accepted, lost, cut, deliveries>> PROVE MailInv'
  <2>1. JobsKept
    BY <1>1 DEF Delivering
  <2>2. \A d \in Deliveries : deliveries'[d] = deliveries[d]
    BY <1>1
  <2> QED
    BY <1>1, <2>1, <2>2, EventSide
<1>2. ASSUME NEW w \in Workers, NEW job, ~Delivering(w), job.turn # "deliver",
             jobs' = [jobs EXCEPT ![w] = job]
      PROVE  JobsKept
  BY <1>2, SMT DEF Delivering, OutboxTypeOK
<1>3. ASSUME NEW w \in Workers, NEW turn \in {"digest", "fanout"}, ClaimEvents(w, turn)
      PROVE  MailInv'
  <2>1. PICK S \in Batches(ClaimableEvents(turn)) :
          jobs' = [jobs EXCEPT ![w] = Busy(turn, {EventClaim(e) : e \in S})]
    BY <1>3 DEF ClaimEvents
  <2>2. Busy(turn, {EventClaim(e) : e \in S}).turn # "deliver" /\ ~Delivering(w)
    BY <1>3, SMT DEF ClaimEvents, Busy, Free, Job, Delivering
  <2>3. JobsKept
    BY <1>2, <2>1, <2>2
  <2> QED
    BY <1>3, <2>3, EventSide DEF ClaimEvents, mail
<1>4. ASSUME NEW w \in Workers, NEW step, NEW item, NEW people, NEW left, NEW code,
             ~Delivering(w), Does(w, step, item, people, left, code)
      PROVE  JobsKept
  BY <1>2, <1>4 DEF Does, Delivering
<1>5. ASSUME NEW w \in Workers, ~Delivering(w), Finishes(w)
      PROVE  JobsKept
  <2>1. Busy(jobs[w].turn, jobs[w].batch).turn # "deliver"
    BY <1>5, SMT DEF Busy, Free, Job, Delivering
  <2> QED
    BY <1>2, <1>5, <2>1 DEF Finishes
<1>6. ASSUME NEW w \in Workers, Resolve(w) PROVE MailInv'
  <2>1. ~Delivering(w) /\ UNCHANGED <<accepted, lost, cut, deliveries>>
    BY <1>6 DEF Resolve, Delivering, tables, mail
  <2>2. JobsKept
    BY <1>4, <1>6, <2>1 DEF Resolve
  <2> QED
    BY <2>1, <2>2, EventSide
<1>7. ASSUME NEW w \in Workers, jobs[w].step \in {"materialize", "close", "giveUp"}
      PROVE  ~Delivering(w)
  BY <1>7 DEF StepsFit
<1>8. ASSUME NEW w \in Workers, Materialize(w) PROVE MailInv'
  <2>1. ~Delivering(w) /\ UNCHANGED <<accepted, lost, cut>>
    BY <1>7, <1>8 DEF Materialize, AtStep, mail
  <2>2. PICK p \in jobs[w].left :
          LET d == <<jobs[w].item.of, p>> IN
          /\ deliveries' = IF deliveries[d].status # "NINGUNO" THEN deliveries
                           ELSE [deliveries EXCEPT ![d] = NewDelivery]
          /\ Does(w, IF LeftAfter(w, p) = {} THEN "close" ELSE "materialize", jobs[w].item,
                  jobs[w].people, LeftAfter(w, p), "NINGUNO")
    BY <1>8 DEF Materialize
  <2>3. JobsKept
    BY <1>4, <2>1, <2>2
  <2>4. \A d \in Deliveries : \/ deliveries'[d] = deliveries[d]
                              \/ deliveries[d].status = "NINGUNO" /\ deliveries'[d] = NewDelivery
    <3> DEFINE new == <<jobs[w].item.of, p>>
    <3>1. CASE deliveries[new].status # "NINGUNO"
      BY <2>2, <3>1
    <3>2. CASE deliveries[new].status = "NINGUNO"
      <4>1. deliveries' = [deliveries EXCEPT ![new] = NewDelivery]
        BY <2>2, <3>2
      <4> QED
        BY <3>2, <4>1, SMT DEF OutboxTypeOK
    <3> QED
      BY <3>1, <3>2
  <2> QED
    BY <2>1, <2>3, <2>4, EventSide
<1>9. ASSUME NEW w \in Workers, Cancel(w) \/ EventThrows(w) PROVE MailInv'
  <2>1. ~Delivering(w) /\ UNCHANGED <<accepted, lost, cut, deliveries>>
    BY <1>7, <1>9 DEF Cancel, EventThrows, AtStep, tables, mail
  <2>2. JobsKept
    BY <1>4, <1>9, <2>1 DEF Cancel, EventThrows, Goes
  <2> QED
    BY <2>1, <2>2, EventSide
<1>10. ASSUME NEW w \in Workers, CloseEvent(w) \/ FailEvent(w) PROVE MailInv'
  <2>1. ~Delivering(w) /\ UNCHANGED <<accepted, lost, cut, deliveries>>
    BY <1>7, <1>10 DEF CloseEvent, FailEvent, AtStep, mail
  <2>2. JobsKept
    BY <1>5, <1>10, <2>1 DEF CloseEvent, FailEvent
  <2> QED
    BY <2>1, <2>2, EventSide
<1>11. CASE \E e \in Events : Record(e) \/ EventDue(e) \/ OutliveEvent(e)
  BY <1>1, <1>11 DEF Record, EventDue, OutliveEvent, mail
<1>12. CASE UNCHANGED outboxVars
  BY <1>1, <1>12 DEF outboxVars, tables, mail
<1> QED
  BY <1>3, <1>6, <1>8, <1>9, <1>10, <1>11, <1>12

-----------------------------------------------------------------------------

LEMMA OutboxInit_Inv == OutboxInit => OutboxInv
<1> SUFFICES ASSUME OutboxInit PROVE OutboxInv
  OBVIOUS
<1>1. OutboxTypeOK /\ StepsFit
  BY TypeInit
<1>2. \A w \in Workers : ~Delivering(w)
  BY SMT DEF OutboxInit, Free, Job, Delivering
<1>3. /\ accepted = {}
      /\ \A d \in Deliveries : deliveries[d].status = "NINGUNO" /\ deliveries[d].claims = 0
  BY SMT DEF OutboxInit, NoDelivery
<1>4. HeldOnce /\ OutcomeKnown /\ HeldIsCurrent
  BY <1>2 DEF HeldOnce, OutcomeKnown, HeldIsCurrent
<1>5. ClaimsCounted /\ Attended /\ RetriesExplained /\ SentByLatestClaim
  BY <1>2, <1>3, SMT DEF ClaimsCounted, Attended, RetriesExplained, SentByLatestClaim
<1> QED
  BY <1>1, <1>4, <1>5 DEF OutboxInv

LEMMA OutboxStep_Inv == OutboxInv /\ [OutboxNext]_outboxVars => OutboxInv'
<1> SUFFICES ASSUME OutboxInv, [OutboxNext]_outboxVars PROVE OutboxInv'
  OBVIOUS
<1>1. OutboxTypeOK /\ StepsFit /\ MailInv
  BY DEF OutboxInv, MailInv
<1>2. OutboxTypeOK' /\ StepsFit'
  BY <1>1, TypeStep
<1>3. MailInv'
  <2>1. CASE \E w \in Workers : Work(w) \/ Crash(w)
    BY <1>1, <2>1, EventSideKeeps, ClaimsKeep, SendKeeps, MarksKeep, ThrowsKeep, CrashKeeps
       DEF Work
  <2>2. CASE \E e \in Events : Record(e) \/ EventDue(e) \/ OutliveEvent(e)
    BY <1>1, <2>2, EventSideKeeps
  <2>3. CASE \E d \in Deliveries : DeliveryDue(d) \/ OutliveDelivery(d) \/ ManualRetry(d)
    BY <1>1, <2>3, RowKeeps
  <2>4. CASE UNCHANGED outboxVars
    BY <1>1, <2>4, EventSideKeeps
  <2> QED
    BY <2>1, <2>2, <2>3, <2>4 DEF OutboxNext
<1> QED
  BY <1>2, <1>3 DEF OutboxInv, MailInv

\* Every reachable state satisfies the inductive invariant.
THEOREM OutboxCorrect == OutboxSpec => []OutboxInv
BY OutboxInit_Inv, OutboxStep_Inv, PTL DEF OutboxSpec

\* Rows and jobs have their columns; no delivery is under way, sent or failed unattempted.
THEOREM OutboxTypeCorrect == OutboxSpec => []OutboxTypeOK
<1>1. OutboxInv => OutboxTypeOK
  BY DEF OutboxInv
<1> QED
  BY <1>1, OutboxCorrect, PTL

\* claimDeliveries, markDeliverySent and markDeliveryFailure send nobody a mail twice
\* unless the earlier claim was cut off or its answer lost, however workers interleave.
THEOREM NoUnexplainedDuplicate == OutboxSpec => []DuplicatesExplained
<1>1. OutboxInv => DuplicatesExplained
  <2> SUFFICES ASSUME OutboxInv, NEW s \in accepted, NEW t \in accepted, s[1] = t[1], s[2] < t[2]
               PROVE  s \in lost \cup cut
    BY DEF DuplicatesExplained
  <2>1. t[2] <= deliveries[s[1]].claims /\ s[2] \in Nat /\ t[2] \in Nat
    BY AcceptedTyped, RowTyped, SMT DEF OutboxInv, ClaimsCounted
  <2>2. deliveries[s[1]].claims \in Nat
    BY AcceptedTyped, RowTyped DEF OutboxInv
  <2>3. s[2] < deliveries[s[1]].claims
    BY <2>1, <2>2, SMT
  <2> QED
    BY <2>3 DEF OutboxInv, RetriesExplained
<1> QED
  BY <1>1, OutboxCorrect, PTL

\* A delivery marked SENT is one whose latest claim the provider accepted.
THEOREM SentWasAccepted == OutboxSpec => []SentByLatestClaim
<1>1. OutboxInv => SentByLatestClaim
  BY DEF OutboxInv
<1> QED
  BY <1>1, OutboxCorrect, PTL
-----------------------------------------------------------------------------
(* What a step does to a delivery, to a claim in hand and to the cut ones. *)

RowKept(d) == /\ deliveries'[d].status = deliveries[d].status
              /\ deliveries'[d].attempts = deliveries[d].attempts
              /\ deliveries'[d].claims = deliveries[d].claims

RowCreated(d) == deliveries[d].status = "NINGUNO" /\ deliveries'[d] = NewDelivery

RowTaken(d) == /\ deliveries[d].status \in {"PENDING", "PROCESSING"} /\ deliveries[d].due
               /\ deliveries'[d] = Taken(d) /\ UNCHANGED cut

\* The worker that holds the claim reports on it.
RowMarked(d) == \E w \in Workers :
  /\ jobs[w].step \in {"mark", "fail"} /\ jobs[w].item.of = d /\ HoldsDelivery(w)
  /\ deliveries'[d].attempts = deliveries[d].attempts
  /\ deliveries'[d].claims = deliveries[d].claims
  /\ \/ deliveries'[d].status \in {"SENT", "FAILED"}
     \/ deliveries'[d].status = "PENDING" /\ MayRetry(w)

RowRetried(d) == /\ deliveries[d].status = "FAILED" /\ deliveries'[d].status = "PENDING"
                 /\ deliveries'[d].attempts = 0
                 /\ deliveries'[d].claims = deliveries[d].claims

LEMMA BecomesRow ==
  ASSUME OutboxTypeOK, NEW d \in Deliveries, NEW c \in Deliveries, NEW status, NEW attempts,
         NEW due, NEW code, DeliveryBecomes(c, status, attempts, due, code)
  PROVE  /\ d # c => deliveries'[d] = deliveries[d]
         /\ d = c => /\ deliveries'[d].status = status /\ deliveries'[d].attempts = attempts
                     /\ deliveries'[d].claims = deliveries[d].claims
BY SMT DEF DeliveryBecomes, OutboxTypeOK

LEMMA RowSteps ==
  ASSUME OutboxTypeOK, StepsFit, [OutboxNext]_outboxVars, NEW d \in Deliveries
  PROVE  RowKept(d) \/ RowCreated(d) \/ RowTaken(d) \/ RowMarked(d) \/ RowRetried(d)
<1>1. ASSUME deliveries'[d] = deliveries[d] PROVE RowKept(d)
  BY <1>1 DEF RowKept
<1>2. ASSUME NEW w \in Workers, Materialize(w) PROVE RowKept(d) \/ RowCreated(d)
  <2>1. PICK p \in jobs[w].left :
          LET c == <<jobs[w].item.of, p>> IN
          deliveries' = IF deliveries[c].status # "NINGUNO" THEN deliveries
                        ELSE [deliveries EXCEPT ![c] = NewDelivery]
    BY <1>2 DEF Materialize
  <2> DEFINE new == <<jobs[w].item.of, p>>
  <2>2. CASE deliveries[new].status # "NINGUNO"
    BY <1>1, <2>1, <2>2
  <2>3. CASE deliveries[new].status = "NINGUNO"
    <3>1. deliveries' = [deliveries EXCEPT ![new] = NewDelivery]
      BY <2>1, <2>3
    <3>2. deliveries'[d] = IF d = new THEN NewDelivery ELSE deliveries[d]
      BY <3>1, SMT DEF OutboxTypeOK
    <3> QED
      BY <1>1, <2>3, <3>2 DEF RowCreated
  <2> QED
    BY <2>2, <2>3
<1>3. ASSUME NEW w \in Workers, ClaimDeliveries(w) PROVE RowKept(d) \/ RowTaken(d)
  <2>1. PICK S \in Batches(ClaimableDeliveries) :
          deliveries' = [c \in Deliveries |-> IF c \in S THEN Taken(c) ELSE deliveries[c]]
    BY <1>3 DEF ClaimDeliveries
  <2>2. d \in S => deliveries[d].status \in {"PENDING", "PROCESSING"} /\ deliveries[d].due
    BY SMT DEF Batches, ClaimableDeliveries
  <2> QED
    BY <1>1, <1>3, <2>1, <2>2 DEF RowTaken, ClaimDeliveries
<1>4. ASSUME NEW w \in Workers, MarkSent(w) \/ MarkFailure(w) PROVE RowKept(d) \/ RowMarked(d)
  <2> DEFINE c == jobs[w].item.of
  <2>1. jobs[w].step \in {"mark", "fail"} /\ c \in Deliveries
    <3>1. jobs[w].step \in {"mark", "fail"}
      BY <1>4 DEF MarkSent, MarkFailure, AtStep
    <3>2. jobs[w].item \in Items(Deliveries)
      BY <3>1 DEF StepsFit
    <3> QED
      BY <3>1, <3>2, SMT DEF Items
  <2>2. \/ UNCHANGED deliveries
        \/ /\ HoldsDelivery(w)
           /\ DeliveryBecomes(c, "SENT", deliveries[c].attempts, FALSE, "NINGUNO")
        \/ /\ HoldsDelivery(w)
           /\ DeliveryBecomes(c, "FAILED", deliveries[c].attempts, FALSE, jobs[w].code)
        \/ /\ HoldsDelivery(w) /\ MayRetry(w)
           /\ DeliveryBecomes(c, "PENDING", deliveries[c].attempts, FALSE, jobs[w].code)
    BY <1>4 DEF MarkSent, MarkFailure
  <2>3. CASE UNCHANGED deliveries
    BY <1>1, <2>3
  <2>4. ASSUME HoldsDelivery(w), NEW status, NEW code,
               status \in {"SENT", "FAILED"} \/ (status = "PENDING" /\ MayRetry(w)),
               DeliveryBecomes(c, status, deliveries[c].attempts, FALSE, code)
        PROVE  RowKept(d) \/ RowMarked(d)
    <3>1. CASE d # c
      BY <1>1, <2>1, <2>4, <3>1, BecomesRow
    <3>2. CASE d = c
      <4>1. /\ deliveries'[d].status = status
            /\ deliveries'[d].attempts = deliveries[d].attempts
            /\ deliveries'[d].claims = deliveries[d].claims
        <5>1. d = c => /\ deliveries'[d].status = status
                       /\ deliveries'[d].attempts = deliveries[c].attempts
                       /\ deliveries'[d].claims = deliveries[d].claims
          BY <2>1, <2>4, SMT DEF DeliveryBecomes, OutboxTypeOK
        <5> QED
          BY <3>2, <5>1
      <4> QED
        BY <2>1, <2>4, <3>2, <4>1 DEF RowMarked
    <3> QED
      BY <3>1, <3>2
  <2> QED
    BY <2>2, <2>3, <2>4
<1>5. ASSUME NEW c \in Deliveries, DeliveryDue(c) \/ OutliveDelivery(c) \/ ManualRetry(c)
      PROVE  RowKept(d) \/ RowRetried(d)
  <2>1. \/ DeliveryBecomes(c, deliveries[c].status, deliveries[c].attempts, TRUE,
                           deliveries[c].code)
        \/ /\ deliveries[c].status = "FAILED"
           /\ DeliveryBecomes(c, "PENDING", 0, TRUE, "NINGUNO")
    BY <1>5 DEF DeliveryDue, OutliveDelivery, ManualRetry
  <2>2. CASE d # c
    BY <1>1, <2>1, <2>2, BecomesRow
  <2>3. CASE d = c
    <3>1. \/ /\ deliveries'[d].status = deliveries[d].status
             /\ deliveries'[d].attempts = deliveries[d].attempts
             /\ deliveries'[d].claims = deliveries[d].claims
          \/ /\ deliveries[d].status = "FAILED" /\ deliveries'[d].status = "PENDING"
             /\ deliveries'[d].attempts = 0 /\ deliveries'[d].claims = deliveries[d].claims
      <4>1. CASE DeliveryBecomes(c, deliveries[c].status, deliveries[c].attempts, TRUE,
                                 deliveries[c].code)
        <5>1. d = c => /\ deliveries'[d].status = deliveries[c].status
                       /\ deliveries'[d].attempts = deliveries[c].attempts
                       /\ deliveries'[d].claims = deliveries[d].claims
          BY <4>1, SMT DEF DeliveryBecomes, OutboxTypeOK
        <5> QED
          BY <2>3, <5>1
      <4>2. CASE deliveries[c].status = "FAILED" /\ DeliveryBecomes(c, "PENDING", 0, TRUE, "NINGUNO")
        <5>1. d = c => /\ deliveries'[d].status = "PENDING" /\ deliveries'[d].attempts = 0
                       /\ deliveries'[d].claims = deliveries[d].claims
          BY <4>2, BecomesRow
        <5> QED
          BY <2>3, <4>2, <5>1
      <4> QED
        BY <2>1, <4>1, <4>2
    <3> QED
      BY <3>1 DEF RowKept, RowRetried
  <2> QED
    BY <2>2, <2>3
<1>6. CASE UNCHANGED deliveries
  BY <1>1, <1>6
<1>7. \/ UNCHANGED deliveries
      \/ \E w \in Workers : \/ Materialize(w) \/ ClaimDeliveries(w)
                            \/ MarkSent(w) \/ MarkFailure(w)
      \/ \E c \in Deliveries : DeliveryDue(c) \/ OutliveDelivery(c) \/ ManualRetry(c)
  BY DEF OutboxNext, Work, Crash, Record, EventDue, OutliveEvent, ClaimEvents, Resolve, Cancel,
     CloseEvent, EventThrows, FailEvent, Send, MarkThrows, outboxVars, tables
<1> QED
  BY <1>2, <1>3, <1>4, <1>5, <1>6, <1>7

\* A claim a worker holds after a step is one it held, or one it has just made.
LEMMA HoldSteps ==
  ASSUME OutboxTypeOK, StepsFit, HeldOnce, [OutboxNext]_outboxVars,
         NEW w \in Workers, Delivering(w)', NEW c \in Holds(w)'
  PROVE  \/ Delivering(w) /\ c \in Holds(w)
         \/ c.of \in Deliveries /\ c = DeliveryClaim(c.of) /\ RowTaken(c.of)
<1>1. ASSUME jobs'[w] = jobs[w] PROVE Delivering(w) /\ c \in Holds(w)
  BY <1>1, SMT DEF Delivering, Holds
<1>2. ASSUME NEW v \in Workers, NEW job, jobs' = [jobs EXCEPT ![v] = job],
             ~Delivering(v), job.turn # "deliver"
      PROVE  Delivering(w) /\ c \in Holds(w)
  BY <1>1, <1>2, SMT DEF Delivering, OutboxTypeOK
<1>3. ASSUME NEW v \in Workers, \E turn \in {"digest", "fanout"} : ClaimEvents(v, turn)
      PROVE  Delivering(w) /\ c \in Holds(w)
  BY <1>2, <1>3, SMT DEF ClaimEvents, Delivering, Busy, Free, Job
<1>4. ASSUME NEW v \in Workers, NEW step, NEW item, NEW people, NEW left, NEW code,
             Does(v, step, item, people, left, code), ~Delivering(v)
      PROVE  Delivering(w) /\ c \in Holds(w)
  <2>1. jobs[v].turn # "deliver"
    BY <1>4 DEF Delivering
  <2> QED
    <3> DEFINE job == [turn |-> jobs[v].turn, step |-> step, batch |-> jobs[v].batch \ {item},
                       item |-> item, people |-> people, left |-> left, code |-> code]
    <3>1. job.turn # "deliver"
      BY <2>1
    <3>2. jobs' = [jobs EXCEPT ![v] = job]
      BY <1>4 DEF Does
    <3> HIDE DEF job
    <3> QED
      BY <1>2, <1>4, <3>1, <3>2
<1>5. ASSUME NEW v \in Workers, Resolve(v) \/ Materialize(v) \/ Cancel(v) \/ EventThrows(v)
      PROVE  Delivering(w) /\ c \in Holds(w)
  <2>1. ~Delivering(v)
    BY <1>5 DEF Resolve, Materialize, Cancel, EventThrows, Delivering, AtStep, StepsFit
  <2> QED
    BY <1>4, <1>5, <2>1 DEF Resolve, Materialize, Cancel, EventThrows, Goes
<1>6. ASSUME NEW v \in Workers, CloseEvent(v) \/ FailEvent(v)
      PROVE  Delivering(w) /\ c \in Holds(w)
  <2>1. ~Delivering(v) /\ Finishes(v)
    BY <1>6 DEF CloseEvent, FailEvent, Delivering, AtStep, StepsFit
  <2>2. Busy(jobs[v].turn, jobs[v].batch).turn # "deliver"
    BY <2>1, SMT DEF Busy, Free, Job, Delivering
  <2> QED
    BY <1>2, <2>1, <2>2 DEF Finishes
<1>7. ASSUME NEW v \in Workers, ClaimDeliveries(v)
      PROVE  \/ Delivering(w) /\ c \in Holds(w)
             \/ c.of \in Deliveries /\ c = DeliveryClaim(c.of) /\ RowTaken(c.of)
  <2>1. PICK S \in Batches(ClaimableDeliveries) :
          /\ deliveries' = [d \in Deliveries |-> IF d \in S THEN Taken(d) ELSE deliveries[d]]
          /\ jobs' = [jobs EXCEPT ![v] = Busy("deliver", {DeliveryClaim(d) : d \in S})]
    BY <1>7 DEF ClaimDeliveries
  <2>2. CASE w # v
    BY <1>1, <2>1, <2>2, SMT DEF OutboxTypeOK
  <2>3. CASE w = v
    <3>1. jobs'[w] = Busy("deliver", {DeliveryClaim(d) : d \in S})
      BY <2>1, <2>3, SMT DEF OutboxTypeOK
    <3>2. Holds(w)' = {DeliveryClaim(d) : d \in S}
      BY <3>1, SMT DEF Delivering, Holds, Busy, Free, Job
    <3>3. PICK d \in S : c = DeliveryClaim(d)
      BY <3>2
    <3>4. c.of = d
      BY <3>3, SMT DEF DeliveryClaim
    <3>5. d \in Deliveries /\ deliveries[d].status \in {"PENDING", "PROCESSING"} /\ deliveries[d].due
      BY SMT DEF Batches, ClaimableDeliveries
    <3>6. deliveries'[d] = Taken(d)
      BY <2>1, <3>5
    <3> QED
      BY <1>7, <3>3, <3>4, <3>5, <3>6 DEF RowTaken, ClaimDeliveries
  <2> QED
    BY <2>2, <2>3
<1>8. ASSUME NEW v \in Workers, Send(v) PROVE Delivering(w) /\ c \in Holds(w)
  <2>1. PICK b \in jobs[v].batch, step \in {"mark", "fail"}, code \in Codes :
          Does(v, step, b, {}, {}, code)
    BY <1>8, SendCases
  <2>2. CASE w # v
    BY <1>1, <2>1, <2>2, SMT DEF Does, OutboxTypeOK
  <2>3. CASE w = v
    <3>1. /\ jobs'[w].batch = jobs[w].batch \ {b} /\ jobs'[w].item = b
          /\ jobs'[w].turn = jobs[w].turn /\ jobs[w].step = "work"
      BY <1>8, <2>1, <2>3, SMT DEF Does, OutboxTypeOK, Send, AtStep
    <3> QED
      BY <2>1, <2>3, <3>1, SMT DEF Holds, Delivering
  <2> QED
    BY <2>2, <2>3
<1>9. ASSUME NEW v \in Workers, MarkThrows(v) PROVE Delivering(w) /\ c \in Holds(w)
  <2>1. Does(v, "fail", jobs[v].item, {}, {}, "CONFIGURATION") /\ jobs[v].step = "mark"
    BY <1>9 DEF MarkThrows, AtStep
  <2>2. CASE w # v
    BY <1>1, <2>1, <2>2, SMT DEF Does, OutboxTypeOK
  <2>3. CASE w = v
    <3>1. /\ jobs'[w].batch = jobs[w].batch \ {jobs[w].item} /\ jobs'[w].item = jobs[w].item
          /\ jobs'[w].turn = jobs[w].turn /\ jobs[w].step = "mark"
      BY <2>1, <2>3, SMT DEF Does, OutboxTypeOK
    <3> QED
      BY <3>1, SMT DEF Holds, Delivering
  <2> QED
    BY <2>2, <2>3
<1>10. ASSUME NEW v \in Workers, MarkSent(v) \/ MarkFailure(v)
       PROVE  Delivering(w) /\ c \in Holds(w)
  <2>1. jobs[v].step \in {"mark", "fail"} /\ Finishes(v)
    BY <1>10 DEF MarkSent, MarkFailure, AtStep
  <2>2. Delivering(v)
    BY <2>1 DEF StepsFit
  <2> QED
    BY <2>1, <2>2, Finished
<1>11. ASSUME NEW v \in Workers, Crash(v) PROVE Delivering(w) /\ c \in Holds(w)
  <2>1. w # v
    BY <1>11, SMT DEF Crash, OutboxTypeOK, Free, Job, Delivering
  <2> QED
    BY <1>1, <1>11, <2>1, SMT DEF Crash, OutboxTypeOK
<1>12. CASE UNCHANGED jobs
  BY <1>1, <1>12
<1>13. \/ UNCHANGED jobs
       \/ \E v \in Workers : Work(v) \/ Crash(v)
  BY DEF OutboxNext, Record, EventDue, OutliveEvent, DeliveryDue, OutliveDelivery, ManualRetry,
     outboxVars
<1> QED
  BY <1>3, <1>5, <1>6, <1>7, <1>8, <1>9, <1>10, <1>11, <1>12, <1>13 DEF Work

\* A claim is cut off when it is the delivery's latest, or in hand.
LEMMA CutSteps ==
  ASSUME OutboxTypeOK, StepsFit, ClaimsCounted, [OutboxNext]_outboxVars
  PROVE  /\ cut \subseteq cut'
         /\ \A s \in cut' \ cut : s[1] \in Deliveries /\ s[2] \in 1..deliveries[s[1]].claims
<1>1. ASSUME NEW w \in Workers, Crash(w), NEW s \in cut' \ cut
      PROVE  s[1] \in Deliveries /\ s[2] \in 1..deliveries[s[1]].claims
  <2>1. jobs[w].turn = "deliver" /\ cut' = cut \cup {<<c.of, c.claim>> : c \in Holds(w)}
    BY <1>1 DEF Crash
  <2>2. PICK c \in Holds(w) : s = <<c.of, c.claim>>
    BY <1>1, <2>1
  <2>3. Delivering(w)
    BY <2>1 DEF Delivering
  <2>4. c \in Items(Deliveries) /\ c.claim <= deliveries[c.of].claims
    BY <2>3, HeldTyped DEF ClaimsCounted
  <2>5. c.of \in Deliveries /\ c.claim \in Nat \ {0}
    BY <2>4, KeyTyped
  <2>6. deliveries[c.of].claims \in Nat
    BY <2>5, RowTyped
  <2> QED
    BY <2>2, <2>4, <2>5, <2>6, SMT
<1>2. ASSUME NEW d \in Deliveries, OutliveDelivery(d), NEW s \in cut' \ cut
      PROVE  s[1] \in Deliveries /\ s[2] \in 1..deliveries[s[1]].claims
  <2>1. s = <<d, deliveries[d].claims>> /\ deliveries[d].status = "PROCESSING"
    BY <1>2 DEF OutliveDelivery
  <2>2. deliveries[d].claims > 0 /\ deliveries[d].claims \in Nat
    BY <2>1, RowTyped DEF ClaimsCounted
  <2> QED
    BY <2>1, <2>2, SMT
<1>3. \/ UNCHANGED cut
      \/ \E w \in Workers : Crash(w)
      \/ \E d \in Deliveries : OutliveDelivery(d)
  BY DEF OutboxNext, Work, Record, EventDue, OutliveEvent, ClaimEvents, Resolve, Cancel,
     CloseEvent, EventThrows, FailEvent, Send, MarkThrows, Materialize, ClaimDeliveries,
     MarkSent, MarkFailure, DeliveryDue, ManualRetry, outboxVars
<1>4. cut \subseteq cut'
  BY <1>3 DEF Crash, OutliveDelivery
<1> QED
  BY <1>1, <1>2, <1>3, <1>4
-----------------------------------------------------------------------------
(* Attempts.                                                               *)

\* Claims of a delivery that were cut off, and those of them before its latest claim.
Cuts(d) == {s \in cut : s[1] = d}
Earlier(d) == {s \in cut : s[1] = d /\ s[2] # deliveries[d].claims}

\* A claim that was cut off had been made.
CutsCounted == \A s \in cut : s[2] \in 1..deliveries[s[1]].claims

\* Who holds a delivery's latest claim knows its attempts.
AttemptsKnown ==
  \A w \in Workers : Delivering(w) => \A c \in Holds(w) :
    c.claim = deliveries[c.of].claims => c.attempts = deliveries[c.of].attempts

\* What waits for its next attempt has one left; an attempt over the maximum took the place
\* of an earlier one that was cut off.
AttemptsExplained ==
  \A d \in Deliveries :
    IF deliveries[d].status \in {"NINGUNO", "PENDING"} THEN deliveries[d].attempts < MaxAttempts
    ELSE deliveries[d].attempts <= MaxAttempts + Cardinality(Earlier(d))

AttemptsInv == CutsCounted /\ AttemptsKnown /\ AttemptsExplained

\* The numbered claims of one delivery are finitely many, however many deliveries there are.
LEMMA ClaimsFinite ==
  ASSUME NEW d, NEW n \in Nat, NEW S, \A s \in S : s = <<d, s[2]>> /\ s[2] \in 1..n
  PROVE  IsFiniteSet(S) /\ Cardinality(S) \in Nat
<1>1. IsFiniteSet(1..n)
  <2>1. 1 \in Int /\ n \in Int
    BY SMT
  <2> QED
    BY <2>1, FS_Interval
<1>4. IsFiniteSet({d})
  BY FS_Singleton
<1>2. IsFiniteSet({d} \X (1..n))
  BY <1>1, <1>4, FS_Product
<1>3. S \subseteq {d} \X (1..n)
  BY SMT
<1> QED
  BY <1>2, <1>3, FS_Subset, FS_CardinalityType

LEMMA CutsFinite ==
  ASSUME OutboxTypeOK, CutsCounted, NEW d \in Deliveries
  PROVE  /\ IsFiniteSet(Cuts(d)) /\ Cardinality(Cuts(d)) \in Nat
         /\ IsFiniteSet(Earlier(d)) /\ Cardinality(Earlier(d)) \in Nat
         /\ Cardinality(Earlier(d)) <= Cardinality(Cuts(d))
<1>1. deliveries[d].claims \in Nat
  BY RowTyped
<1>2. \A s \in Cuts(d) : s = <<d, s[2]>> /\ s[2] \in 1..deliveries[d].claims
  BY SMT DEF Cuts, CutsCounted, OutboxTypeOK
<1>3. Earlier(d) \subseteq Cuts(d)
  BY DEF Earlier, Cuts
<1>4. IsFiniteSet(Cuts(d)) /\ Cardinality(Cuts(d)) \in Nat
  BY <1>1, <1>2, ClaimsFinite
<1> QED
  BY <1>3, <1>4, FS_Subset, FS_CardinalityType

LEMMA AttemptsInit == OutboxInit => AttemptsInv
<1> SUFFICES ASSUME OutboxInit PROVE AttemptsInv
  OBVIOUS
<1>1. CutsCounted /\ AttemptsKnown
  BY SMT DEF OutboxInit, CutsCounted, AttemptsKnown, Free, Job, Delivering
<1>2. AttemptsExplained
  BY OutboxAssumption, SMT DEF OutboxInit, AttemptsExplained, NoDelivery
<1> QED
  BY <1>1, <1>2 DEF AttemptsInv

\* A claim in hand that is the latest was the latest before, and nobody touched its count.
LEMMA AttemptsKnownKept ==
  ASSUME OutboxInv, AttemptsInv, [OutboxNext]_outboxVars
  PROVE  AttemptsKnown'
<1> SUFFICES ASSUME NEW w \in Workers, Delivering(w)', NEW c \in Holds(w)',
                    c.claim = deliveries'[c.of].claims
             PROVE  c.attempts = deliveries'[c.of].attempts
  BY DEF AttemptsKnown
<1> USE DEF OutboxInv
<1>1. CASE c.of \in Deliveries /\ c = DeliveryClaim(c.of) /\ RowTaken(c.of)
  BY <1>1, SMT DEF RowTaken, Taken, DeliveryClaim
<1>2. CASE Delivering(w) /\ c \in Holds(w)
  <2> DEFINE d == c.of
  <2>1. c \in Items(Deliveries) /\ c.claim <= deliveries[d].claims
    BY <1>2, HeldTyped DEF ClaimsCounted
  <2>2. d \in Deliveries /\ c.claim \in Nat \ {0}
    BY <2>1, KeyTyped
  <2>3. deliveries[d].claims \in Nat /\ (deliveries[d].status = "NINGUNO" => deliveries[d].claims = 0)
    BY <2>2, RowTyped DEF ClaimsCounted
  <2>4. c.claim = deliveries[d].claims =>
          deliveries[d].status = "PROCESSING" /\ c.attempts = deliveries[d].attempts
    BY <1>2, <2>2, <2>3, SMT DEF HeldIsCurrent, AttemptsInv, AttemptsKnown
  <2>5. CASE RowKept(d)
    BY <2>4, <2>5 DEF RowKept
  <2>6. CASE RowCreated(d)
    BY <2>2, <2>6, SMT DEF RowCreated, NewDelivery
  <2>7. CASE RowTaken(d)
    BY <2>1, <2>2, <2>3, <2>7, SMT DEF RowTaken, Taken
  <2>8. CASE RowMarked(d)
    BY <2>4, <2>8 DEF RowMarked
  <2>9. CASE RowRetried(d)
    BY <2>4, <2>9 DEF RowRetried
  <2> QED
    BY <2>2, <2>5, <2>6, <2>7, <2>8, <2>9, RowSteps
<1> QED
  BY <1>1, <1>2, HoldSteps

LEMMA CutsCountedKept ==
  ASSUME OutboxInv, AttemptsInv, [OutboxNext]_outboxVars
  PROVE  CutsCounted'
<1> SUFFICES ASSUME NEW s \in cut' PROVE s[2] \in 1..deliveries'[s[1]].claims
  BY DEF CutsCounted
<1> USE DEF OutboxInv
<1>1. s[1] \in Deliveries /\ s[2] \in 1..deliveries[s[1]].claims
  <2>1. CASE s \in cut
    BY <2>1, SMT DEF AttemptsInv, CutsCounted, OutboxTypeOK
  <2>2. CASE s \notin cut
    BY <2>2, CutSteps
  <2> QED
    BY <2>1, <2>2
<1>2. deliveries[s[1]].claims \in Nat
  BY <1>1, RowTyped
<1>3. deliveries[s[1]].status = "NINGUNO" => deliveries[s[1]].claims = 0
  BY <1>1 DEF ClaimsCounted
<1>4. RowKept(s[1]) \/ RowCreated(s[1]) \/ RowTaken(s[1]) \/ RowMarked(s[1]) \/ RowRetried(s[1])
  BY <1>1, RowSteps
<1>5. deliveries'[s[1]].claims = deliveries[s[1]].claims
      \/ deliveries'[s[1]].claims = deliveries[s[1]].claims + 1
  BY <1>3, <1>4, SMT DEF RowKept, RowCreated, RowTaken, RowMarked, RowRetried, NewDelivery, Taken
<1> QED
  BY <1>1, <1>2, <1>5, SMT

\* Taking over a delivery in PROCESSING counts the claim it is taken from as cut off.
LEMMA AttemptsExplainedKept ==
  ASSUME OutboxInv, AttemptsInv, [OutboxNext]_outboxVars
  PROVE  AttemptsExplained'
<1> USE DEF OutboxInv
<1> SUFFICES ASSUME NEW d \in Deliveries
             PROVE  IF deliveries'[d].status \in {"NINGUNO", "PENDING"}
                    THEN deliveries'[d].attempts < MaxAttempts
                    ELSE deliveries'[d].attempts <= MaxAttempts + Cardinality(Earlier(d)')
  <2>1. AttemptsExplained' <=>
          \A d \in Deliveries :
            IF deliveries'[d].status \in {"NINGUNO", "PENDING"}
            THEN deliveries'[d].attempts < MaxAttempts
            ELSE deliveries'[d].attempts <= MaxAttempts + Cardinality(Earlier(d)')
    BY DEF AttemptsExplained, Earlier
  <2> QED
    BY <2>1
<1>1. OutboxTypeOK' /\ CutsCounted'
  BY TypeStep, CutsCountedKept
<1>2. /\ IsFiniteSet(Earlier(d)) /\ Cardinality(Earlier(d)) \in Nat
      /\ IsFiniteSet(Cuts(d)) /\ Cardinality(Cuts(d)) \in Nat
  BY CutsFinite DEF AttemptsInv
<1>3. IsFiniteSet(Earlier(d)') /\ Cardinality(Earlier(d)') \in Nat
  <2>1. deliveries'[d].claims \in Nat
    BY <1>1, SMT DEF OutboxTypeOK, DeliveryRows
  <2>2. \A s \in Earlier(d)' : s = <<d, s[2]>> /\ s[2] \in 1..deliveries'[d].claims
    BY <1>1, SMT DEF Earlier, CutsCounted, OutboxTypeOK
  <2> QED
    BY <2>1, <2>2, ClaimsFinite
<1>4. /\ deliveries[d].attempts \in Nat /\ deliveries[d].claims \in Nat
      /\ deliveries[d].status \in Statuses
  BY SMT DEF OutboxTypeOK, DeliveryRows
<1>5. MaxAttempts \in Nat \ {0}
  BY OutboxAssumption
<1>6. IF deliveries[d].status \in {"NINGUNO", "PENDING"} THEN deliveries[d].attempts < MaxAttempts
      ELSE deliveries[d].attempts <= MaxAttempts + Cardinality(Earlier(d))
  BY DEF AttemptsInv, AttemptsExplained
<1>7. cut \subseteq cut'
  BY CutSteps
<1>8. ASSUME deliveries'[d].claims = deliveries[d].claims
      PROVE  Cardinality(Earlier(d)) <= Cardinality(Earlier(d)')
  <2>1. Earlier(d) \subseteq Earlier(d)'
    BY <1>7, <1>8 DEF Earlier
  <2> QED
    BY <1>3, <2>1, FS_Subset
<1>9. CASE RowKept(d)
  BY <1>2, <1>3, <1>4, <1>5, <1>6, <1>8, <1>9, SMT DEF RowKept
<1>10. CASE RowCreated(d)
  BY <1>5, <1>10, SMT DEF RowCreated, NewDelivery
<1>11. CASE RowMarked(d)
  <2>1. PICK w \in Workers :
          /\ jobs[w].step \in {"mark", "fail"} /\ jobs[w].item.of = d /\ HoldsDelivery(w)
          /\ deliveries'[d].attempts = deliveries[d].attempts
          /\ deliveries'[d].claims = deliveries[d].claims
          /\ \/ deliveries'[d].status \in {"SENT", "FAILED"}
             \/ deliveries'[d].status = "PENDING" /\ MayRetry(w)
    BY <1>11 DEF RowMarked
  <2>2. deliveries[d].status = "PROCESSING" /\ jobs[w].item.claim = deliveries[d].claims
    BY <2>1 DEF HoldsDelivery
  <2>3. Delivering(w)
    BY <2>1 DEF StepsFit
  <2>4. jobs[w].item \in Holds(w)
    BY <2>1, <2>3, HeldTyped
  <2>5. jobs[w].item.attempts = deliveries[d].attempts
    BY <2>1, <2>2, <2>3, <2>4 DEF AttemptsInv, AttemptsKnown
  <2>6. MayRetry(w) => deliveries[d].attempts < MaxAttempts
    BY <2>5 DEF MayRetry
  <2> QED
    BY <1>2, <1>3, <1>4, <1>5, <1>6, <1>8, <2>1, <2>2, <2>6, SMT
<1>12. CASE RowRetried(d)
  BY <1>5, <1>12, SMT DEF RowRetried
<1>13. CASE RowTaken(d)
  <2>1. /\ deliveries'[d].status = "PROCESSING"
        /\ deliveries'[d].attempts = deliveries[d].attempts + 1
        /\ deliveries'[d].claims = deliveries[d].claims + 1
        /\ deliveries[d].status \in {"PENDING", "PROCESSING"} /\ deliveries[d].due
        /\ cut' = cut
    BY <1>13, SMT DEF RowTaken, Taken
  <2>2. \A s \in cut : s[1] = d => s[2] # deliveries[d].claims + 1
    BY <1>4, SMT DEF AttemptsInv, CutsCounted
  <2>3. Earlier(d)' = Cuts(d)
    BY <2>1, <2>2 DEF Earlier, Cuts
  <2>4. CASE deliveries[d].status = "PENDING"
    BY <1>2, <1>4, <1>5, <1>6, <2>1, <2>3, <2>4, SMT
  <2>5. CASE deliveries[d].status = "PROCESSING"
    <3> DEFINE last == <<d, deliveries[d].claims>>
    <3>1. last \in cut
      BY <2>1, <2>5 DEF Attended
    <3>2. Cuts(d) = Earlier(d) \cup {last} /\ last \notin Earlier(d)
      BY <3>1, SMT DEF Cuts, Earlier, OutboxTypeOK
    <3>3. Cardinality(Cuts(d)) = Cardinality(Earlier(d)) + 1
      BY <1>2, <3>2, FS_AddElement
    <3> QED
      BY <1>2, <1>4, <1>5, <1>6, <2>1, <2>3, <2>5, <3>3, SMT
  <2> QED
    BY <2>1, <2>4, <2>5
<1> QED
  BY <1>9, <1>10, <1>11, <1>12, <1>13, RowSteps

\* claimDeliveries counts an attempt at each claim and markDeliveryFailure gives up at the
\* maximum: only a claim that was cut off, never a race of two workers, lets one more by.
THEOREM AttemptsAreBounded == OutboxSpec => []AttemptsBounded
<1>1. OutboxInv /\ AttemptsInv /\ [OutboxNext]_outboxVars => AttemptsInv'
  BY CutsCountedKept, AttemptsKnownKept, AttemptsExplainedKept DEF AttemptsInv
<1>2. OutboxInv /\ AttemptsInv => AttemptsBounded
  <2> SUFFICES ASSUME OutboxInv, AttemptsInv, NEW d \in Deliveries
               PROVE  deliveries[d].attempts <= MaxAttempts + Cardinality(Cuts(d))
    BY DEF AttemptsBounded, Cuts
  <2>1. /\ Cardinality(Cuts(d)) \in Nat /\ Cardinality(Earlier(d)) \in Nat
        /\ Cardinality(Earlier(d)) <= Cardinality(Cuts(d))
    BY CutsFinite DEF AttemptsInv, OutboxInv
  <2>2. deliveries[d].attempts \in Nat /\ MaxAttempts \in Nat
    BY OutboxAssumption, SMT DEF OutboxInv, OutboxTypeOK, DeliveryRows
  <2>3. IF deliveries[d].status \in {"NINGUNO", "PENDING"} THEN deliveries[d].attempts < MaxAttempts
        ELSE deliveries[d].attempts <= MaxAttempts + Cardinality(Earlier(d))
    BY DEF AttemptsInv, AttemptsExplained
  <2> QED
    BY <2>1, <2>2, <2>3, SMT
<1> QED
  BY <1>1, <1>2, AttemptsInit, OutboxCorrect, PTL DEF OutboxSpec
-----------------------------------------------------------------------------
(* Recipients.                                                             *)

\* A fan-out under way has written a delivery for everybody it does not still have left,
\* and one about to close has nobody left, or says that it had nobody.
FanoutFits ==
  \A w \in Workers : jobs[w].step \in {"materialize", "close"} =>
    /\ jobs[w].left \subseteq jobs[w].people
    /\ \A p \in jobs[w].people \ jobs[w].left :
         deliveries[<<jobs[w].item.of, p>>].status # "NINGUNO"
    /\ jobs[w].step = "close" =>
         jobs[w].left = {} /\ (jobs[w].people = {} => jobs[w].item.of \in cancelled)

\* A delivery that exists stays.
LEMMA DeliveriesStay ==
  ASSUME OutboxTypeOK, StepsFit, [OutboxNext]_outboxVars, NEW d \in Deliveries,
         deliveries[d].status # "NINGUNO"
  PROVE  deliveries'[d].status # "NINGUNO"
<1>1. RowTaken(d) => deliveries'[d].status = "PROCESSING"
  BY SMT DEF RowTaken, Taken
<1>2. RowMarked(d) => deliveries'[d].status \in {"SENT", "FAILED", "PENDING"}
  BY DEF RowMarked
<1>3. RowRetried(d) => deliveries'[d].status = "PENDING"
  BY DEF RowRetried
<1>4. ~RowCreated(d) /\ (RowKept(d) => deliveries'[d].status = deliveries[d].status)
  BY DEF RowCreated, RowKept
<1> QED
  BY <1>1, <1>2, <1>3, <1>4, RowSteps

\* The recipients of an event's job are people, and its deliveries are deliveries.
LEMMA FanoutTyped ==
  ASSUME OutboxTypeOK, StepsFit, NEW w \in Workers,
         jobs[w].step \in {"materialize", "close"}
  PROVE  /\ jobs[w].item.of \in Events /\ jobs[w].people \subseteq People
         /\ \A p \in jobs[w].people : <<jobs[w].item.of, p>> \in Deliveries
<1>1. jobs[w] \in JobsOf({"free", "digest", "fanout"}, Events) /\ jobs[w].item \in Items(Events)
  BY JobTyped DEF StepsFit
<1> QED
  BY <1>1, SMT DEF JobsOf, Items, Deliveries

\* How a worker comes to be at the fan-out of an event.
LEMMA FanoutSteps ==
  ASSUME OutboxTypeOK, StepsFit, [OutboxNext]_outboxVars, NEW w \in Workers,
         jobs'[w].step \in {"materialize", "close"}
  PROVE  \/ jobs'[w] = jobs[w]
         \/ jobs'[w].step = "materialize" /\ jobs'[w].left = jobs'[w].people
         \/ /\ jobs[w].step = "materialize" /\ jobs'[w].item = jobs[w].item
            /\ jobs'[w].people = jobs[w].people
            /\ \E p \in jobs[w].left :
                 /\ jobs'[w].left = jobs[w].left \ {p}
                 /\ jobs'[w].step = "close" => jobs'[w].left = {}
                 /\ <<jobs[w].item.of, p>> \in Deliveries
                      => deliveries'[<<jobs[w].item.of, p>>].status # "NINGUNO"
         \/ /\ jobs[w].step = "materialize" /\ jobs'[w].item = jobs[w].item
            /\ jobs'[w].people = jobs[w].people
            /\ jobs[w].left = {} /\ jobs'[w].left = {}
            /\ jobs[w].item.of \in cancelled'
<1>1. ASSUME NEW v \in Workers, NEW step, NEW item, NEW people, NEW left, NEW code,
             Does(v, step, item, people, left, code)
      PROVE  IF v = w THEN /\ jobs'[w].step = step /\ jobs'[w].item = item
                           /\ jobs'[w].people = people /\ jobs'[w].left = left
                      ELSE jobs'[w] = jobs[w]
  BY <1>1, SMT DEF Does, OutboxTypeOK
<1>2. ASSUME NEW v \in Workers, NEW turn, NEW batch, jobs' = [jobs EXCEPT ![v] = Busy(turn, batch)]
      PROVE  jobs'[w] = jobs[w]
  BY <1>2, SMT DEF Busy, Free, Job, OutboxTypeOK
<1>3. ASSUME NEW v \in Workers, Resolve(v)
      PROVE  jobs'[w] = jobs[w] \/ (jobs'[w].step = "materialize" /\ jobs'[w].left = jobs'[w].people)
  <2>1. PICK c \in jobs[v].batch, R \in SUBSET People :
          Does(v, "materialize", c, R, R, "NINGUNO")
    BY <1>3 DEF Resolve
  <2> QED
    BY <1>1, <2>1
<1>4. ASSUME NEW v \in Workers, Materialize(v), jobs'[w] # jobs[w]
      PROVE  /\ jobs[w].step = "materialize" /\ jobs'[w].item = jobs[w].item
             /\ jobs'[w].people = jobs[w].people
             /\ \E p \in jobs[w].left :
                  /\ jobs'[w].left = jobs[w].left \ {p}
                  /\ jobs'[w].step = "close" => jobs'[w].left = {}
                  /\ <<jobs[w].item.of, p>> \in Deliveries
                       => deliveries'[<<jobs[w].item.of, p>>].status # "NINGUNO"
  <2>1. PICK p \in jobs[v].left :
          LET d == <<jobs[v].item.of, p>> IN
          /\ deliveries' = IF deliveries[d].status # "NINGUNO" THEN deliveries
                           ELSE [deliveries EXCEPT ![d] = NewDelivery]
          /\ Does(v, IF LeftAfter(v, p) = {} THEN "close" ELSE "materialize", jobs[v].item,
                  jobs[v].people, LeftAfter(v, p), "NINGUNO")
    BY <1>4 DEF Materialize
  <2> DEFINE step == IF LeftAfter(v, p) = {} THEN "close" ELSE "materialize"
             d == <<jobs[v].item.of, p>>
  <2>2. v = w /\ jobs[w].step = "materialize"
    BY <1>1, <1>4, <2>1 DEF Materialize, AtStep
  <2>3. /\ jobs'[w].step = step /\ jobs'[w].item = jobs[w].item
        /\ jobs'[w].people = jobs[w].people /\ jobs'[w].left = LeftAfter(w, p)
    BY <1>1, <2>1, <2>2
  <2>4. d \in Deliveries => deliveries'[d].status # "NINGUNO"
    <3>1. CASE deliveries[d].status # "NINGUNO"
      BY <2>1, <3>1
    <3>2. CASE deliveries[d].status = "NINGUNO"
      <4>1. deliveries' = [deliveries EXCEPT ![d] = NewDelivery]
        BY <2>1, <3>2
      <4> QED
        BY <4>1, SMT DEF OutboxTypeOK, NewDelivery
    <3> QED
      BY <3>1, <3>2
  <2>5. jobs'[w].left = jobs[w].left \ {p} /\ (jobs'[w].step = "close" => jobs'[w].left = {})
    BY <2>2, <2>3 DEF LeftAfter
  <2> QED
    BY <2>1, <2>2, <2>3, <2>4, <2>5
<1>5. ASSUME NEW v \in Workers, Cancel(v), jobs'[w] # jobs[w]
      PROVE  /\ jobs[w].step = "materialize" /\ jobs'[w].item = jobs[w].item
             /\ jobs'[w].people = jobs[w].people
             /\ jobs[w].left = {} /\ jobs'[w].left = {}
             /\ jobs[w].item.of \in cancelled'
  <2>1. /\ Does(v, "close", jobs[v].item, jobs[v].people, jobs[v].left, jobs[v].code)
        /\ jobs[v].step = "materialize" /\ jobs[v].left = {}
        /\ cancelled' = cancelled \cup {jobs[v].item.of}
    BY <1>5 DEF Cancel, Goes, AtStep
  <2>2. v = w
    BY <1>1, <1>5, <2>1
  <2> QED
    BY <1>1, <2>1, <2>2
<1>6. ASSUME NEW v \in Workers, EventThrows(v) \/ MarkThrows(v) \/ Send(v) PROVE jobs'[w] = jobs[w]
  <2>1. \E step \in {"giveUp", "mark", "fail"} : \E item, people, left, code :
          Does(v, step, item, people, left, code)
    <3>1. EventThrows(v) => Does(v, "giveUp", jobs[v].item, jobs[v].people, jobs[v].left, jobs[v].code)
      BY DEF EventThrows, Goes
    <3>2. MarkThrows(v) => Does(v, "fail", jobs[v].item, {}, {}, "CONFIGURATION")
      BY DEF MarkThrows
    <3>3. Send(v) => \E step \in {"mark", "fail"} : \E c, code : Does(v, step, c, {}, {}, code)
      BY SendCases
    <3> QED
      BY <1>6, <3>1, <3>2, <3>3
  <2> QED
    BY <1>1, <2>1
<1>7. ASSUME NEW v \in Workers,
             \/ \E turn \in {"digest", "fanout"} : ClaimEvents(v, turn)
             \/ ClaimDeliveries(v) \/ CloseEvent(v) \/ FailEvent(v) \/ MarkSent(v) \/ MarkFailure(v)
      PROVE  jobs'[w] = jobs[w]
  BY <1>2, <1>7 DEF ClaimEvents, ClaimDeliveries, CloseEvent, FailEvent, MarkSent, MarkFailure,
     Finishes
<1>8. ASSUME NEW v \in Workers, Crash(v) PROVE jobs'[w] = jobs[w]
  BY <1>8, SMT DEF Crash, Free, Job, OutboxTypeOK
<1>9. \/ UNCHANGED jobs
      \/ \E v \in Workers : Work(v) \/ Crash(v)
  BY DEF OutboxNext, Record, EventDue, OutliveEvent, DeliveryDue, OutliveDelivery, ManualRetry,
     outboxVars
<1>10. CASE UNCHANGED jobs
  BY <1>10
<1> QED
  BY <1>3, <1>4, <1>5, <1>6, <1>7, <1>8, <1>9, <1>10 DEF Work

LEMMA FanoutKept ==
  ASSUME OutboxTypeOK, StepsFit, FanoutFits, [OutboxNext]_outboxVars
  PROVE  FanoutFits'
<1> SUFFICES ASSUME NEW w \in Workers, jobs'[w].step \in {"materialize", "close"}
             PROVE  /\ jobs'[w].left \subseteq jobs'[w].people
                    /\ \A p \in jobs'[w].people \ jobs'[w].left :
                         deliveries'[<<jobs'[w].item.of, p>>].status # "NINGUNO"
                    /\ jobs'[w].step = "close" =>
                         /\ jobs'[w].left = {}
                         /\ jobs'[w].people = {} => jobs'[w].item.of \in cancelled'
  BY DEF FanoutFits
<1> DEFINE e == jobs[w].item.of
<1>1. ASSUME jobs[w].step \in {"materialize", "close"}
      PROVE  /\ jobs[w].left \subseteq jobs[w].people
             /\ \A p \in jobs[w].people : <<e, p>> \in Deliveries
             /\ \A p \in jobs[w].people \ jobs[w].left : deliveries'[<<e, p>>].status # "NINGUNO"
  BY <1>1, FanoutTyped, DeliveriesStay DEF FanoutFits
<1>2. cancelled \subseteq cancelled'
  BY DEF OutboxNext, Work, Crash, Record, EventDue, OutliveEvent, ClaimEvents, Resolve, Cancel,
     CloseEvent, EventThrows, FailEvent, Send, MarkThrows, Materialize, ClaimDeliveries, MarkSent,
     MarkFailure, DeliveryDue, OutliveDelivery, ManualRetry, outboxVars, tables
<1>3. CASE jobs'[w] = jobs[w]
  BY <1>1, <1>2, <1>3 DEF FanoutFits
<1>4. CASE jobs'[w].step = "materialize" /\ jobs'[w].left = jobs'[w].people
  BY <1>4
<1>5. ASSUME jobs[w].step = "materialize", jobs'[w].item = jobs[w].item,
             jobs'[w].people = jobs[w].people, NEW p \in jobs[w].left,
             jobs'[w].left = jobs[w].left \ {p}, jobs'[w].step = "close" => jobs'[w].left = {},
             <<e, p>> \in Deliveries => deliveries'[<<e, p>>].status # "NINGUNO"
      PROVE  /\ jobs'[w].left \subseteq jobs'[w].people
             /\ \A q \in jobs'[w].people \ jobs'[w].left :
                  deliveries'[<<jobs'[w].item.of, q>>].status # "NINGUNO"
             /\ jobs'[w].step = "close" => jobs'[w].left = {}
             /\ jobs'[w].people # {}
  BY <1>1, <1>5
<1>6. CASE /\ jobs[w].step = "materialize" /\ jobs'[w].item = jobs[w].item
           /\ jobs'[w].people = jobs[w].people
           /\ jobs[w].left = {} /\ jobs'[w].left = {} /\ e \in cancelled'
  BY <1>1, <1>6
<1> QED
  BY <1>3, <1>4, <1>5, <1>6, FanoutSteps

LEMMA RecipientsStep ==
  ASSUME OutboxTypeOK, StepsFit, FanoutFits, RecipientsKept, [OutboxNext]_outboxVars
  PROVE  RecipientsKept'
<1> SUFFICES ASSUME NEW e \in Events, events'[e].status = "SENT"
             PROVE  \/ promised'[e] = {} /\ e \in cancelled'
                    \/ /\ promised'[e] # {}
                       /\ \A p \in promised'[e] : deliveries'[<<e, p>>].status # "NINGUNO"
  BY DEF RecipientsKept
<1>1. ASSUME NEW w \in Workers, CloseEvent(w), jobs[w].item.of = e, HoldsEvent(w)
      PROVE  /\ promised'[e] = jobs[w].people /\ jobs[w].step = "close"
             /\ UNCHANGED <<deliveries, cancelled>>
  BY <1>1, SMT DEF CloseEvent, AtStep, OutboxTypeOK
<1>2. ASSUME NEW w \in Workers, CloseEvent(w), ~(jobs[w].item.of = e /\ HoldsEvent(w))
      PROVE  events'[e] = events[e] /\ promised'[e] = promised[e]
  BY <1>2, SMT DEF CloseEvent, EventBecomes, OutboxTypeOK
<1>3. ASSUME NEW f \in Events, NEW status, NEW due, EventBecomes(f, status, due),
             f = e => status = events[e].status \/ status # "SENT"
      PROVE  events[e].status = "SENT"
  BY <1>3, SMT DEF EventBecomes, OutboxTypeOK
<1>4. ASSUME NEW w \in Workers, \E turn \in {"digest", "fanout"} : ClaimEvents(w, turn)
      PROVE  events[e].status = "SENT"
  <2>1. PICK S \in SUBSET Events :
          events' = [f \in Events |-> IF f \in S THEN TakenEvent(f) ELSE events[f]]
    <3>1. PICK turn \in {"digest", "fanout"} : ClaimEvents(w, turn)
      BY <1>4
    <3>2. Batches(ClaimableEvents(turn)) \subseteq SUBSET Events
      BY OutboxAssumption, <3>1, SMT DEF Batches, ClaimableEvents, EventsOf
    <3> QED
      BY <3>1, <3>2 DEF ClaimEvents
  <2> QED
    BY <2>1 DEF TakenEvent
<1>5. ASSUME NEW w \in Workers, FailEvent(w) PROVE events[e].status = "SENT"
  <2>1. jobs[w].item.of \in Events
    BY <1>5, SMT DEF FailEvent, AtStep, StepsFit, Items
  <2> QED
    BY <1>3, <1>5, <2>1 DEF FailEvent
<1>6. ASSUME NEW f \in Events, Record(f) \/ EventDue(f) \/ OutliveEvent(f)
      PROVE  events[e].status = "SENT"
  BY <1>3, <1>6 DEF Record, EventDue, OutliveEvent
<1>7. \/ UNCHANGED <<events, promised>>
      \/ /\ UNCHANGED promised
         /\ \/ \E w \in Workers : \/ \E turn \in {"digest", "fanout"} : ClaimEvents(w, turn)
                                  \/ FailEvent(w)
            \/ \E f \in Events : Record(f) \/ EventDue(f) \/ OutliveEvent(f)
      \/ \E w \in Workers : CloseEvent(w)
  BY DEF OutboxNext, Work, Crash, ClaimEvents, FailEvent, Record, EventDue, OutliveEvent, Resolve,
     Cancel, EventThrows, Send, MarkThrows, Materialize, ClaimDeliveries, MarkSent, MarkFailure,
     DeliveryDue, OutliveDelivery, ManualRetry, outboxVars, tables
<1>8. cancelled \subseteq cancelled'
  BY DEF OutboxNext, Work, Crash, Record, EventDue, OutliveEvent, ClaimEvents, Resolve, Cancel,
     CloseEvent, EventThrows, FailEvent, Send, MarkThrows, Materialize, ClaimDeliveries, MarkSent,
     MarkFailure, DeliveryDue, OutliveDelivery, ManualRetry, outboxVars, tables
<1>9. \A p \in People : deliveries[<<e, p>>].status # "NINGUNO" => deliveries'[<<e, p>>].status # "NINGUNO"
  BY DeliveriesStay DEF Deliveries
<1>10. CASE \E w \in Workers : CloseEvent(w) /\ jobs[w].item.of = e /\ HoldsEvent(w)
  <2>1. PICK w \in Workers : CloseEvent(w) /\ jobs[w].item.of = e /\ HoldsEvent(w)
    BY <1>10
  <2>2. /\ promised'[e] = jobs[w].people /\ jobs[w].step = "close"
        /\ UNCHANGED <<deliveries, cancelled>>
    BY <1>1, <2>1
  <2> QED
    BY <2>1, <2>2 DEF FanoutFits
<1>11. CASE events[e].status = "SENT" /\ promised'[e] = promised[e]
  <2>1. promised[e] \subseteq People
    BY DEF OutboxTypeOK
  <2> QED
    BY <1>8, <1>9, <1>11, <2>1 DEF RecipientsKept
<1> QED
  BY <1>2, <1>4, <1>5, <1>6, <1>7, <1>10, <1>11

\* processOutboxEvents writes a delivery for everybody it resolved before it marks the event
\* SENT, or says that there is nobody: also when an earlier claim left it half done.
THEOREM RecipientsAreKept == OutboxSpec => []RecipientsKept
<1>1. OutboxInit => FanoutFits /\ RecipientsKept
  BY SMT DEF OutboxInit, FanoutFits, RecipientsKept, Free, Job, NoEvent
<1>2. OutboxInv /\ FanoutFits /\ RecipientsKept /\ [OutboxNext]_outboxVars
        => FanoutFits' /\ RecipientsKept'
  BY FanoutKept, RecipientsStep DEF OutboxInv
<1> QED
  BY <1>1, <1>2, OutboxCorrect, PTL DEF OutboxSpec
-----------------------------------------------------------------------------
(* The contract.                                                           *)

\* What a worker has in hand to fan out was recorded.
FanoutsRecorded ==
  \A w \in Workers : ~Delivering(w) =>
    \A c \in Holds(w) : c.of \in Events /\ events[c.of].status # "NINGUNO"

\* A worker that goes on with a claim of its own has no others, and keeps its turn.
LEMMA DoesHolds ==
  ASSUME OutboxTypeOK, NEW v \in Workers, NEW step \in Steps \ {"claim", "work"}, NEW item, NEW people,
         NEW left, NEW code, Does(v, step, item, people, left, code), item \in Holds(v),
         NEW w \in Workers
  PROVE  /\ Holds(w)' \subseteq Holds(w) /\ (Delivering(w)' <=> Delivering(w))
         /\ w # v => jobs'[w] = jobs[w]
<1>1. jobs'[v] = [turn |-> jobs[v].turn, step |-> step, batch |-> jobs[v].batch \ {item},
                  item |-> item, people |-> people, left |-> left, code |-> code]
  BY SMT DEF Does, OutboxTypeOK
<1>2. w # v => jobs'[w] = jobs[w]
  BY SMT DEF Does, OutboxTypeOK
<1>3. jobs[v].batch \subseteq Holds(v)
  BY DEF Holds
<1>4. /\ jobs'[v].turn = jobs[v].turn /\ jobs'[v].step = step
      /\ jobs'[v].batch = jobs[v].batch \ {item} /\ jobs'[v].item = item
  BY <1>1
<1>5. Holds(v)' \subseteq Holds(v)
  BY <1>3, <1>4 DEF Holds
<1> QED
  BY <1>2, <1>4, <1>5 DEF Holds, Delivering

\* A worker between two items holds what is left of its batch.
LEMMA BusyHolds ==
  ASSUME OutboxTypeOK, NEW v \in Workers, NEW turn, NEW batch,
         jobs' = [jobs EXCEPT ![v] = Busy(turn, batch)], NEW w \in Workers
  PROVE  /\ w = v => \A c \in Holds(w)' : c \in batch /\ (Delivering(w)' <=> turn = "deliver")
         /\ w # v => jobs'[w] = jobs[w]
<1>1. w # v => jobs'[w] = jobs[w]
  BY SMT DEF OutboxTypeOK
<1>2. jobs'[v] = Busy(turn, batch)
  BY SMT DEF OutboxTypeOK
<1>3. CASE batch = {}
  BY <1>1, <1>2, <1>3 DEF Busy, Free, Job, Holds, Delivering
<1>4. CASE batch # {}
  BY <1>1, <1>2, <1>4 DEF Busy, Job, Holds, Delivering
<1> QED
  BY <1>3, <1>4

\* What a step does to an event.
EventKept(e) == events'[e].status = events[e].status
EventTaken(e) == events[e].status \in {"PENDING", "PROCESSING"} /\ events'[e].status = "PROCESSING"

LEMMA BecomesEvent ==
  ASSUME OutboxTypeOK, NEW e, NEW status, NEW due, EventBecomes(e, status, due), NEW f \in Events
  PROVE  IF f = e THEN events'[f].status = status ELSE events'[f] = events[f]
BY SMT DEF EventBecomes, OutboxTypeOK

\* Claiming events leaves each as it is or in the hands of the worker.
LEMMA ClaimedEvents ==
  ASSUME OutboxTypeOK, NEW w \in Workers, NEW turn \in {"digest", "fanout"}, ClaimEvents(w, turn)
  PROVE  \E S \in SUBSET Events :
           /\ \A e \in Events : IF e \in S THEN EventTaken(e) ELSE EventKept(e)
           /\ jobs' = [jobs EXCEPT ![w] = Busy(turn, {EventClaim(e) : e \in S})]
<1>1. PICK S \in Batches(ClaimableEvents(turn)) :
        /\ events' = [e \in Events |-> IF e \in S THEN TakenEvent(e) ELSE events[e]]
        /\ jobs' = [jobs EXCEPT ![w] = Busy(turn, {EventClaim(e) : e \in S})]
  BY DEF ClaimEvents
<1>2. S \subseteq ClaimableEvents(turn)
  BY DEF Batches
<1>3. \A e \in S : e \in Events /\ events[e].status \in {"PENDING", "PROCESSING"}
  BY <1>2, OutboxAssumption DEF ClaimableEvents, EventsOf
<1>4. \A e \in Events : IF e \in S THEN EventTaken(e) ELSE EventKept(e)
  BY <1>1, <1>3 DEF EventTaken, EventKept, TakenEvent
<1> QED
  BY <1>1, <1>3, <1>4

\* An event that was recorded stays so.
LEMMA RecordedStays ==
  ASSUME OutboxTypeOK, StepsFit, [OutboxNext]_outboxVars, NEW e \in Events,
         events[e].status # "NINGUNO"
  PROVE  events'[e].status # "NINGUNO"
<1>1. ASSUME NEW w \in Workers, NEW turn \in {"digest", "fanout"}, ClaimEvents(w, turn)
      PROVE  events'[e].status # "NINGUNO"
  <2>1. EventTaken(e) \/ EventKept(e)
    BY <1>1, ClaimedEvents
  <2> QED
    BY <2>1 DEF EventTaken, EventKept
<1>2. ASSUME NEW f, NEW status, NEW due, EventBecomes(f, status, due),
             status # "NINGUNO" \/ status = events[f].status
      PROVE  events'[e].status # "NINGUNO"
  BY <1>2, BecomesEvent
<1>3. \A w \in Workers : CloseEvent(w) \/ FailEvent(w) =>
        UNCHANGED events \/ \E status \in {"SENT", "FAILED"} : \E f, due : EventBecomes(f, status, due)
  BY DEF CloseEvent, FailEvent
<1>4. \A f \in Events : Record(f) \/ EventDue(f) \/ OutliveEvent(f) =>
        \E status, due : /\ EventBecomes(f, status, due)
                         /\ status # "NINGUNO" \/ status = events[f].status
  BY DEF Record, EventDue, OutliveEvent
<1>5. \/ UNCHANGED events
      \/ \E w \in Workers, turn \in {"digest", "fanout"} : ClaimEvents(w, turn)
      \/ \E w \in Workers : CloseEvent(w) \/ FailEvent(w)
      \/ \E f \in Events : Record(f) \/ EventDue(f) \/ OutliveEvent(f)
  BY DEF OutboxNext, Work, Crash, Record, EventDue, OutliveEvent, Resolve, Cancel,
     CloseEvent, EventThrows, FailEvent, Send, MarkThrows, Materialize, ClaimDeliveries, MarkSent,
     MarkFailure, DeliveryDue, OutliveDelivery, ManualRetry, outboxVars, tables
<1> QED
  BY <1>1, <1>2, <1>3, <1>4, <1>5

LEMMA FanoutsStep ==
  ASSUME OutboxTypeOK, StepsFit, FanoutsRecorded, [OutboxNext]_outboxVars
  PROVE  FanoutsRecorded'
<1> SUFFICES ASSUME NEW w \in Workers, ~Delivering(w)', NEW c \in Holds(w)'
             PROVE  c.of \in Events /\ events'[c.of].status # "NINGUNO"
  BY DEF FanoutsRecorded
<1>1. ASSUME ~Delivering(w), c \in Holds(w)
      PROVE  c.of \in Events /\ events'[c.of].status # "NINGUNO"
  BY <1>1, RecordedStays DEF FanoutsRecorded
<1>2. ASSUME jobs'[w] = jobs[w] PROVE ~Delivering(w) /\ c \in Holds(w)
  BY <1>2 DEF Delivering, Holds
<1>3. ASSUME NEW v \in Workers,
             \/ Resolve(v) \/ Materialize(v) \/ Cancel(v) \/ EventThrows(v)
             \/ Send(v) \/ MarkThrows(v)
      PROVE  ~Delivering(w) /\ c \in Holds(w)
  <2>1. \E step \in {"materialize", "close", "giveUp", "mark", "fail"}, item \in Holds(v) :
          \E people, left, code : Does(v, step, item, people, left, code)
    <3>1. jobs[v].batch \subseteq Holds(v)
      BY DEF Holds
    <3>2. jobs[v].step \notin {"claim", "work"} => jobs[v].item \in Holds(v)
      BY DEF Holds
    <3>3. Resolve(v) => \E item \in jobs[v].batch : \E R : Does(v, "materialize", item, R, R, "NINGUNO")
      BY DEF Resolve
    <3>4. Send(v) => \E item \in jobs[v].batch, step \in {"mark", "fail"} : \E code :
                       Does(v, step, item, {}, {}, code)
      BY SendCases
    <3>5. Materialize(v) => \E step \in {"materialize", "close"} : \E left :
                              Does(v, step, jobs[v].item, jobs[v].people, left, "NINGUNO")
      BY DEF Materialize
    <3>6. Cancel(v) => Does(v, "close", jobs[v].item, jobs[v].people, jobs[v].left, jobs[v].code)
      BY DEF Cancel, Goes
    <3>7. EventThrows(v) =>
            Does(v, "giveUp", jobs[v].item, jobs[v].people, jobs[v].left, jobs[v].code)
      BY DEF EventThrows, Goes
    <3>8. MarkThrows(v) => Does(v, "fail", jobs[v].item, {}, {}, "CONFIGURATION")
      BY DEF MarkThrows
    <3>9. Materialize(v) \/ Cancel(v) \/ EventThrows(v) \/ MarkThrows(v)
            => jobs[v].step \notin {"claim", "work"}
      BY DEF Materialize, Cancel, EventThrows, MarkThrows, AtStep
    <3>10. CASE Resolve(v) \/ Send(v)
      BY <3>1, <3>3, <3>4, <3>10
    <3>11. CASE Materialize(v) \/ Cancel(v) \/ EventThrows(v) \/ MarkThrows(v)
      BY <3>2, <3>5, <3>6, <3>7, <3>8, <3>9, <3>11
    <3> QED
      BY <1>3, <3>10, <3>11
  <2>2. {"materialize", "close", "giveUp", "mark", "fail"} \subseteq Steps \ {"claim", "work"}
    BY DEF Steps
  <2> QED
    BY <2>1, <2>2, DoesHolds
<1>4. ASSUME NEW v \in Workers, CloseEvent(v) \/ FailEvent(v) \/ MarkSent(v) \/ MarkFailure(v)
      PROVE  ~Delivering(w) /\ c \in Holds(w)
  <2>1. jobs' = [jobs EXCEPT ![v] = Busy(jobs[v].turn, jobs[v].batch)]
    BY <1>4 DEF CloseEvent, FailEvent, MarkSent, MarkFailure, Finishes
  <2>2. w = v => c \in jobs[v].batch /\ ~Delivering(w)
    <3> DEFINE turn == jobs[v].turn
               batch == jobs[v].batch
    <3>1. jobs' = [jobs EXCEPT ![v] = Busy(turn, batch)]
      BY <2>1
    <3> HIDE DEF turn, batch
    <3>2. w = v => c \in batch /\ turn # "deliver"
      BY <3>1, BusyHolds
    <3> QED
      BY <3>2 DEF turn, batch, Delivering
  <2>3. jobs[w].batch \subseteq Holds(w)
    BY DEF Holds
  <2>4. w # v => jobs'[w] = jobs[w]
    BY <2>1, BusyHolds
  <2> QED
    BY <1>2, <2>2, <2>3, <2>4 DEF Delivering
<1>5. ASSUME NEW v \in Workers, NEW turn \in {"digest", "fanout"}, ClaimEvents(v, turn)
      PROVE  c.of \in Events /\ events'[c.of].status # "NINGUNO"
  <2>1. PICK S \in SUBSET Events :
          /\ \A e \in Events : IF e \in S THEN EventTaken(e) ELSE EventKept(e)
          /\ jobs' = [jobs EXCEPT ![v] = Busy(turn, {EventClaim(e) : e \in S})]
    BY <1>5, ClaimedEvents
  <2>2. CASE w = v
    <3> DEFINE claims == {EventClaim(e) : e \in S}
    <3>1. jobs' = [jobs EXCEPT ![v] = Busy(turn, claims)]
      BY <2>1
    <3> HIDE DEF claims
    <3>2. c \in claims
      BY <2>2, <3>1, BusyHolds
    <3>3. PICK e \in S : c = EventClaim(e)
      BY <3>2 DEF claims
    <3> QED
      BY <2>1, <3>3 DEF EventClaim, EventTaken
  <2>3. CASE w # v
    BY <1>1, <1>2, <2>1, <2>3, BusyHolds
  <2> QED
    BY <2>2, <2>3
<1>6. ASSUME NEW v \in Workers, ClaimDeliveries(v) PROVE ~Delivering(w) /\ c \in Holds(w)
  <2>1. PICK S \in Batches(ClaimableDeliveries) :
          jobs' = [jobs EXCEPT ![v] = Busy("deliver", {DeliveryClaim(d) : d \in S})]
    BY <1>6 DEF ClaimDeliveries
  <2>2. w # v
    <3> DEFINE claims == {DeliveryClaim(d) : d \in S}
               turn == "deliver"
    <3>1. jobs' = [jobs EXCEPT ![v] = Busy(turn, claims)]
      BY <2>1
    <3> HIDE DEF claims, turn
    <3>2. w = v => turn # "deliver"
      BY <3>1, BusyHolds
    <3> QED
      BY <3>2 DEF turn
  <2> QED
    BY <1>2, <2>1, <2>2, BusyHolds
<1>7. ASSUME NEW v \in Workers, Crash(v) PROVE ~Delivering(w) /\ c \in Holds(w)
  <2>1. jobs' = [jobs EXCEPT ![v] = Busy("free", {})]
    BY <1>7 DEF Crash, Busy
  <2>2. w # v
    <3> DEFINE turn == "free"
               batch == {}
    <3>1. jobs' = [jobs EXCEPT ![v] = Busy(turn, batch)]
      BY <2>1
    <3> HIDE DEF batch, turn
    <3>2. w = v => c \in batch
      BY <3>1, BusyHolds
    <3> QED
      BY <3>2 DEF batch
  <2> QED
    BY <1>2, <2>1, <2>2, BusyHolds
<1>8. \/ UNCHANGED jobs
      \/ \E v \in Workers : Work(v) \/ Crash(v)
  BY DEF OutboxNext, Record, EventDue, OutliveEvent, DeliveryDue, OutliveDelivery, ManualRetry,
     outboxVars
<1> QED
  BY <1>1, <1>2, <1>3, <1>4, <1>5, <1>6, <1>7, <1>8 DEF Work

-----------------------------------------------------------------------------
(* The refinement.                                                         *)

LEMMA Readings ==
  /\ NoticeOf("NINGUNO") = "INEDITO" /\ LetterOf("NINGUNO") = "NO_ESCRITA"
  /\ NoticeOf("PENDING") = "ABIERTO" /\ LetterOf("PENDING") = "PROMETIDA"
  /\ NoticeOf("PROCESSING") = "ABIERTO" /\ LetterOf("PROCESSING") = "PROMETIDA"
  /\ NoticeOf("SENT") = "AVISADO" /\ LetterOf("SENT") = "ENVIADA"
  /\ NoticeOf("FAILED") = "ABANDONADO" /\ LetterOf("FAILED") = "DESISTIDA"
  /\ \A s \in Statuses : s # "NINGUNO" => NoticeOf(s) # "INEDITO" /\ LetterOf(s) # "NO_ESCRITA"
BY DEF NoticeOf, LetterOf, Statuses

\* An event, or a delivery, that is read as before or as something else.
LEMMA NoticesSet ==
  ASSUME OutboxTypeOK, NEW e \in Events, NEW status, NEW due, EventBecomes(e, status, due)
  PROVE  /\ Notices[e] = NoticeOf(events[e].status)
         /\ Notices' = [Notices EXCEPT ![e] = NoticeOf(status)]
         /\ NoticeOf(status) = NoticeOf(events[e].status) => Notices' = Notices
<1>1. \A f \in Events : events'[f].status = IF f = e THEN status ELSE events[f].status
  BY BecomesEvent
<1>2. Notices' = [f \in Events |-> NoticeOf(IF f = e THEN status ELSE events[f].status)]
  BY <1>1 DEF Notices
<1> QED
  BY <1>2 DEF Notices

LEMMA LettersSet ==
  ASSUME OutboxTypeOK, NEW d \in Deliveries, NEW status, NEW attempts, NEW due, NEW code,
         DeliveryBecomes(d, status, attempts, due, code)
  PROVE  /\ Letters[d] = LetterOf(deliveries[d].status)
         /\ Letters' = [Letters EXCEPT ![d] = LetterOf(status)]
         /\ LetterOf(status) = LetterOf(deliveries[d].status) => Letters' = Letters
<1>1. \A c \in Deliveries : deliveries'[c].status = IF c = d THEN status ELSE deliveries[c].status
  <2> TAKE c \in Deliveries
  <2> QED
    BY BecomesRow
<1>2. Letters' = [c \in Deliveries |-> LetterOf(IF c = d THEN status ELSE deliveries[c].status)]
  BY <1>1 DEF Letters
<1> QED
  BY <1>2 DEF Letters

ContractInv == OutboxInv /\ FanoutFits /\ FanoutsRecorded

\* Recording, waiting and outliving.
LEMMA EventsKeepContract ==
  ASSUME OutboxTypeOK, NEW e \in Events, Record(e) \/ EventDue(e) \/ OutliveEvent(e)
  PROVE  [Contract!Next]_(Contract!vars)
<1>1. UNCHANGED <<Letters, Handed, cancelled, promised>>
  BY DEF Record, EventDue, OutliveEvent, Letters, Handed, mail
<1>2. CASE Record(e)
  <2>1. Notices[e] = "INEDITO" /\ Notices' = [Notices EXCEPT ![e] = "ABIERTO"]
    BY <1>2, NoticesSet, Readings DEF Record
  <2>2. Contract!Announce(e)
    BY <1>1, <2>1 DEF Contract!Announce, Contract!NoticeBecomes
  <2> QED
    BY <2>2 DEF Contract!Next
<1>3. CASE EventDue(e) \/ OutliveEvent(e)
  <2>1. Notices' = Notices
    BY <1>3, NoticesSet DEF EventDue, OutliveEvent
  <2> QED
    BY <1>1, <2>1 DEF Contract!vars
<1> QED
  BY <1>2, <1>3

\* What the contract does not see.
LEMMA HiddenSteps ==
  ASSUME OutboxTypeOK, NEW w \in Workers,
         \/ ClaimEvents(w, "digest") \/ ClaimEvents(w, "fanout") \/ Resolve(w) \/ EventThrows(w)
         \/ ClaimDeliveries(w) \/ MarkThrows(w) \/ Crash(w)
  PROVE  UNCHANGED Contract!vars
<1>1. UNCHANGED <<Handed, cancelled, promised>>
  BY DEF ClaimEvents, Resolve, EventThrows, ClaimDeliveries, MarkThrows, Crash, tables, mail, Handed
<1>2. CASE UNCHANGED <<events, deliveries>>
  BY <1>1, <1>2 DEF Contract!vars, Notices, Letters
<1>3. ASSUME NEW turn \in {"digest", "fanout"}, ClaimEvents(w, turn) PROVE UNCHANGED Contract!vars
  <2>1. \A e \in Events : EventTaken(e) \/ EventKept(e)
    BY <1>3, ClaimedEvents
  <2>2. \A e \in Events : NoticeOf(events'[e].status) = NoticeOf(events[e].status)
    BY <2>1, Readings DEF EventTaken, EventKept
  <2>3. Notices' = Notices
    BY <2>2 DEF Notices
  <2> QED
    BY <1>1, <1>3, <2>3 DEF Contract!vars, Letters, ClaimEvents
<1>4. ASSUME ClaimDeliveries(w) PROVE UNCHANGED Contract!vars
  <2>1. PICK S \in Batches(ClaimableDeliveries) :
          deliveries' = [d \in Deliveries |-> IF d \in S THEN Taken(d) ELSE deliveries[d]]
    BY <1>4 DEF ClaimDeliveries
  <2>2. \A d \in S : deliveries[d].status \in {"PENDING", "PROCESSING"}
    BY DEF Batches, ClaimableDeliveries
  <2>3. \A d \in Deliveries : LetterOf(deliveries'[d].status) = LetterOf(deliveries[d].status)
    BY <2>1, <2>2, Readings DEF Taken
  <2>4. Letters' = Letters
    BY <2>3 DEF Letters
  <2> QED
    BY <1>1, <1>4, <2>4 DEF Contract!vars, Notices, ClaimDeliveries
<1>5. Resolve(w) \/ EventThrows(w) \/ MarkThrows(w) \/ Crash(w) => UNCHANGED <<events, deliveries>>
  BY DEF Resolve, EventThrows, MarkThrows, Crash, tables
<1> QED
  BY <1>2, <1>3, <1>4, <1>5

\* Fanning an event out.
LEMMA FanoutKeepsContract ==
  ASSUME ContractInv, NEW w \in Workers,
         Materialize(w) \/ Cancel(w) \/ CloseEvent(w) \/ FailEvent(w)
  PROVE  [Contract!Next]_(Contract!vars)
<1> DEFINE e == jobs[w].item.of
<1>1. OutboxTypeOK /\ StepsFit /\ UNCHANGED Handed
  BY DEF ContractInv, OutboxInv, Materialize, Cancel, CloseEvent, FailEvent, mail, Handed
<1>2. e \in Events /\ events[e].status # "NINGUNO" /\ events[e].status \in Statuses
  <2>1. jobs[w].step \in {"materialize", "close", "giveUp"}
    BY DEF Materialize, Cancel, CloseEvent, FailEvent, AtStep
  <2>2. ~Delivering(w) /\ jobs[w].item \in Holds(w)
    BY <1>1, <2>1 DEF StepsFit, Holds
  <2>3. e \in Events /\ events[e].status # "NINGUNO"
    BY <2>2 DEF ContractInv, FanoutsRecorded
  <2> QED
    BY <1>1, <2>3, SMT DEF OutboxTypeOK, EventRows
<1>3. Notices[e] # "INEDITO"
  BY <1>2, Readings DEF Notices
<1>4. CASE Materialize(w)
  <2>1. PICK p \in jobs[w].left :
          deliveries' = IF deliveries[<<e, p>>].status # "NINGUNO" THEN deliveries
                        ELSE [deliveries EXCEPT ![<<e, p>>] = NewDelivery]
    BY <1>4 DEF Materialize
  <2>2. p \in People /\ <<e, p>> \in Deliveries
    BY <1>1, <1>4, FanoutTyped DEF ContractInv, FanoutFits, Materialize, AtStep
  <2>3. UNCHANGED <<Notices, cancelled, promised>>
    BY <1>4 DEF Materialize, Notices
  <2>4. CASE deliveries' = deliveries
    BY <1>1, <2>3, <2>4 DEF Contract!vars, Letters
  <2>5. CASE deliveries[<<e, p>>].status = "NINGUNO"
    <3>1. deliveries' = [deliveries EXCEPT ![<<e, p>>] = NewDelivery]
      BY <2>1, <2>5
    <3>2. \A d \in Deliveries : deliveries'[d].status
                                  = IF d = <<e, p>> THEN "PENDING" ELSE deliveries[d].status
      BY <1>1, <3>1, SMT DEF NewDelivery, OutboxTypeOK
    <3>3. Letters' = [Letters EXCEPT ![<<e, p>>] = "PROMETIDA"]
      <4>1. Letters' = [d \in Deliveries |-> IF d = <<e, p>> THEN "PROMETIDA" ELSE LetterOf(deliveries[d].status)]
        BY <3>2, Readings DEF Letters
      <4> QED
        BY <2>2, <4>1 DEF Letters
    <3>4. Letters[<<e, p>>] = "NO_ESCRITA"
      BY <2>2, <2>5, Readings DEF Letters
    <3>5. Contract!Promise(e, p)
      BY <1>1, <1>3, <2>3, <3>3, <3>4 DEF Contract!Promise, Contract!LetterBecomes
    <3> QED
      BY <1>2, <2>2, <3>5 DEF Contract!Next
  <2> QED
    BY <2>1, <2>4, <2>5
<1>5. CASE Cancel(w)
  <2>1. UNCHANGED <<Notices, Letters, promised>> /\ cancelled' = cancelled \cup {e}
    BY <1>5 DEF Cancel, Notices, Letters
  <2>2. Contract!Excuse(e)
    BY <1>1, <1>3, <2>1 DEF Contract!Excuse
  <2> QED
    BY <1>2, <2>2 DEF Contract!Next
<1>6. CASE CloseEvent(w) /\ HoldsEvent(w)
  <2>1. /\ EventBecomes(e, "SENT", TRUE)
        /\ promised' = [promised EXCEPT ![e] = jobs[w].people]
        /\ UNCHANGED <<deliveries, cancelled>> /\ jobs[w].step = "close"
    BY <1>6 DEF CloseEvent, AtStep
  <2>2. events[e].status = "PROCESSING"
    BY <1>6 DEF HoldsEvent
  <2>3. Notices[e] = "ABIERTO" /\ Notices' = [Notices EXCEPT ![e] = "AVISADO"]
    <3>1. Notices[e] = NoticeOf(events[e].status) /\ Notices' = [Notices EXCEPT ![e] = NoticeOf("SENT")]
      BY <1>1, <1>2, <2>1, NoticesSet, Zenon
    <3> QED
      BY <2>2, <3>1, Readings
  <2>4. jobs[w].people \subseteq People /\ \A p \in jobs[w].people : <<e, p>> \in Deliveries
    BY <1>1, <2>1, FanoutTyped
  <2>5. /\ jobs[w].people = {} => e \in cancelled
        /\ \A p \in jobs[w].people : deliveries[<<e, p>>].status # "NINGUNO"
    BY <2>1 DEF ContractInv, FanoutFits
  <2>6. \A p \in jobs[w].people : Letters[<<e, p>>] # "NO_ESCRITA"
    BY <1>1, <2>4, <2>5, Readings, RowTyped DEF Letters
  <2>7. UNCHANGED Letters
    BY <2>1 DEF Letters
  <2>8. Contract!Tell(e, jobs[w].people)
    BY <1>1, <2>1, <2>3, <2>5, <2>6, <2>7 DEF Contract!Tell, Contract!NoticeBecomes
  <2> QED
    BY <1>2, <2>4, <2>8 DEF Contract!Next
<1>7. CASE FailEvent(w) /\ HoldsEvent(w)
  <2>1. EventBecomes(e, "FAILED", FALSE) /\ UNCHANGED <<deliveries, cancelled, promised>>
    BY <1>7 DEF FailEvent
  <2>2. events[e].status = "PROCESSING"
    BY <1>7 DEF HoldsEvent
  <2>3. Notices[e] = "ABIERTO" /\ Notices' = [Notices EXCEPT ![e] = "ABANDONADO"]
    <3>1. Notices[e] = NoticeOf(events[e].status) /\ Notices' = [Notices EXCEPT ![e] = NoticeOf("FAILED")]
      BY <1>1, <1>2, <2>1, NoticesSet, Zenon
    <3> QED
      BY <2>2, <3>1, Readings
  <2>4. Contract!Abandon(e)
    BY <1>1, <2>1, <2>3 DEF Contract!Abandon, Contract!NoticeBecomes, Letters
  <2> QED
    BY <1>2, <2>4 DEF Contract!Next
<1>8. CASE (CloseEvent(w) \/ FailEvent(w)) /\ ~HoldsEvent(w)
  BY <1>1, <1>8 DEF CloseEvent, FailEvent, Contract!vars, Notices, Letters
<1> QED
  BY <1>4, <1>5, <1>6, <1>7, <1>8

\* Sending a delivery and reporting on it.
LEMMA MailKeepsContract ==
  ASSUME ContractInv, NEW w \in Workers, Send(w) \/ MarkSent(w) \/ MarkFailure(w)
  PROVE  [Contract!Next]_(Contract!vars)
<1>1. OutboxTypeOK /\ StepsFit /\ UNCHANGED <<Notices, cancelled, promised>>
  BY DEF ContractInv, OutboxInv, Send, MarkSent, MarkFailure, tables, Notices
<1>2. CASE Send(w)
  <2>1. PICK c \in jobs[w].batch : UNCHANGED accepted \/ accepted' = accepted \cup {Key(c)}
    BY <1>2, SendCases DEF mail
  <2>2. UNCHANGED Letters
    BY <1>2 DEF Send, tables, Letters
  <2>3. CASE UNCHANGED accepted
    BY <1>1, <2>2, <2>3 DEF Contract!vars, Handed
  <2>4. CASE accepted' = accepted \cup {Key(c)}
    <3>1. Delivering(w) /\ c \in Holds(w)
      BY <1>2 DEF Send, Delivering, Holds, AtStep
    <3>2. c \in Items(Deliveries)
      BY <1>1, <3>1, HeldTyped
    <3>3. c.of \in Deliveries /\ c.claim \in Nat \ {0} /\ Key(c)[1] = c.of
      BY <3>2, KeyTyped
    <3>4. deliveries[c.of].status # "NINGUNO"
      <4>1. c.claim <= deliveries[c.of].claims
        BY <3>1 DEF ContractInv, OutboxInv, ClaimsCounted
      <4>2. deliveries[c.of].claims # 0
        BY <3>3, <4>1, SMT
      <4> QED
        BY <3>3, <4>2 DEF ContractInv, OutboxInv, ClaimsCounted
    <3>5. Letters[c.of] # "NO_ESCRITA"
      BY <1>1, <3>3, <3>4, Readings, RowTyped DEF Letters
    <3>6. Handed' = Handed \cup {c.of}
      BY <2>4, <3>3 DEF Handed
    <3>7. Contract!HandOver(c.of)
      BY <1>1, <2>2, <3>5, <3>6 DEF Contract!HandOver
    <3> QED
      BY <3>3, <3>7 DEF Contract!Next, Contract!Mails, Deliveries
  <2> QED
    BY <2>1, <2>3, <2>4
<1>3. CASE MarkSent(w) \/ MarkFailure(w)
  <2> DEFINE d == jobs[w].item.of
  <2>1. UNCHANGED Handed
    BY <1>3 DEF MarkSent, MarkFailure, mail, Handed
  <2>2. jobs[w].step \in {"mark", "fail"} /\ Delivering(w) /\ jobs[w].item \in Items(Deliveries)
    BY <1>1, <1>3 DEF MarkSent, MarkFailure, AtStep, StepsFit
  <2>3. d \in Deliveries /\ Key(jobs[w].item)[1] = d
    BY <2>2, KeyTyped
  <2>4. CASE ~HoldsDelivery(w)
    BY <1>1, <1>3, <2>1, <2>4 DEF MarkSent, MarkFailure, Contract!vars, Letters
  <2>5. CASE HoldsDelivery(w) /\ MarkSent(w)
    <3>1. /\ DeliveryBecomes(d, "SENT", deliveries[d].attempts, FALSE, "NINGUNO")
          /\ jobs[w].step = "mark" /\ deliveries[d].status = "PROCESSING"
      BY <2>5 DEF MarkSent, AtStep, HoldsDelivery
    <3>2. Letters[d] = "PROMETIDA" /\ Letters' = [Letters EXCEPT ![d] = "ENVIADA"]
      <4>1. /\ Letters[d] = LetterOf(deliveries[d].status)
            /\ Letters' = [Letters EXCEPT ![d] = LetterOf("SENT")]
        BY <1>1, <2>3, <3>1, LettersSet, Zenon
      <4> QED
        BY <3>1, <4>1, Readings
    <3>3. d \in Handed
      BY <2>2, <2>3, <3>1 DEF ContractInv, OutboxInv, OutcomeKnown, Handed
    <3>4. Contract!Confirm(d)
      BY <1>1, <2>1, <3>2, <3>3 DEF Contract!Confirm, Contract!LetterBecomes
    <3> QED
      BY <2>3, <3>4 DEF Contract!Next, Contract!Mails, Deliveries
  <2>6. CASE HoldsDelivery(w) /\ MarkFailure(w)
    <3>1. /\ DeliveryBecomes(d, IF MayRetry(w) THEN "PENDING" ELSE "FAILED",
                              deliveries[d].attempts, FALSE, jobs[w].code)
          /\ deliveries[d].status = "PROCESSING"
      BY <2>6 DEF MarkFailure, HoldsDelivery
    <3> DEFINE status == IF MayRetry(w) THEN "PENDING" ELSE "FAILED"
    <3> HIDE DEF status
    <3>2. /\ Letters[d] = LetterOf(deliveries[d].status)
          /\ Letters' = [Letters EXCEPT ![d] = LetterOf(status)]
          /\ LetterOf(status) = LetterOf(deliveries[d].status) => Letters' = Letters
      <4>1. DeliveryBecomes(d, status, deliveries[d].attempts, FALSE, jobs[w].code)
        BY <3>1 DEF status
      <4> QED
        BY <1>1, <2>3, <4>1, LettersSet, Zenon
    <3>3. CASE MayRetry(w)
      <4>1. Letters' = Letters
        BY <3>1, <3>2, <3>3, Readings DEF status
      <4> QED
        BY <1>1, <2>1, <4>1 DEF Contract!vars
    <3>4. CASE ~MayRetry(w)
      <4>1. Letters[d] = "PROMETIDA" /\ Letters' = [Letters EXCEPT ![d] = "DESISTIDA"]
        BY <3>1, <3>2, <3>4, Readings DEF status
      <4>2. Contract!GiveUp(d)
        BY <1>1, <2>1, <4>1 DEF Contract!GiveUp, Contract!LetterBecomes
      <4> QED
        BY <2>3, <4>2 DEF Contract!Next, Contract!Mails, Deliveries
    <3> QED
      BY <3>3, <3>4
  <2> QED
    BY <1>3, <2>4, <2>5, <2>6
<1> QED
  BY <1>2, <1>3

\* Waiting, outliving and trying again.
LEMMA RowsKeepContract ==
  ASSUME OutboxTypeOK, NEW d \in Deliveries, DeliveryDue(d) \/ OutliveDelivery(d) \/ ManualRetry(d)
  PROVE  [Contract!Next]_(Contract!vars)
<1>1. UNCHANGED <<Notices, Handed, cancelled, promised>>
  BY DEF DeliveryDue, OutliveDelivery, ManualRetry, Notices, Handed, mail
<1>2. CASE DeliveryDue(d) \/ OutliveDelivery(d)
  <2>1. Letters' = Letters
    BY <1>2, LettersSet DEF DeliveryDue, OutliveDelivery
  <2> QED
    BY <1>1, <2>1 DEF Contract!vars
<1>3. CASE ManualRetry(d)
  <2>1. Letters[d] = "DESISTIDA" /\ Letters' = [Letters EXCEPT ![d] = "PROMETIDA"]
    <3>1. /\ Letters[d] = LetterOf(deliveries[d].status)
          /\ Letters' = [Letters EXCEPT ![d] = LetterOf("PENDING")]
      BY <1>3, LettersSet, Zenon DEF ManualRetry
    <3> QED
      BY <1>3, <3>1, Readings DEF ManualRetry
  <2>2. Contract!TryAgain(d)
    BY <1>1, <2>1 DEF Contract!TryAgain, Contract!LetterBecomes
  <2> QED
    BY <2>2 DEF Contract!Next, Contract!Mails, Deliveries
<1> QED
  BY <1>2, <1>3

LEMMA ContractStep == ContractInv /\ [OutboxNext]_outboxVars => [Contract!Next]_(Contract!vars)
<1> SUFFICES ASSUME ContractInv, [OutboxNext]_outboxVars PROVE [Contract!Next]_(Contract!vars)
  OBVIOUS
<1>1. OutboxTypeOK
  BY DEF ContractInv, OutboxInv
<1>2. CASE UNCHANGED outboxVars
  BY <1>2 DEF outboxVars, tables, mail, Contract!vars, Notices, Letters, Handed
<1>3. ASSUME NEW w \in Workers, Work(w) \/ Crash(w) PROVE [Contract!Next]_(Contract!vars)
  BY <1>1, <1>3, HiddenSteps, FanoutKeepsContract, MailKeepsContract DEF Work
<1>4. ASSUME NEW e \in Events, Record(e) \/ EventDue(e) \/ OutliveEvent(e)
      PROVE  [Contract!Next]_(Contract!vars)
  BY <1>1, <1>4, EventsKeepContract
<1>5. ASSUME NEW d \in Deliveries, DeliveryDue(d) \/ OutliveDelivery(d) \/ ManualRetry(d)
      PROVE  [Contract!Next]_(Contract!vars)
  BY <1>1, <1>5, RowsKeepContract
<1> QED
  BY <1>2, <1>3, <1>4, <1>5 DEF OutboxNext

\* The workers keep the contract of MailContract: whichever of them dies, outlives its lease or
\* reports late, an event is closed once and with everybody written, and a mail is called sent
\* only if the provider took it, and then for ever.
THEOREM ContractKept == OutboxSpec => KeepsContract
<1>1. OutboxInit => Contract!Init
  <2> SUFFICES ASSUME OutboxInit PROVE Contract!Init
    OBVIOUS
  <2>1. Notices = [e \in Events |-> "INEDITO"]
    BY Readings DEF OutboxInit, Notices, NoEvent
  <2>2. Letters = [d \in Deliveries |-> "NO_ESCRITA"]
    BY Readings DEF OutboxInit, Letters, NoDelivery
  <2>3. Handed = {}
    BY DEF OutboxInit, Handed
  <2> QED
    BY <2>1, <2>2, <2>3 DEF OutboxInit, Contract!Init, Contract!Mails, Deliveries
<1>2. OutboxInit => FanoutFits /\ FanoutsRecorded
  BY SMT DEF OutboxInit, FanoutFits, FanoutsRecorded, Holds, Free, Job
<1>3. OutboxInv /\ FanoutFits /\ FanoutsRecorded /\ [OutboxNext]_outboxVars
        => FanoutFits' /\ FanoutsRecorded'
  BY FanoutKept, FanoutsStep DEF OutboxInv
<1>4. OutboxInv /\ FanoutFits /\ FanoutsRecorded /\ [OutboxNext]_outboxVars
        => [Contract!Next]_(Contract!vars)
  BY ContractStep DEF ContractInv
<1> QED
  BY <1>1, <1>2, <1>3, <1>4, OutboxCorrect, PTL DEF OutboxSpec, KeepsContract, Contract!Spec
=============================================================================
