----------------------------- MODULE InboxFeed -----------------------------
(***************************************************************************)
(* How the counter of one person's inbox reaches one of their tabs: from   *)
(* the commit that changes the inbox, through NOTIFY, the hub of the       *)
(* server's process and an SSE stream, to what the tab shows.              *)
(*                                                                         *)
(* The content of the inbox is abstracted to its version, the number of    *)
(* commits that have changed it.  Counts read from the database are the    *)
(* version they were read at, so "a stale counter" is a comparison.        *)
(*                                                                         *)
(* Every await is a step: the hub's reads, the stream's, the summary the   *)
(* tab fetches and the answer of a "mark as read".  The listener and the   *)
(* stream may break, and a read may fail.                                  *)
(***************************************************************************)
EXTENDS Naturals, Sequences

CONSTANTS
  Marks,        \* "mark as read" calls of the tab, at most
  MaxVersion,   \* bound on the commits that change the inbox
  MaxFaults     \* bound on broken connections and failed reads, together

ASSUME InboxFeedAssumption ==
  /\ MaxVersion \in Nat /\ MaxFaults \in Nat
  /\ "ninguna" \notin Marks

VARIABLES
  version,    \* of the person's rows of inbox_notifications
  listening,  \* the LISTEN connection is up
  chain,      \* the hub's promise chain for the person
  stream,     \* how far the SSE connection has got
  greeting,   \* the counts the stream read for its hello
  wire,       \* events written to the connection and not yet received
  tab,        \* the tab: channel live, counter shown, fetch in flight, timer, Last-Event-ID
  calls,      \* the tab's "mark as read" calls
  latest,     \* latestWrite: the last of them
  received,   \* history: the newest version any answer or event has told the tab
  missed,     \* history: the version at which a read that would have told the tab failed
  faults      \* history: connections broken and reads failed

server == <<version, listening, chain>>
connection == <<stream, greeting, wire>>
browser == <<tab, calls, latest>>
history == <<received, missed, faults>>
vars == <<server, connection, browser, history>>

Versions == 0..MaxVersion
Newest(a, b) == IF a > b THEN a ELSE b

Signals == {"n", "u"}
Events == [event : {"hello", "resync", "counts", "notification"}, counts : Versions,
           hub : BOOLEAN]
Deliveries == [signal : Signals, loaded : BOOLEAN, counts : Versions, target : BOOLEAN]
NoFetch == [at |-> "libre", counts |-> 0, keep |-> TRUE]
Fetches == [at : {"libre", "asked", "read"}, counts : Versions, keep : BOOLEAN]
NoCall == [at |-> "libre", counts |-> 0]
Done == [at |-> "done", counts |-> 0]
Calls == [at : {"libre", "asked", "written", "published", "answered", "done"}, counts : Versions]
Waiting(m) == calls[m].at \notin {"libre", "done"}

\* Nothing is fresher than the inbox, and a delivery has a target only while its stream lasts.
FeedTypeOK ==
  /\ version \in Versions
  /\ listening \in BOOLEAN
  /\ chain \in Seq(Deliveries)
  /\ \A i \in DOMAIN chain : chain[i].target => chain[i].loaded /\ stream # "none"
  /\ stream \in {"none", "registered", "counted", "greeted", "open"}
  /\ greeting \in 0..version
  /\ wire \in Seq(Events)
  /\ tab \in [live : BOOLEAN, shown : 0..version,
              fetch : Fetches, timer : BOOLEAN, resumable : BOOLEAN]
  /\ calls \in [Marks -> Calls]
  /\ latest \in Marks \cup {"ninguna"}
  /\ received \in 0..version /\ missed \in 0..version
  /\ faults \in 0..MaxFaults

-----------------------------------------------------------------------------
(* The database and the listener                                           *)

\* PostgreSQL hands a notification, when it commits, to the sessions that listen; the hub
\* ignores a person with no stream, and otherwise the delivery waits for its turn.
Published(signal) ==
  IF listening /\ stream # "none"
  THEN Append(chain, [signal |-> signal, loaded |-> FALSE, counts |-> 0, target |-> FALSE])
  ELSE chain

\* A domain event creates, extends or resolves a notice, and signals it in its transaction.
RecordNotice ==
  /\ version < MaxVersion
  /\ version' = version + 1
  /\ chain' = Published("n")
  /\ UNCHANGED <<listening, connection, browser, history>>

MayFail == faults < MaxFaults

LoseListener ==
  /\ MayFail /\ listening
  /\ faults' = faults + 1
  /\ listening' = FALSE
  /\ UNCHANGED <<version, chain, connection, browser, received, missed>>

Resync == [event |-> "resync", counts |-> 0, hub |-> FALSE]

\* The listener comes back and nobody is told.
ReconnectInSilence ==
  /\ ~listening
  /\ listening' = TRUE
  /\ UNCHANGED <<version, chain, connection, browser, history>>

\* Whatever registered stream there is is told that signals may have been lost.
Reconnect ==
  /\ ~listening
  /\ listening' = TRUE
  /\ wire' = IF stream = "none" THEN wire ELSE Append(wire, Resync)
  /\ UNCHANGED <<version, chain, stream, greeting, browser, history>>

-----------------------------------------------------------------------------
(* The hub                                                                 *)

Without(s, i) == SubSeq(s, 1, i - 1) \o SubSeq(s, i + 1, Len(s))

\* Deliveries do not wait for one another.
AnyTurn(i) == TRUE

\* Only the head of the chain is being delivered.
Turn(i) == i = 1

\* The targets are those registered when it starts; with none there is nothing to read.
Load(i) ==
  /\ Turn(i) /\ ~chain[i].loaded
  /\ chain' = IF stream = "none" THEN Without(chain, i)
              ELSE [chain EXCEPT ![i].loaded = TRUE, ![i].counts = version, ![i].target = TRUE]
  /\ UNCHANGED <<version, listening, connection, browser, history>>

\* The failure is logged and the next link runs.
LoadFails(i) ==
  /\ MayFail /\ Turn(i) /\ ~chain[i].loaded /\ stream # "none"
  /\ chain' = Without(chain, i)
  /\ missed' = version /\ faults' = faults + 1
  /\ UNCHANGED <<version, listening, connection, browser, received>>

\* A target that was closed meanwhile ignores it.
Send(i) ==
  /\ Turn(i) /\ chain[i].loaded
  /\ chain' = Without(chain, i)
  /\ wire' = IF ~chain[i].target THEN wire
             ELSE Append(wire, [event |-> IF chain[i].signal = "n" THEN "notification" ELSE "counts",
                                counts |-> chain[i].counts, hub |-> TRUE])
  /\ UNCHANGED <<version, listening, stream, greeting, browser, history>>

-----------------------------------------------------------------------------
(* The stream                                                              *)

\* The tab connects: the server registers it in the hub before anything else.
Connect ==
  /\ stream = "none"
  /\ stream' = "registered"
  /\ UNCHANGED <<server, greeting, wire, browser, history>>

CountForHello ==
  /\ stream = "registered"
  /\ stream' = "counted" /\ greeting' = version
  /\ UNCHANGED <<server, wire, browser, history>>

\* The tab ignores the counts of a hello; only a resumption uses them afterwards.
Hello ==
  /\ stream = "counted"
  /\ wire' = Append(wire, [event |-> "hello", counts |-> 0, hub |-> FALSE])
  /\ IF tab.resumable THEN stream' = "greeted" /\ UNCHANGED greeting
                       ELSE stream' = "open" /\ greeting' = 0
  /\ UNCHANGED <<server, browser, history>>

\* What changed since the cursor, with the counts of the hello; "resync" if it is too much
\* or could not be read.
Resume ==
  /\ stream = "greeted"
  /\ stream' = "open" /\ greeting' = 0
  /\ \E found \in {"nothing", "items", "too much"} :
       wire' = CASE found = "nothing" -> wire
                 [] found = "items" -> Append(wire, [event |-> "notification",
                                                     counts |-> greeting, hub |-> FALSE])
                 [] found = "too much" -> Append(wire, Resync)
  /\ UNCHANGED <<server, browser, history>>

\* What was written and not received is lost, and so is what the hub is about to write.
Break ==
  /\ MayFail /\ stream # "none"
  /\ stream' = "none" /\ greeting' = 0 /\ wire' = <<>>
  /\ chain' = [i \in DOMAIN chain |-> [chain[i] EXCEPT !.target = FALSE]]
  /\ faults' = faults + 1
  /\ UNCHANGED <<version, listening, browser, received, missed>>

-----------------------------------------------------------------------------
(* The tab                                                                 *)

\* Aborts the summary in flight and asks for another.
Asked == [NoFetch EXCEPT !.at = "asked"]
Refreshed(t) == [t EXCEPT !.fetch = Asked]

\* A write or a live event is newer than any summary on its way, which is discarded.
Discarding(t) == IF t.fetch.at = "libre" THEN t ELSE [t EXCEPT !.fetch.keep = FALSE]

Fetching(t) == t.fetch.at # "libre"

\* applyLive: the event's counts replace the ones shown; a summary in flight is asked again.
AppliedLive(t, e) ==
  [Discarding(t) EXCEPT !.shown = e.counts, !.timer = @ \/ Fetching(t) \/ e.event = "counts",
                        !.resumable = @ \/ e.event = "notification"]

Told(counts) == received' = Newest(received, counts)

\* hello and resync only ask for a summary; any event makes the channel live.
Receive ==
  /\ wire # <<>>
  /\ LET e == Head(wire)
         live == [tab EXCEPT !.live = TRUE]
     IN /\ tab' = IF e.event \in {"hello", "resync"} THEN Refreshed(live)
                  ELSE AppliedLive(live, e)
        /\ IF e.event \in {"hello", "resync"} THEN UNCHANGED received ELSE Told(e.counts)
  /\ wire' = Tail(wire)
  /\ UNCHANGED <<server, stream, greeting, calls, latest, missed, faults>>

\* Three errors, a minute of silence or a refusal: the next connection is a new one, without
\* the Last-Event-ID the browser sends when it reconnects by itself.
FallBack ==
  /\ stream = "none" /\ tab.live
  /\ tab' = [tab EXCEPT !.live = FALSE, !.resumable = FALSE]
  /\ UNCHANGED <<server, connection, calls, latest, history>>

\* Every 30 seconds while the channel is not live; a summary takes less.
Poll ==
  /\ ~tab.live /\ ~Fetching(tab)
  /\ tab' = Refreshed(tab)
  /\ UNCHANGED <<server, connection, calls, latest, history>>

\* The list is asked again a moment after the event.
ListTimer ==
  /\ tab.timer
  /\ tab' = [Refreshed(tab) EXCEPT !.timer = FALSE]
  /\ UNCHANGED <<server, connection, calls, latest, history>>

ReadSummary ==
  /\ tab.fetch.at = "asked"
  /\ tab' = [tab EXCEPT !.fetch.at = "read", !.fetch.counts = version]
  /\ UNCHANGED <<server, connection, calls, latest, history>>

\* A summary asked before the last write or live event is not shown.
FinishSummary ==
  /\ tab.fetch.at = "read"
  /\ tab' = [tab EXCEPT !.fetch = NoFetch,
                        !.shown = IF tab.fetch.keep THEN tab.fetch.counts ELSE @]
  /\ Told(tab.fetch.counts)
  /\ UNCHANGED <<server, connection, calls, latest, missed, faults>>

\* The last thing seen is kept.
SummaryFails ==
  /\ MayFail /\ Fetching(tab)
  /\ tab' = [tab EXCEPT !.fetch = NoFetch]
  /\ missed' = version /\ faults' = faults + 1
  /\ UNCHANGED <<server, connection, calls, latest, received>>

-----------------------------------------------------------------------------
(* Marking as read                                                         *)

Mark(m) ==
  /\ calls[m].at = "libre" /\ version < MaxVersion
  /\ calls' = [calls EXCEPT ![m].at = "asked"]
  /\ latest' = m
  /\ tab' = Discarding(tab)
  /\ UNCHANGED <<server, connection, history>>

\* The update commits by itself; when it marks nothing there is nothing to publish.
WriteRead(m) ==
  /\ calls[m].at = "asked"
  /\ \/ /\ version < MaxVersion
        /\ version' = version + 1
        /\ calls' = [calls EXCEPT ![m].at = "written"]
     \/ /\ calls' = [calls EXCEPT ![m].at = "published"]
        /\ UNCHANGED version
  /\ UNCHANGED <<listening, chain, connection, tab, latest, history>>

\* The person's other tabs and devices count again.
PublishRead(m) ==
  /\ calls[m].at = "written"
  /\ chain' = Published("u")
  /\ calls' = [calls EXCEPT ![m].at = "published"]
  /\ UNCHANGED <<version, listening, connection, tab, latest, history>>

CountRead(m) ==
  /\ calls[m].at = "published"
  /\ calls' = [calls EXCEPT ![m] = [at |-> "answered", counts |-> version]]
  /\ UNCHANGED <<server, connection, tab, latest, history>>

\* Of two calls in flight only the later one's counts are shown.
IsLatest(m) == latest = m

FinishMark(m) ==
  /\ calls[m].at = "answered"
  /\ tab' = IF IsLatest(m) THEN [Discarding(tab) EXCEPT !.shown = calls[m].counts]
            ELSE Discarding(tab)
  /\ Told(calls[m].counts)
  /\ calls' = [calls EXCEPT ![m] = Done]
  /\ UNCHANGED <<server, connection, latest, missed, faults>>

\* The failure is only swallowed.
MarkFailsQuietly(m) ==
  /\ MayFail /\ Waiting(m)
  /\ calls' = [calls EXCEPT ![m] = Done]
  /\ faults' = faults + 1
  /\ UNCHANGED <<server, connection, tab, latest, received, missed>>

\* The call or its answer is lost, or its server dies: the tab asks for a summary.
MarkFails(m) ==
  /\ MayFail /\ Waiting(m)
  /\ calls' = [calls EXCEPT ![m] = Done]
  /\ tab' = Refreshed(tab)
  /\ faults' = faults + 1
  /\ UNCHANGED <<server, connection, latest, received, missed>>

-----------------------------------------------------------------------------

\* The tab has its first summary, which is what lets it connect.
Init ==
  /\ version = 0 /\ listening \in BOOLEAN /\ chain = <<>>
  /\ stream = "none" /\ greeting = 0 /\ wire = <<>>
  /\ tab = [live |-> FALSE, shown |-> 0, fetch |-> NoFetch, timer |-> FALSE,
            resumable |-> FALSE]
  /\ calls = [m \in Marks |-> NoCall] /\ latest = "ninguna"
  /\ received = 0 /\ missed = 0 /\ faults = 0

HubStep == \E i \in DOMAIN chain : Load(i) \/ Send(i)
StreamStep == CountForHello \/ Hello \/ Resume
MarkStep(m) == WriteRead(m) \/ PublishRead(m) \/ CountRead(m) \/ FinishMark(m)

Next ==
  \/ RecordNotice \/ LoseListener \/ Reconnect
  \/ HubStep \/ \E i \in DOMAIN chain : LoadFails(i)
  \/ Connect \/ StreamStep \/ Break
  \/ Receive \/ FallBack \/ Poll \/ ListTimer
  \/ ReadSummary \/ FinishSummary \/ SummaryFails
  \/ \E m \in Marks : Mark(m) \/ MarkStep(m) \/ MarkFails(m)

\* Timers fire, connections that break are opened again and what is awaited ends.  Nobody
\* has to write or mark anything, and nothing has to fail.
Fairness ==
  /\ WF_vars(Reconnect) /\ WF_vars(HubStep)
  /\ WF_vars(Connect) /\ WF_vars(StreamStep)
  /\ WF_vars(Receive) /\ WF_vars(Poll) /\ WF_vars(ListTimer)
  /\ WF_vars(ReadSummary) /\ WF_vars(FinishSummary)
  /\ \A m \in Marks : WF_vars(MarkStep(m))

Spec == Init /\ [][Next]_vars /\ Fairness

-----------------------------------------------------------------------------
(* Properties                                                              *)

\* The deliveries of one person never overtake one another: on a connection, no event of the
\* hub carries older counts than the one before it (hub.ts, "un contador viejo nunca pisa a
\* uno nuevo").
HubInOrder ==
  \A j \in DOMAIN wire : \A i \in 1..j : wire[i].hub /\ wire[j].hub => wire[i].counts <= wire[j].counts

\* Nothing is under way anywhere and the channel is live.
Quiet ==
  /\ chain = <<>> /\ wire = <<>> /\ listening /\ stream = "open"
  /\ ~Fetching(tab) /\ ~tab.timer
  /\ \A m \in Marks : ~Waiting(m)

\* Whatever broke on the way, a tab at rest knows the inbox as it is: lost signals are made
\* up for by the resync, a lost stream by the hello, a discarded summary by another.  The
\* exceptions are a read that failed, which nobody repeats, and the newer counts that the tab
\* was told and replaced by older ones: those of a resumption, of an answer that took longer,
\* or of a delivery that was under way when the listener was lost.
NothingOwed == Quiet => tab.shown = version \/ tab.shown < received \/ received < missed

\* A change is never left untold for good: sooner or later the tab shows the inbox as it is,
\* or was told and did not keep it, or a read failed.
CounterSettles ==
  <>[](tab.shown = version \/ tab.shown < received \/ received < missed)

=============================================================================
