-------------------------- MODULE InboxFeed_proofs --------------------------
(***************************************************************************)
(* That the counter of a tab at rest is the inbox's, and that the hub's    *)
(* events arrive in order, for any number of commits, of calls that mark   *)
(* as read and of faults.                                                  *)
(*                                                                         *)
(* What makes it true is that news is always owed: from the commit on,     *)
(* there is somewhere a link, an event, a summary, a timer, a call or a    *)
(* connection to come that will tell the tab a version as new as it.  The  *)
(* debt ends only when the tab is told, or when a read fails.              *)
(***************************************************************************)
EXTENDS InboxFeed, SequenceTheorems, TLAPS

\* Who will tell the tab of the latest version: the chain, an event, the tab's own summary
\* or timer, a call, or the connection to come.
ChainOwes ==
  \E i \in DOMAIN chain : ~chain[i].loaded \/ (chain[i].target /\ chain[i].counts = version)
WireOwes ==
  \E i \in DOMAIN wire : wire[i].event \in {"hello", "resync"} \/ wire[i].counts = version
TabOwes ==
  tab.timer \/ tab.fetch.at = "asked" \/ (tab.fetch.at = "read" /\ tab.fetch.counts = version)
CallOwes(m) ==
  \/ calls[m].at \in {"asked", "written", "published"}
  \/ calls[m].at = "answered" /\ calls[m].counts = version
ConnectionOwes == ~listening \/ stream \in {"none", "registered", "counted"}

Owed == ConnectionOwes \/ ChainOwes \/ WireOwes \/ TabOwes \/ \E m \in Marks : CallOwes(m)

ToldOrOwed == received = version \/ missed = version \/ Owed

\* No count is of a version to come, and the tab shows none it was not told.
ChainFresh == \A i \in DOMAIN chain : chain[i].counts <= version
WireFresh == \A i \in DOMAIN wire : wire[i].counts <= version
TabFresh == tab.fetch.counts <= version /\ tab.shown <= received
CallsFresh == \A m \in Marks : calls[m].counts <= version

\* Only the head of the chain has been read, and later than anything the hub has written.
HeadOnly == \A i \in DOMAIN chain : chain[i].loaded => i = 1
HeadNewest ==
  \A i \in DOMAIN chain, j \in DOMAIN wire :
    chain[i].loaded /\ chain[i].target /\ wire[j].hub => wire[j].counts <= chain[i].counts

FeedInv ==
  /\ FeedTypeOK
  /\ ChainFresh /\ WireFresh /\ TabFresh /\ CallsFresh
  /\ HeadOnly /\ HeadNewest /\ HubInOrder
  /\ ToldOrOwed

-----------------------------------------------------------------------------
(* Sequences.                                                              *)

\* A sequence with one more element.
LEMMA Longer ==
  ASSUME NEW S, NEW s \in Seq(S), NEW x \in S
  PROVE  /\ Append(s, x) \in Seq(S)
         /\ DOMAIN s \subseteq DOMAIN Append(s, x)
         /\ \A i \in DOMAIN s : Append(s, x)[i] = s[i]
         /\ \A i \in DOMAIN Append(s, x) : i \in DOMAIN s \/ (i = Len(s) + 1 /\ Append(s, x)[i] = x)
         /\ Len(s) + 1 \in DOMAIN Append(s, x) /\ Append(s, x)[Len(s) + 1] = x
         /\ \A i \in DOMAIN s : i \in Nat \ {0} /\ i < Len(s) + 1
  BY SMT

\* A sequence without its head.
LEMMA Shorter ==
  ASSUME NEW S, NEW s \in Seq(S), s # <<>>
  PROVE  /\ Tail(s) \in Seq(S) /\ Head(s) \in S /\ Head(s) = s[1] /\ 1 \in DOMAIN s
         /\ \A i \in DOMAIN Tail(s) : i + 1 \in DOMAIN s /\ Tail(s)[i] = s[i + 1] /\ i \in Nat \ {0}
         /\ \A i \in DOMAIN s : i # 1 => i - 1 \in DOMAIN Tail(s) /\ Tail(s)[i - 1] = s[i]
  BY SMT

\* Dropping the delivery whose turn it is.
LEMMA WithoutHead ==
  ASSUME NEW S, NEW s \in Seq(S), s # <<>>
  PROVE  Without(s, 1) = Tail(s)
  <1>1. Len(s) \in Nat \ {0}
    BY SMT
  <1>2. /\ SubSeq(s, 1, 0) = <<>>
        /\ SubSeq(s, 2, Len(s)) = Tail(s)
    BY <1>1, SMT
  <1>3. Without(s, 1) = <<>> \o Tail(s)
    <2>1. 1 - 1 = 0 /\ 1 + 1 = 2
      BY SMT
    <2>. QED  BY <1>2, <2>1 DEF Without
  <1>. QED  BY <1>3, Shorter, ConcatEmptySeq
-----------------------------------------------------------------------------
(* The parts of the state.                                                 *)

LEMMA Bounds ==
  ASSUME FeedTypeOK
  PROVE  /\ MaxVersion \in Nat /\ MaxFaults \in Nat
         /\ version \in Nat /\ version <= MaxVersion /\ greeting \in Nat /\ greeting <= version
         /\ received \in Nat /\ received <= version /\ missed \in Nat /\ missed <= version
         /\ faults \in Nat /\ faults <= MaxFaults
  BY InboxFeedAssumption, SMT DEF FeedTypeOK, Versions

\* What a tab is.
TabType == [live : BOOLEAN, shown : 0..version,
            fetch : Fetches, timer : BOOLEAN, resumable : BOOLEAN]

LEMMA TabTyped ==
  ASSUME FeedTypeOK
  PROVE  /\ tab.live \in BOOLEAN /\ tab.shown \in 0..version /\ tab.fetch \in Fetches
         /\ tab.timer \in BOOLEAN /\ tab.resumable \in BOOLEAN
         /\ tab.fetch.at \in {"libre", "asked", "read"} /\ tab.fetch.counts \in Versions
         /\ tab.fetch.keep \in BOOLEAN
  BY SMT DEF FeedTypeOK, Fetches

LEMMA CallTyped ==
  ASSUME FeedTypeOK, NEW m \in Marks
  PROVE  /\ calls[m] \in Calls /\ calls[m].counts \in Versions /\ calls[m].counts \in Nat
         /\ calls[m].at \in {"libre", "asked", "written", "published", "answered", "done"}
  <1>1. calls[m] \in Calls
    BY DEF FeedTypeOK
  <1>2. \A n \in Versions : n \in Nat
    BY SMT DEF Versions
  <1>3. /\ calls[m].counts \in Versions
        /\ calls[m].at \in {"libre", "asked", "written", "published", "answered", "done"}
    BY <1>1, SMT DEF Calls
  <1>. QED  BY <1>1, <1>2, <1>3

\* A step of the tab or of its calls that leaves the server and the connection alone.
LEMMA TabStep ==
  ASSUME FeedInv, UNCHANGED <<version, listening, chain, stream, wire>>,
         tab' \in TabType, calls' \in [Marks -> Calls], latest' \in Marks \cup {"ninguna"},
         received' \in 0..version, missed' \in 0..version, faults' \in 0..MaxFaults,
         greeting' \in 0..version,
         tab'.fetch.counts <= version, tab'.shown <= received',
         \A m \in Marks : calls'[m].counts <= version,
         received = version \/ missed = version \/ TabOwes \/ (\E m \in Marks : CallOwes(m))
           => received' = version \/ missed' = version \/ TabOwes' \/ (\E m \in Marks : CallOwes(m)')
  PROVE  FeedInv'
  <1>1. FeedTypeOK'
    BY SMT DEF FeedInv, FeedTypeOK, TabType
  <1>2. ChainFresh' /\ WireFresh' /\ TabFresh' /\ CallsFresh'
    BY DEF FeedInv, ChainFresh, WireFresh, TabFresh, CallsFresh
  <1>3. HeadOnly' /\ HeadNewest' /\ HubInOrder'
    BY DEF FeedInv, HeadOnly, HeadNewest, HubInOrder
  <1>4. /\ ConnectionOwes' <=> ConnectionOwes
        /\ ChainOwes' <=> ChainOwes
        /\ WireOwes' <=> WireOwes
    BY DEF ConnectionOwes, ChainOwes, WireOwes
  <1>5. ToldOrOwed'
    BY <1>4 DEF FeedInv, ToldOrOwed, Owed
  <1>. QED  BY <1>1, <1>2, <1>3, <1>5 DEF FeedInv

\* One field of a tab is changed.
LEMMA LiveSet ==
  ASSUME NEW t \in TabType, NEW x \in BOOLEAN, NEW u, u = [t EXCEPT !.live = x]
  PROVE  /\ u \in TabType /\ u.live = x
         /\ u.shown = t.shown /\ u.fetch = t.fetch /\ u.timer = t.timer /\ u.resumable = t.resumable
  BY SMT DEF TabType

LEMMA ShownSet ==
  ASSUME NEW t \in TabType, NEW x \in 0..version, NEW u, u = [t EXCEPT !.shown = x]
  PROVE  /\ u \in TabType /\ u.shown = x
         /\ u.live = t.live /\ u.fetch = t.fetch /\ u.timer = t.timer /\ u.resumable = t.resumable
  BY SMT DEF TabType

LEMMA FetchSet ==
  ASSUME NEW t \in TabType, NEW x \in Fetches, NEW u, u = [t EXCEPT !.fetch = x]
  PROVE  /\ u \in TabType /\ u.fetch = x
         /\ u.live = t.live /\ u.shown = t.shown /\ u.timer = t.timer /\ u.resumable = t.resumable
  BY SMT DEF TabType

LEMMA TimerSet ==
  ASSUME NEW t \in TabType, NEW x \in BOOLEAN, NEW u, u = [t EXCEPT !.timer = x]
  PROVE  /\ u \in TabType /\ u.timer = x
         /\ u.live = t.live /\ u.shown = t.shown /\ u.fetch = t.fetch /\ u.resumable = t.resumable
  BY SMT DEF TabType

LEMMA ResumableSet ==
  ASSUME NEW t \in TabType, NEW x \in BOOLEAN, NEW u, u = [t EXCEPT !.resumable = x]
  PROVE  /\ u \in TabType /\ u.resumable = x
         /\ u.live = t.live /\ u.shown = t.shown /\ u.fetch = t.fetch /\ u.timer = t.timer
  BY SMT DEF TabType

\* The two summaries that carry no counts: the one just asked for, and none.
LEMMA FixedFetches ==
  /\ Asked \in Fetches /\ Asked.at = "asked" /\ Asked.counts = 0
  /\ NoFetch \in Fetches /\ NoFetch.at = "libre" /\ NoFetch.counts = 0
  <1>1. NoFetch \in Fetches /\ NoFetch.at = "libre" /\ NoFetch.counts = 0
    BY InboxFeedAssumption, SMT DEF NoFetch, Fetches, Versions
  <1>2. Asked.at = "asked" /\ Asked.counts = 0
    BY SMT DEF Asked, NoFetch
  <1>3. Asked \in Fetches
    <2>1. \A f \in Fetches, w \in {"libre", "asked", "read"} : [f EXCEPT !.at = w] \in Fetches
      BY SMT DEF Fetches
    <2>2. "asked" \in {"libre", "asked", "read"}
      OBVIOUS
    <2>. QED  BY <1>1, <2>1, <2>2 DEF Asked
  <1>. QED  BY <1>1, <1>2, <1>3

\* Of two counts the newest is one of them, and no older than either.
LEMMA NewestOfTwo ==
  ASSUME NEW a \in Nat, NEW b \in Nat
  PROVE  /\ Newest(a, b) \in Nat /\ a <= Newest(a, b) /\ b <= Newest(a, b)
         /\ \A n \in Nat : a <= n /\ b <= n => Newest(a, b) <= n
  BY SMT DEF Newest

\* The tab's own steps.
LEMMA TabAsks ==
  ASSUME FeedInv, FallBack \/ Poll \/ ListTimer \/ ReadSummary \/ SummaryFails
  PROVE  FeedInv'
  <1>. USE DEF FeedInv
  <1>1. /\ UNCHANGED <<version, listening, chain, stream, wire, greeting, calls, latest, received>>
        /\ UNCHANGED <<missed, faults>> \/ (missed' = version /\ faults < MaxFaults /\ faults' = faults + 1)
    BY DEF FallBack, Poll, ListTimer, ReadSummary, SummaryFails, MayFail, server, connection, history
  <1>2. \/ tab' = [tab EXCEPT !.live = FALSE, !.resumable = FALSE]
        \/ tab' = [tab EXCEPT !.fetch = Asked]
        \/ tab' = [[tab EXCEPT !.fetch = Asked] EXCEPT !.timer = FALSE]
        \/ tab.fetch.at = "asked" /\ tab' = [tab EXCEPT !.fetch.at = "read", !.fetch.counts = version]
        \/ missed' = version /\ tab' = [tab EXCEPT !.fetch = NoFetch]
    BY DEF FallBack, Poll, ListTimer, ReadSummary, SummaryFails, Refreshed
  <1>3. tab \in TabType
    BY DEF FeedTypeOK, TabType
  <1>5. /\ tab' \in TabType /\ tab'.shown = tab.shown
        /\ tab'.fetch.counts \in {0, version, tab.fetch.counts}
        /\ TabOwes => TabOwes' \/ missed' = version
    <2>1. CASE tab' = [tab EXCEPT !.live = FALSE, !.resumable = FALSE]
      <3>1. PICK u : u = [tab EXCEPT !.live = FALSE]
        OBVIOUS
      <3>2. tab' = [u EXCEPT !.resumable = FALSE]
        BY <2>1, <3>1
      <3>3. /\ tab' \in TabType /\ tab'.shown = tab.shown
            /\ tab'.fetch = tab.fetch /\ tab'.timer = tab.timer
        <4>1. FALSE \in BOOLEAN
          OBVIOUS
        <4>2. /\ u \in TabType /\ u.shown = tab.shown
              /\ u.fetch = tab.fetch /\ u.timer = tab.timer
          BY <1>3, <3>1, <4>1, LiveSet
        <4>3. tab' \in TabType /\ tab'.shown = u.shown /\ tab'.fetch = u.fetch /\ tab'.timer = u.timer
          BY <3>2, <4>1, <4>2, ResumableSet
        <4>. QED  BY <4>2, <4>3
      <3>. QED  BY <1>1, <3>3, Zenon DEF TabOwes
    <2>2. CASE tab' = [tab EXCEPT !.fetch = Asked]
      BY <1>3, <2>2, FixedFetches, FetchSet DEF TabOwes
    <2>3. CASE tab' = [[tab EXCEPT !.fetch = Asked] EXCEPT !.timer = FALSE]
      <3>1. PICK u : u = [tab EXCEPT !.fetch = Asked]
        OBVIOUS
      <3>2. tab' \in TabType /\ tab'.shown = tab.shown /\ tab'.fetch = Asked
        <4>1. u \in TabType /\ u.shown = tab.shown /\ u.fetch = Asked
          BY <1>3, <3>1, FixedFetches, FetchSet
        <4>2. FALSE \in BOOLEAN /\ tab' = [u EXCEPT !.timer = FALSE]
          BY <2>3, <3>1
        <4>3. tab' \in TabType /\ tab'.shown = u.shown /\ tab'.fetch = u.fetch
          BY <4>1, <4>2, TimerSet
        <4>. QED  BY <4>1, <4>3
      <3>. QED  BY <3>2, FixedFetches DEF TabOwes
    <2>4. CASE tab.fetch.at = "asked" /\ tab' = [tab EXCEPT !.fetch.at = "read", !.fetch.counts = version]
      <3>. DEFINE f == [tab.fetch EXCEPT !.at = "read", !.counts = version]
      <3>1. f \in Fetches /\ f.at = "read" /\ f.counts = version
        <4>1. PICK g : g = [tab.fetch EXCEPT !.at = "read"]
          OBVIOUS
        <4>2. g \in Fetches /\ g.at = "read"
          <5>1. "read" \in {"libre", "asked", "read"}
            OBVIOUS
          <5>2. \A w \in {"libre", "asked", "read"}, f0 \in Fetches :
                  [f0 EXCEPT !.at = w] \in Fetches /\ [f0 EXCEPT !.at = w].at = w
            BY SMT DEF Fetches
          <5>. QED  BY <4>1, <5>1, <5>2, TabTyped
        <4>3. version \in Versions
          BY Bounds, SMT DEF Versions
        <4>4. \A v \in Versions :
                [g EXCEPT !.counts = v] \in Fetches /\ [g EXCEPT !.counts = v].counts = v
                /\ [g EXCEPT !.counts = v].at = g.at
          BY <4>2, SMT DEF Fetches
        <4>5. f = [g EXCEPT !.counts = version]
          BY <4>1
        <4>. QED  BY <4>2, <4>3, <4>4, <4>5
      <3>2. tab' = [tab EXCEPT !.fetch = f]
        BY <2>4
      <3>3. tab' \in TabType /\ tab'.shown = tab.shown /\ tab'.fetch = f
        <4>. HIDE DEF f
        <4>. QED  BY <1>3, <3>1, <3>2, FetchSet
      <3>. QED  BY <1>1, <3>1, <3>3 DEF TabOwes
    <2>5. CASE missed' = version /\ tab' = [tab EXCEPT !.fetch = NoFetch]
      BY <1>3, <2>5, FixedFetches, FetchSet
    <2>. QED  BY <1>2, <2>1, <2>2, <2>3, <2>4, <2>5
  <1>6. tab'.fetch.counts <= version /\ tab'.shown <= received'
    BY <1>1, <1>5, Bounds, SMT DEF TabFresh
  <1>7. missed' \in 0..version /\ faults' \in 0..MaxFaults /\ (missed = version => missed' = version)
    BY <1>1, Bounds, SMT
  <1>8. \A m \in Marks : (CallOwes(m) => CallOwes(m)') /\ calls'[m].counts <= version
    BY <1>1 DEF CallOwes, CallsFresh
  <1>9. /\ calls' \in [Marks -> Calls] /\ latest' \in Marks \cup {"ninguna"}
        /\ received' \in 0..version /\ greeting' \in 0..version
    BY <1>1 DEF FeedTypeOK
  <1>. QED  BY <1>1, <1>5, <1>6, <1>7, <1>8, <1>9, TabStep

\* What the tab is told is as new as the answer.
LEMMA TellsNewest ==
  ASSUME FeedInv, NEW n \in Nat, n <= version, Told(n), UNCHANGED version
  PROVE  /\ received' \in 0..version /\ n <= received' /\ received <= received'
         /\ n = version \/ received = version => received' = version
  <1>1. /\ received' = Newest(received, n) /\ version \in Nat
        /\ received \in Nat /\ received <= version
    BY Bounds DEF FeedInv, Told
  <1>2. received' \in Nat /\ received <= received' /\ n <= received' /\ received' <= version
    BY <1>1, NewestOfTwo
  <1>. QED  BY <1>1, <1>2, SMT

LEMMA SummaryEnds ==
  ASSUME FeedInv, FinishSummary
  PROVE  FeedInv'
  <1>. USE DEF FeedInv
  <1>. DEFINE n == tab.fetch.counts
  <1>1. /\ UNCHANGED <<version, listening, chain, stream, wire, greeting, calls, latest, missed, faults>>
        /\ tab.fetch.at = "read" /\ Told(n)
        /\ tab' = [tab EXCEPT !.fetch = NoFetch, !.shown = IF tab.fetch.keep THEN n ELSE @]
    BY DEF FinishSummary, server, connection
  <1>2. n \in Nat /\ n <= version
    BY TabTyped, Bounds, SMT DEF TabFresh, Versions
  <1>3. /\ received' \in 0..version /\ n <= received' /\ received <= received'
        /\ n = version \/ received = version => received' = version
    BY <1>1, <1>2, TellsNewest
  <1>5. /\ tab' \in TabType /\ tab'.fetch = NoFetch /\ tab'.shown \in {n, tab.shown}
        /\ tab'.timer = tab.timer
    <2>1. PICK k \in {n, tab.shown} : tab' = [tab EXCEPT !.fetch = NoFetch, !.shown = k]
      <3>1. CASE tab.fetch.keep
        BY <1>1, <3>1
      <3>2. CASE ~tab.fetch.keep
        BY <1>1, <3>2
      <3>. QED  BY <3>1, <3>2
    <2>2. k \in 0..version
      BY <1>2, <2>1, TabTyped, Bounds, SMT
    <2>3. tab \in TabType
      BY DEF FeedTypeOK, TabType
    <2>. HIDE DEF n
    <2>4. PICK u : u = [tab EXCEPT !.fetch = NoFetch]
      OBVIOUS
    <2>5. tab' = [u EXCEPT !.shown = k]
      BY <2>1, <2>4
    <2>6. u \in TabType /\ u.fetch = NoFetch /\ u.timer = tab.timer
      BY <2>3, <2>4, FixedFetches, FetchSet
    <2>7. tab' \in TabType /\ tab'.fetch = u.fetch /\ tab'.shown = k /\ tab'.timer = u.timer
      BY <2>2, <2>5, <2>6, ShownSet
    <2>. QED  BY <2>1, <2>6, <2>7
  <1>6. tab'.shown <= received'
    BY <1>2, <1>3, <1>5, TabTyped, Bounds, SMT DEF TabFresh
  <1>7. TabOwes => TabOwes' \/ received' = version
    BY <1>1, <1>3, <1>5 DEF TabOwes
  <1>8. \A m \in Marks : (CallOwes(m) => CallOwes(m)') /\ calls'[m].counts <= version
    BY <1>1 DEF CallOwes, CallsFresh
  <1>9. /\ calls' \in [Marks -> Calls] /\ latest' \in Marks \cup {"ninguna"}
        /\ missed' \in 0..version /\ faults' \in 0..MaxFaults /\ greeting' \in 0..version
    BY <1>1 DEF FeedTypeOK
  <1>10. tab'.fetch.counts <= version
    BY <1>5, FixedFetches, Bounds, SMT
  <1>. QED  BY <1>1, <1>3, <1>5, <1>6, <1>7, <1>8, <1>9, <1>10, TabStep
-----------------------------------------------------------------------------
(* The calls that mark as read.                                            *)

\* What discards a summary on its way leaves the tab otherwise as it was.
LEMMA DiscardingKeeps ==
  ASSUME FeedTypeOK, NEW t \in TabType
  PROVE  /\ Discarding(t) \in TabType /\ Discarding(t).shown = t.shown
         /\ Discarding(t).timer = t.timer
         /\ Discarding(t).fetch.at = t.fetch.at /\ Discarding(t).fetch.counts = t.fetch.counts
  <1>1. CASE t.fetch.at = "libre"
    BY <1>1 DEF Discarding
  <1>2. CASE t.fetch.at # "libre"
    <2>1. PICK f : f = [t.fetch EXCEPT !.keep = FALSE]
      OBVIOUS
    <2>2. t.fetch \in Fetches /\ FALSE \in BOOLEAN
      BY SMT DEF TabType
    <2>3. \A g \in Fetches, b \in BOOLEAN :
            /\ [g EXCEPT !.keep = b] \in Fetches
            /\ [g EXCEPT !.keep = b].at = g.at /\ [g EXCEPT !.keep = b].counts = g.counts
      BY SMT DEF Fetches
    <2>4. f \in Fetches /\ f.at = t.fetch.at /\ f.counts = t.fetch.counts
      BY <2>1, <2>2, <2>3, Zenon
    <2>5. PICK u : u = [t EXCEPT !.fetch = f]
      OBVIOUS
    <2>6. Discarding(t) = u
      BY <1>2, <2>1, <2>5 DEF Discarding
    <2>7. u \in TabType /\ u.fetch = f /\ u.shown = t.shown /\ u.timer = t.timer
      BY <2>4, <2>5, FetchSet
    <2>. QED  BY <2>4, <2>6, <2>7
  <1>. QED  BY <1>1, <1>2

\* One call is changed.
LEMMA CallSet ==
  ASSUME FeedTypeOK, NEW m \in Marks, NEW c \in Calls, calls' = [calls EXCEPT ![m] = c]
  PROVE  /\ calls' \in [Marks -> Calls] /\ calls'[m] = c
         /\ \A n \in Marks : n # m => calls'[n] = calls[n]
  BY DEF FeedTypeOK

\* The stages of a call.
LEMMA StageSet ==
  ASSUME FeedTypeOK, NEW m \in Marks,
         NEW s \in {"libre", "asked", "written", "published", "answered", "done"},
         calls' = [calls EXCEPT ![m].at = s]
  PROVE  /\ calls' \in [Marks -> Calls] /\ calls'[m].at = s /\ calls'[m].counts = calls[m].counts
         /\ \A n \in Marks : n # m => calls'[n] = calls[n]
  <1>1. PICK c : c = [calls[m] EXCEPT !.at = s]
    OBVIOUS
  <1>2. c \in Calls /\ c.at = s /\ c.counts = calls[m].counts
    BY <1>1, CallTyped, SMT DEF Calls
  <1>3. calls' = [calls EXCEPT ![m] = c]
    BY <1>1
  <1>. QED  BY <1>2, <1>3, CallSet

LEMMA FixedCalls ==
  /\ Done \in Calls /\ Done.at = "done" /\ Done.counts = 0
  /\ NoCall \in Calls /\ NoCall.at = "libre" /\ NoCall.counts = 0
  /\ \A v \in Versions : [at |-> "answered", counts |-> v] \in Calls
  BY InboxFeedAssumption, SMT DEF Done, NoCall, Calls, Versions

\* The tab asks to mark as read.
LEMMA MarkBegins ==
  ASSUME FeedInv, NEW m \in Marks, Mark(m)
  PROVE  FeedInv'
  <1>1. /\ UNCHANGED <<version, listening, chain, stream, wire, greeting, received, missed, faults>>
        /\ tab' = Discarding(tab) /\ latest' = m
        /\ calls' = [calls EXCEPT ![m].at = "asked"]
    BY DEF Mark, server, connection, history
  <1>2. /\ calls' \in [Marks -> Calls] /\ calls'[m].at = "asked" /\ calls'[m].counts = calls[m].counts
        /\ \A n \in Marks : n # m => calls'[n] = calls[n]
    BY <1>1, StageSet DEF FeedInv
  <1>3. /\ tab' \in TabType /\ tab'.shown = tab.shown
        /\ tab'.fetch.counts = tab.fetch.counts
    <2>1. tab \in TabType
      BY DEF FeedInv, FeedTypeOK, TabType
    <2>. QED  BY <1>1, <2>1, DiscardingKeeps DEF FeedInv
  <1>4. tab'.fetch.counts <= version /\ tab'.shown <= received'
    BY <1>1, <1>3 DEF FeedInv, TabFresh
  <1>5. \A n \in Marks : calls'[n].counts <= version
    BY <1>2 DEF FeedInv, CallsFresh
  <1>6. CallOwes(m)'
    BY <1>2 DEF CallOwes
  <1>7. /\ latest' \in Marks \cup {"ninguna"} /\ greeting' \in 0..version
        /\ received' \in 0..version /\ missed' \in 0..version /\ faults' \in 0..MaxFaults
    BY <1>1 DEF FeedInv, FeedTypeOK
  <1>. QED  BY <1>1, <1>2, <1>3, <1>4, <1>5, <1>6, <1>7, TabStep

\* The answer is counted.
LEMMA AnswerIsCounted ==
  ASSUME FeedInv, NEW m \in Marks, CountRead(m)
  PROVE  FeedInv'
  <1>1. /\ UNCHANGED <<version, listening, chain, stream, wire, greeting, tab, latest, received, missed, faults>>
        /\ calls' = [calls EXCEPT ![m] = [at |-> "answered", counts |-> version]]
    BY DEF CountRead, server, connection, history
  <1>2. version \in Versions /\ version \in Nat
    BY Bounds, SMT DEF FeedInv, Versions
  <1>3. PICK c \in Calls : c.at = "answered" /\ c.counts = version /\ calls' = [calls EXCEPT ![m] = c]
    BY <1>1, <1>2, FixedCalls
  <1>4. /\ calls' \in [Marks -> Calls] /\ calls'[m] = c
        /\ \A n \in Marks : n # m => calls'[n] = calls[n]
    BY <1>3, CallSet DEF FeedInv
  <1>5. \A n \in Marks : calls'[n].counts <= version
    <2>1. c.counts <= version
      BY <1>2, <1>3, SMT
    <2>. QED  BY <1>4, <2>1 DEF FeedInv, CallsFresh
  <1>6. CallOwes(m)'
    BY <1>1, <1>3, <1>4 DEF CallOwes
  <1>7. /\ tab' \in TabType /\ tab'.fetch.counts <= version /\ tab'.shown <= received'
    BY <1>1 DEF FeedInv, FeedTypeOK, TabType, TabFresh
  <1>8. /\ latest' \in Marks \cup {"ninguna"} /\ greeting' \in 0..version
        /\ received' \in 0..version /\ missed' \in 0..version /\ faults' \in 0..MaxFaults
    BY <1>1 DEF FeedInv, FeedTypeOK
  <1>. QED  BY <1>1, <1>4, <1>5, <1>6, <1>7, <1>8, TabStep

\* The answer arrives.
LEMMA AnswerArrives ==
  ASSUME FeedInv, NEW m \in Marks, FinishMark(m)
  PROVE  FeedInv'
  <1>. DEFINE n == calls[m].counts
  <1>1. /\ UNCHANGED <<version, listening, chain, stream, wire, greeting, latest, missed, faults>>
        /\ calls[m].at = "answered" /\ Told(n) /\ calls' = [calls EXCEPT ![m] = Done]
        /\ tab' = IF IsLatest(m) THEN [Discarding(tab) EXCEPT !.shown = n] ELSE Discarding(tab)
    BY DEF FinishMark, server, connection
  <1>2. n \in Nat /\ n <= version
    BY CallTyped, Bounds, SMT DEF FeedInv, CallsFresh, Versions
  <1>3. /\ received' \in 0..version /\ n <= received' /\ received <= received'
        /\ n = version \/ received = version => received' = version
    BY <1>1, <1>2, TellsNewest
  <1>4. /\ calls' \in [Marks -> Calls] /\ calls'[m] = Done
        /\ \A k \in Marks : k # m => calls'[k] = calls[k]
    BY <1>1, FixedCalls, CallSet DEF FeedInv
  <1>5. \A k \in Marks : calls'[k].counts <= version
    <2>1. Done.counts <= version
      BY FixedCalls, Bounds, SMT DEF FeedInv
    <2>. QED  BY <1>4, <2>1 DEF FeedInv, CallsFresh
  <1>6. /\ tab' \in TabType /\ tab'.shown \in {n, tab.shown} /\ tab'.timer = tab.timer
        /\ tab'.fetch.at = tab.fetch.at /\ tab'.fetch.counts = tab.fetch.counts
    <2>1. PICK u : u = Discarding(tab)
      OBVIOUS
    <2>2. /\ u \in TabType /\ u.shown = tab.shown /\ u.timer = tab.timer
          /\ u.fetch.at = tab.fetch.at /\ u.fetch.counts = tab.fetch.counts
      <3>1. tab \in TabType
        BY DEF FeedInv, FeedTypeOK, TabType
      <3>. QED  BY <2>1, <3>1, DiscardingKeeps DEF FeedInv
    <2>3. CASE ~IsLatest(m)
      <3>1. tab' = u
        BY <1>1, <2>1, <2>3
      <3>. QED  BY <2>2, <3>1
    <2>4. CASE IsLatest(m)
      <3>. HIDE DEF n
      <3>1. tab' = [u EXCEPT !.shown = n]
        BY <1>1, <2>1, <2>4
      <3>2. n \in 0..version
        BY <1>2, Bounds, SMT DEF FeedInv
      <3>3. tab' \in TabType /\ tab'.shown = n /\ tab'.timer = u.timer /\ tab'.fetch = u.fetch
        BY <2>2, <3>1, <3>2, ShownSet
      <3>. QED  BY <2>2, <3>3
    <2>. QED  BY <2>3, <2>4
  <1>7. tab'.fetch.counts <= version /\ tab'.shown <= received'
    <2>1. tab.fetch.counts <= version /\ tab.shown <= received /\ tab.shown \in Nat
      BY TabTyped, Bounds, SMT DEF FeedInv, TabFresh
    <2>2. received \in Nat /\ received' \in Nat
      BY <1>3, Bounds, SMT DEF FeedInv
    <2>3. tab.shown <= received'
      BY <1>3, <2>1, <2>2, SMT
    <2>. QED  BY <1>3, <1>6, <2>1, <2>3
  <1>8. received = version \/ missed = version \/ TabOwes \/ (\E k \in Marks : CallOwes(k))
          => received' = version \/ missed' = version \/ TabOwes' \/ (\E k \in Marks : CallOwes(k)')
    <2>1. TabOwes => TabOwes'
      BY <1>1, <1>6 DEF TabOwes
    <2>2. ASSUME NEW k \in Marks, CallOwes(k)  PROVE  CallOwes(k)' \/ received' = version
      <3>1. CASE k = m
        BY <1>1, <1>3, <2>2, <3>1 DEF CallOwes
      <3>2. CASE k # m
        BY <1>1, <1>4, <2>2, <3>2 DEF CallOwes
      <3>. QED  BY <3>1, <3>2
    <2>. QED  BY <1>1, <1>3, <2>1, <2>2
  <1>9. /\ latest' \in Marks \cup {"ninguna"} /\ greeting' \in 0..version
        /\ missed' \in 0..version /\ faults' \in 0..MaxFaults
    BY <1>1 DEF FeedInv, FeedTypeOK
  <1>. QED  BY <1>1, <1>3, <1>4, <1>5, <1>6, <1>7, <1>8, <1>9, TabStep

\* The call fails, and the tab asks.
LEMMA CallFails ==
  ASSUME FeedInv, NEW m \in Marks, MarkFails(m)
  PROVE  FeedInv'
  <1>1. /\ UNCHANGED <<version, listening, chain, stream, wire, greeting, latest, received, missed>>
        /\ calls' = [calls EXCEPT ![m] = Done] /\ tab' = [tab EXCEPT !.fetch = Asked]
        /\ faults < MaxFaults /\ faults' = faults + 1
    BY DEF MarkFails, MayFail, Refreshed, server, connection
  <1>2. /\ calls' \in [Marks -> Calls] /\ calls'[m] = Done
        /\ \A k \in Marks : k # m => calls'[k] = calls[k]
    BY <1>1, FixedCalls, CallSet DEF FeedInv
  <1>3. /\ tab' \in TabType /\ tab'.shown = tab.shown /\ tab'.fetch = Asked
    <2>1. tab \in TabType
      BY DEF FeedInv, FeedTypeOK, TabType
    <2>. QED  BY <1>1, <2>1, FixedFetches, FetchSet
  <1>4. 0 <= version /\ faults' \in 0..MaxFaults
    BY <1>1, Bounds, SMT DEF FeedInv
  <1>5. \A k \in Marks : calls'[k].counts <= version
    BY <1>2, <1>4, FixedCalls DEF FeedInv, CallsFresh
  <1>6. tab'.fetch.counts <= version /\ tab'.shown <= received' /\ TabOwes'
    BY <1>1, <1>3, <1>4, FixedFetches DEF FeedInv, TabFresh, TabOwes
  <1>7. /\ latest' \in Marks \cup {"ninguna"} /\ greeting' \in 0..version
        /\ received' \in 0..version /\ missed' \in 0..version
    BY <1>1 DEF FeedInv, FeedTypeOK
  <1>. QED  BY <1>1, <1>2, <1>3, <1>4, <1>5, <1>6, <1>7, TabStep
-----------------------------------------------------------------------------
(* Commits: the inbox changes and somebody is told of it.                  *)

\* A delivery that waits for its turn.
LEMMA Link ==
  ASSUME NEW g \in Signals
  PROVE  [signal |-> g, loaded |-> FALSE, counts |-> 0, target |-> FALSE] \in Deliveries
  BY InboxFeedAssumption, SMT DEF Deliveries, Versions

\* What is published waits at the end of the chain, unless nobody listens.
LEMMA PublishedChain ==
  ASSUME FeedInv, NEW g \in Signals, NEW c, c = Published(g)
  PROVE  /\ c \in Seq(Deliveries)
         /\ \A i \in DOMAIN chain : i \in DOMAIN c /\ c[i] = chain[i]
         /\ \A i \in DOMAIN c : \/ i \in DOMAIN chain /\ c[i] = chain[i]
                                \/ ~c[i].loaded /\ ~c[i].target /\ c[i].counts = 0
         /\ ~listening \/ stream = "none" \/ \E i \in DOMAIN c : ~c[i].loaded
  <1>. DEFINE x == [signal |-> g, loaded |-> FALSE, counts |-> 0, target |-> FALSE]
  <1>1. x \in Deliveries /\ ~x.loaded /\ ~x.target /\ x.counts = 0
    BY Link
  <1>2. chain \in Seq(Deliveries)
    BY DEF FeedInv, FeedTypeOK
  <1>3. CASE listening /\ stream # "none"
    <2>1. c = Append(chain, x)
      BY <1>3 DEF Published
    <2>. HIDE DEF x
    <2>2. /\ c \in Seq(Deliveries)
          /\ \A i \in DOMAIN chain : i \in DOMAIN c /\ c[i] = chain[i]
          /\ \A i \in DOMAIN c : i \in DOMAIN chain \/ c[i] = x
          /\ Len(chain) + 1 \in DOMAIN c /\ c[Len(chain) + 1] = x
      BY <1>1, <1>2, <2>1, Longer
    <2>. QED  BY <1>1, <2>2
  <1>4. CASE ~(listening /\ stream # "none")
    BY <1>2, <1>4 DEF Published
  <1>. QED  BY <1>3, <1>4

\* A commit, or the notice of one, after which news is owed.
LEMMA CommitStep ==
  ASSUME FeedInv, UNCHANGED <<listening, stream, greeting, wire, tab, latest, received, missed, faults>>,
         version' = version \/ (version < MaxVersion /\ version' = version + 1),
         chain' = chain \/ \E g \in Signals : chain' = Published(g),
         calls' \in [Marks -> Calls], \A m \in Marks : calls'[m].counts <= version',
         Owed'
  PROVE  FeedInv'
  <1>1. /\ version' \in Nat /\ version' \in Versions
        /\ \A n \in Nat : n <= version => n <= version'
    BY Bounds, SMT DEF FeedInv, Versions
  <1>2. /\ chain' \in Seq(Deliveries)
        /\ \A i \in DOMAIN chain' : \/ i \in DOMAIN chain /\ chain'[i] = chain[i]
                                    \/ ~chain'[i].loaded /\ ~chain'[i].target /\ chain'[i].counts = 0
    BY PublishedChain DEF FeedInv, FeedTypeOK
  <1>3. \A i \in DOMAIN chain : chain[i].counts \in Nat
    <2>1. \A d \in Deliveries : d.counts \in Nat
      BY SMT DEF Deliveries, Versions
    <2>2. \A i \in DOMAIN chain : chain[i] \in Deliveries
      BY SMT DEF FeedInv, FeedTypeOK
    <2>. QED  BY <2>1, <2>2
  <1>4. \A i \in DOMAIN wire : wire[i].counts \in Nat
    <2>1. \A e \in Events : e.counts \in Nat
      BY SMT DEF Events, Versions
    <2>2. \A i \in DOMAIN wire : wire[i] \in Events
      BY SMT DEF FeedInv, FeedTypeOK
    <2>. QED  BY <2>1, <2>2
  <1>5. FeedTypeOK'
    <2>1. tab' \in TabType'
      <3>1. tab.shown \in 0..version'
        BY <1>1, TabTyped, Bounds, SMT DEF FeedInv
      <3>. QED  BY <3>1, SMT DEF FeedInv, FeedTypeOK, TabType
    <2>2. greeting' \in 0..version' /\ received' \in 0..version' /\ missed' \in 0..version'
      BY <1>1, Bounds, SMT DEF FeedInv
    <2>3. \A i \in DOMAIN chain' : chain'[i].target => chain'[i].loaded /\ stream' # "none"
      BY <1>2 DEF FeedInv, FeedTypeOK
    <2>. QED  BY <1>1, <1>2, <2>1, <2>2, <2>3 DEF FeedInv, FeedTypeOK, TabType
  <1>6. ChainFresh' /\ WireFresh' /\ TabFresh' /\ CallsFresh'
    <2>1. ChainFresh'
      BY <1>1, <1>2, <1>3, SMT DEF FeedInv, ChainFresh
    <2>2. WireFresh'
      BY <1>1, <1>4, SMT DEF FeedInv, WireFresh
    <2>3. TabFresh'
      <3>1. tab.fetch.counts \in Nat
        BY TabTyped, SMT DEF FeedInv, Versions
      <3>. QED  BY <1>1, <3>1 DEF FeedInv, TabFresh
    <2>. QED  BY <2>1, <2>2, <2>3 DEF CallsFresh
  <1>7. HeadOnly' /\ HeadNewest' /\ HubInOrder'
    BY <1>2 DEF FeedInv, HeadOnly, HeadNewest, HubInOrder
  <1>. QED  BY <1>5, <1>6, <1>7 DEF FeedInv, ToldOrOwed

\* A notice is recorded and signalled.
LEMMA NoticeRecorded ==
  ASSUME FeedInv, RecordNotice
  PROVE  FeedInv'
  <1>1. /\ UNCHANGED <<listening, stream, greeting, wire, tab, calls, latest, received, missed, faults>>
        /\ version < MaxVersion /\ version' = version + 1 /\ chain' = Published("n")
    BY DEF RecordNotice, connection, browser, history
  <1>2. "n" \in Signals
    BY DEF Signals
  <1>3. Owed'
    <2>1. ~listening \/ stream = "none" \/ \E i \in DOMAIN chain' : ~chain'[i].loaded
      BY <1>1, <1>2, PublishedChain
    <2>. QED  BY <1>1, <2>1 DEF Owed, ConnectionOwes, ChainOwes
  <1>4. calls' \in [Marks -> Calls] /\ \A m \in Marks : calls'[m].counts <= version'
    <2>1. \A m \in Marks : calls[m].counts \in Nat
      BY CallTyped DEF FeedInv
    <2>2. \A m \in Marks : calls[m].counts <= version'
      BY <1>1, <2>1, Bounds, SMT DEF FeedInv, CallsFresh
    <2>. QED  BY <1>1, <2>2 DEF FeedInv, FeedTypeOK
  <1>. QED  BY <1>1, <1>2, <1>3, <1>4, CommitStep

\* A call marks, or finds nothing to mark: in both cases its answer is to come.
LEMMA CallWrites ==
  ASSUME FeedInv, NEW m \in Marks, WriteRead(m) \/ PublishRead(m)
  PROVE  FeedInv'
  <1>1. /\ UNCHANGED <<listening, stream, greeting, wire, tab, latest, received, missed, faults>>
        /\ version' = version \/ (version < MaxVersion /\ version' = version + 1)
        /\ chain' = chain \/ chain' = Published("u")
    BY DEF WriteRead, PublishRead, connection, history
  <1>2. PICK s \in {"written", "published"} : calls' = [calls EXCEPT ![m].at = s]
    BY DEF WriteRead, PublishRead
  <1>3. /\ calls' \in [Marks -> Calls] /\ calls'[m].at = s /\ calls'[m].counts = calls[m].counts
        /\ \A n \in Marks : n # m => calls'[n] = calls[n]
    BY <1>2, StageSet DEF FeedInv
  <1>4. Owed'
    <2>1. CallOwes(m)'
      BY <1>3 DEF CallOwes
    <2>. QED  BY <2>1 DEF Owed
  <1>5. \A n \in Marks : calls'[n].counts <= version'
    <2>1. \A n \in Marks : calls[n].counts \in Nat
      BY CallTyped DEF FeedInv
    <2>2. \A n \in Marks : calls[n].counts <= version'
      BY <1>1, <2>1, Bounds, SMT DEF FeedInv, CallsFresh
    <2>. QED  BY <1>3, <2>2
  <1>6. chain' = chain \/ \E g \in Signals : chain' = Published(g)
    BY <1>1 DEF Signals
  <1>. QED  BY <1>1, <1>3, <1>4, <1>5, <1>6, CommitStep

-----------------------------------------------------------------------------
(* The hub.                                                                *)

\* A step of the server and the connection that tells the tab nothing.
LEMMA ServerStep ==
  ASSUME FeedInv, UNCHANGED <<version, tab, calls, latest, received>>,
         chain' \in Seq(Deliveries),
         \A i \in DOMAIN chain' : /\ chain'[i].target => chain'[i].loaded /\ stream' # "none"
                                  /\ chain'[i].counts <= version /\ (chain'[i].loaded => i = 1),
         stream' \in {"none", "registered", "counted", "greeted", "open"},
         listening' \in BOOLEAN, greeting' \in 0..version, wire' \in Seq(Events), WireFresh',
         missed' \in 0..version, faults' \in 0..MaxFaults,
         HeadNewest', HubInOrder',
         missed' = version \/ (missed' = missed /\
           (ConnectionOwes \/ ChainOwes \/ WireOwes => ConnectionOwes' \/ ChainOwes' \/ WireOwes'))
  PROVE  FeedInv'
  <1>1. FeedTypeOK'
    BY DEF FeedInv, FeedTypeOK
  <1>2. TabOwes' <=> TabOwes
    BY DEF TabOwes
  <1>3. \A m \in Marks : CallOwes(m)' <=> CallOwes(m)
    BY DEF CallOwes
  <1>4. TabFresh' /\ CallsFresh'
    BY DEF FeedInv, TabFresh, CallsFresh
  <1>5. ChainFresh' /\ HeadOnly'
    BY DEF ChainFresh, HeadOnly
  <1>6. ToldOrOwed'
    BY <1>2, <1>3 DEF FeedInv, ToldOrOwed, Owed
  <1>. QED  BY <1>1, <1>4, <1>5, <1>6 DEF FeedInv
\* The targets of a link, and the events, are what their types say.
LEMMA LinkTyped ==
  ASSUME FeedInv, NEW i \in DOMAIN chain
  PROVE  /\ i \in Nat \ {0} /\ chain[i] \in Deliveries /\ chain[i].counts \in Versions
         /\ chain[i].loaded \in BOOLEAN /\ chain[i].target \in BOOLEAN
         /\ chain[i].target => chain[i].loaded /\ stream # "none"
         /\ chain[i].counts <= version /\ (chain[i].loaded => i = 1)
  <1>1. chain \in Seq(Deliveries)
    BY DEF FeedInv, FeedTypeOK
  <1>2. i \in Nat \ {0} /\ chain[i] \in Deliveries
    BY <1>1, SMT
  <1>3. /\ chain[i].counts \in Versions /\ chain[i].loaded \in BOOLEAN /\ chain[i].target \in BOOLEAN
    BY <1>2, SMT DEF Deliveries
  <1>. QED  BY <1>2, <1>3 DEF FeedInv, FeedTypeOK, ChainFresh, HeadOnly

LEMMA EventTyped ==
  ASSUME FeedInv, NEW i \in DOMAIN wire
  PROVE  /\ i \in Nat \ {0} /\ wire[i] \in Events /\ wire[i].counts \in Versions
         /\ wire[i].hub \in BOOLEAN /\ wire[i].counts <= version
         /\ wire[i].event \in {"hello", "resync", "counts", "notification"}
  <1>1. wire \in Seq(Events)
    BY DEF FeedInv, FeedTypeOK
  <1>2. i \in Nat \ {0} /\ wire[i] \in Events
    BY <1>1, SMT
  <1>3. /\ wire[i].counts \in Versions /\ wire[i].hub \in BOOLEAN
        /\ wire[i].event \in {"hello", "resync", "counts", "notification"}
    BY <1>2, SMT DEF Events
  <1>. QED  BY <1>2, <1>3 DEF FeedInv, WireFresh

\* The head of the chain has been delivered, or nobody is to have it.
LEMMA HeadLeaves ==
  ASSUME FeedInv, NEW i \in DOMAIN chain, Turn(i), NEW c, c = Without(chain, i)
  PROVE  /\ c \in Seq(Deliveries) /\ i = 1
         /\ \A j \in DOMAIN c : /\ j + 1 \in DOMAIN chain /\ c[j] = chain[j + 1] /\ ~c[j].loaded
                                /\ ~c[j].target /\ c[j].counts <= version
         /\ \A j \in DOMAIN chain : j # 1 => j - 1 \in DOMAIN c /\ c[j - 1] = chain[j]
  <1>1. chain \in Seq(Deliveries) /\ i = 1
    BY DEF FeedInv, FeedTypeOK, Turn
  <1>2. chain # <<>>
    BY <1>1, SMT
  <1>3. c = Tail(chain)
    BY <1>1, <1>2, WithoutHead
  <1>4. /\ c \in Seq(Deliveries)
        /\ \A j \in DOMAIN c : j + 1 \in DOMAIN chain /\ c[j] = chain[j + 1] /\ j \in Nat \ {0}
        /\ \A j \in DOMAIN chain : j # 1 => j - 1 \in DOMAIN c /\ c[j - 1] = chain[j]
    BY <1>1, <1>2, <1>3, Shorter
  <1>5. ASSUME NEW j \in DOMAIN c  PROVE  ~c[j].loaded /\ ~c[j].target /\ c[j].counts <= version
    <2>1. j + 1 \in DOMAIN chain /\ c[j] = chain[j + 1] /\ j + 1 # 1
      BY <1>4, <1>5, SMT
    <2>. QED  BY <2>1, LinkTyped
  <1>. QED  BY <1>1, <1>4, <1>5

\* The events of the connection, with one more.
LEMMA WireGrows ==
  ASSUME FeedInv, NEW e \in Events, e.counts <= version, wire' = Append(wire, e), UNCHANGED version,
         e.hub => \A j \in DOMAIN wire : wire[j].hub => wire[j].counts <= e.counts
  PROVE  /\ wire' \in Seq(Events) /\ WireFresh' /\ HubInOrder'
         /\ \A j \in DOMAIN wire' : (j \in DOMAIN wire /\ wire'[j] = wire[j]) \/ wire'[j] = e
         /\ \A j \in DOMAIN wire : j \in DOMAIN wire' /\ wire'[j] = wire[j]
         /\ \E j \in DOMAIN wire' : wire'[j] = e
  <1>1. /\ wire' \in Seq(Events) /\ wire \in Seq(Events)
        /\ \A j \in DOMAIN wire : j \in DOMAIN wire' /\ wire'[j] = wire[j] /\ j \in Nat /\ j < Len(wire) + 1
        /\ \A j \in DOMAIN wire' : j \in DOMAIN wire \/ (j = Len(wire) + 1 /\ wire'[j] = e)
        /\ Len(wire) + 1 \in DOMAIN wire' /\ wire'[Len(wire) + 1] = e
    BY Longer DEF FeedInv, FeedTypeOK
  <1>2. WireFresh'
    BY <1>1 DEF FeedInv, WireFresh
  <1>3. ASSUME NEW j \in DOMAIN wire', NEW i \in 1..j, wire'[i].hub, wire'[j].hub
        PROVE  wire'[i].counts <= wire'[j].counts
    <2>1. i \in DOMAIN wire'
      BY <1>1, SMT
    <2>2. CASE j \in DOMAIN wire
      <3>1. i \in DOMAIN wire
        BY <1>1, <2>2, SMT
      <3>. QED  BY <1>1, <1>3, <2>2, <3>1 DEF FeedInv, HubInOrder
    <2>3. CASE j = Len(wire) + 1 /\ wire'[j] = e
      <3>1. CASE i \in DOMAIN wire
        BY <1>1, <1>3, <2>3, <3>1
      <3>2. CASE wire'[i] = e
        <4>1. e.counts \in Nat
          BY SMT DEF Events, Versions
        <4>. QED  BY <2>3, <3>2, <4>1, SMT
      <3>. QED  BY <1>1, <2>1, <3>1, <3>2
    <2>. QED  BY <1>1, <2>2, <2>3
  <1>4. HubInOrder'
    BY <1>3 DEF HubInOrder
  <1>. QED  BY <1>1, <1>2, <1>4

\* The head is read: its counts are the inbox's, and whoever is registered is to have them.
LEMMA HeadIsRead ==
  ASSUME FeedInv, NEW i \in DOMAIN chain, Load(i)
  PROVE  FeedInv'
  <1>1. /\ UNCHANGED <<version, listening, stream, greeting, wire, tab, calls, latest, received, missed, faults>>
        /\ Turn(i) /\ ~chain[i].loaded /\ i = 1
        /\ chain' = IF stream = "none" THEN Without(chain, i)
                    ELSE [chain EXCEPT ![i].loaded = TRUE, ![i].counts = version, ![i].target = TRUE]
    BY DEF Load, Turn, connection, browser, history
  <1>2. /\ WireFresh' /\ HubInOrder'
    BY <1>1 DEF FeedInv, WireFresh, HubInOrder
  <1>3. /\ stream' \in {"none", "registered", "counted", "greeted", "open"}
        /\ listening' \in BOOLEAN /\ greeting' \in 0..version /\ wire' \in Seq(Events)
        /\ missed' \in 0..version /\ faults' \in 0..MaxFaults
    BY <1>1 DEF FeedInv, FeedTypeOK
  <1>4. CASE stream = "none"
    <2>1. chain' = Without(chain, i)
      BY <1>1, <1>4
    <2>2. /\ chain' \in Seq(Deliveries)
          /\ \A j \in DOMAIN chain' : ~chain'[j].loaded /\ ~chain'[j].target /\ chain'[j].counts <= version
      BY <1>1, <2>1, HeadLeaves
    <2>3. HeadNewest'
      BY <2>2 DEF HeadNewest
    <2>4. ConnectionOwes'
      BY <1>1, <1>4 DEF ConnectionOwes
    <2>. QED  BY <1>1, <1>2, <1>3, <2>2, <2>3, <2>4, ServerStep
  <1>5. CASE stream # "none"
    <2>. DEFINE d == [chain[i] EXCEPT !.loaded = TRUE, !.counts = version, !.target = TRUE]
    <2>1. d \in Deliveries /\ d.loaded /\ d.target /\ d.counts = version
      <3>1. chain[i] \in Deliveries /\ TRUE \in BOOLEAN
        BY LinkTyped
      <3>2. version \in Versions
        BY Bounds, SMT DEF FeedInv, Versions
      <3>3. PICK u : u = [chain[i] EXCEPT !.loaded = TRUE]
        OBVIOUS
      <3>4. u \in Deliveries /\ u.loaded
        <4>1. \A x \in Deliveries, b \in BOOLEAN :
                [x EXCEPT !.loaded = b] \in Deliveries /\ [x EXCEPT !.loaded = b].loaded = b
          BY SMT DEF Deliveries
        <4>. QED  BY <3>1, <3>3, <4>1, Zenon
      <3>5. PICK w : w = [u EXCEPT !.counts = version]
        OBVIOUS
      <3>6. w \in Deliveries /\ w.counts = version /\ w.loaded
        <4>1. \A x \in Deliveries, v \in Versions :
                /\ [x EXCEPT !.counts = v] \in Deliveries /\ [x EXCEPT !.counts = v].counts = v
                /\ [x EXCEPT !.counts = v].loaded = x.loaded
          BY SMT DEF Deliveries
        <4>. QED  BY <3>2, <3>4, <3>5, <4>1, Zenon
      <3>7. d = [w EXCEPT !.target = TRUE]
        BY <3>3, <3>5
      <3>8. \A x \in Deliveries, b \in BOOLEAN :
              /\ [x EXCEPT !.target = b] \in Deliveries /\ [x EXCEPT !.target = b].target = b
              /\ [x EXCEPT !.target = b].loaded = x.loaded /\ [x EXCEPT !.target = b].counts = x.counts
        BY SMT DEF Deliveries
      <3>. QED  BY <3>1, <3>6, <3>7, <3>8, Zenon
    <2>2. chain' = [chain EXCEPT ![i] = d]
      BY <1>1, <1>5
    <2>. HIDE DEF d
    <2>3. /\ chain' \in Seq(Deliveries) /\ DOMAIN chain' = DOMAIN chain /\ chain'[1] = d
          /\ \A j \in DOMAIN chain : j # 1 => chain'[j] = chain[j]
      <3>1. chain \in Seq(Deliveries)
        BY DEF FeedInv, FeedTypeOK
      <3>2. i \in 1..Len(chain) /\ DOMAIN chain = 1..Len(chain)
        BY <3>1, SMT
      <3>3. /\ chain' \in Seq(Deliveries) /\ Len(chain') = Len(chain)
            /\ \A j \in 1..Len(chain) : chain'[j] = IF j = i THEN d ELSE chain[j]
        BY <2>1, <2>2, <3>1, <3>2, ExceptSeq
      <3>4. DOMAIN chain' = 1..Len(chain)
        BY <3>3, SMT
      <3>. QED  BY <1>1, <3>2, <3>3, <3>4
    <2>4. version <= version
      BY Bounds, SMT DEF FeedInv
    <2>5. ASSUME NEW j \in DOMAIN chain'
          PROVE  /\ chain'[j].target => chain'[j].loaded /\ stream' # "none"
                 /\ chain'[j].counts <= version /\ (chain'[j].loaded => j = 1)
      <3>1. CASE j = 1
        BY <1>1, <1>5, <2>1, <2>3, <2>4, <3>1
      <3>2. CASE j # 1
        BY <1>1, <2>3, <3>2, LinkTyped
      <3>. QED  BY <3>1, <3>2
    <2>6. HeadNewest'
      BY <1>1, <2>1, <2>3, <2>5, EventTyped DEF HeadNewest
    <2>7. ChainOwes'
      BY <1>1, <2>1, <2>3 DEF ChainOwes
    <2>. QED  BY <1>1, <1>2, <1>3, <2>3, <2>5, <2>6, <2>7, ServerStep
  <1>. QED  BY <1>4, <1>5

\* The read of the head fails.
LEMMA HeadIsMissed ==
  ASSUME FeedInv, NEW i \in DOMAIN chain, LoadFails(i)
  PROVE  FeedInv'
  <1>1. /\ UNCHANGED <<version, listening, stream, greeting, wire, tab, calls, latest, received>>
        /\ Turn(i) /\ chain' = Without(chain, i) /\ missed' = version
        /\ faults < MaxFaults /\ faults' = faults + 1
    BY DEF LoadFails, MayFail, connection, browser
  <1>2. /\ chain' \in Seq(Deliveries)
        /\ \A j \in DOMAIN chain' : ~chain'[j].loaded /\ ~chain'[j].target /\ chain'[j].counts <= version
    BY <1>1, HeadLeaves
  <1>3. WireFresh' /\ HubInOrder' /\ HeadNewest'
    BY <1>1, <1>2 DEF FeedInv, WireFresh, HubInOrder, HeadNewest
  <1>4. /\ stream' \in {"none", "registered", "counted", "greeted", "open"}
        /\ listening' \in BOOLEAN /\ greeting' \in 0..version /\ wire' \in Seq(Events)
    BY <1>1 DEF FeedInv, FeedTypeOK
  <1>5. missed' \in 0..version /\ faults' \in 0..MaxFaults
    BY <1>1, Bounds, SMT DEF FeedInv
  <1>. QED  BY <1>1, <1>2, <1>3, <1>4, <1>5, ServerStep

\* The head is written to the connections registered when it was read.
LEMMA HeadIsSent ==
  ASSUME FeedInv, NEW i \in DOMAIN chain, Send(i)
  PROVE  FeedInv'
  <1>. DEFINE e == [event |-> IF chain[i].signal = "n" THEN "notification" ELSE "counts",
                    counts |-> chain[i].counts, hub |-> TRUE]
  <1>1. /\ UNCHANGED <<version, listening, stream, greeting, tab, calls, latest, received, missed, faults>>
        /\ Turn(i) /\ chain[i].loaded /\ i = 1 /\ chain' = Without(chain, i)
        /\ wire' = IF ~chain[i].target THEN wire ELSE Append(wire, e)
    BY DEF Send, Turn, browser, history
  <1>2. /\ chain' \in Seq(Deliveries)
        /\ \A j \in DOMAIN chain' : ~chain'[j].loaded /\ ~chain'[j].target /\ chain'[j].counts <= version
        /\ \A j \in DOMAIN chain : j # 1 => j - 1 \in DOMAIN chain' /\ chain'[j - 1] = chain[j]
    BY <1>1, HeadLeaves
  <1>3. HeadNewest'
    BY <1>2 DEF HeadNewest
  <1>4. /\ stream' \in {"none", "registered", "counted", "greeted", "open"}
        /\ listening' \in BOOLEAN /\ greeting' \in 0..version
        /\ missed' \in 0..version /\ faults' \in 0..MaxFaults
    BY <1>1 DEF FeedInv, FeedTypeOK
  <1>5. ConnectionOwes' <=> ConnectionOwes
    BY <1>1 DEF ConnectionOwes
  <1>6. ASSUME NEW j \in DOMAIN chain, j # 1, ~chain[j].loaded \/ (chain[j].target /\ chain[j].counts = version)
        PROVE  ChainOwes'
    BY <1>1, <1>2, <1>6 DEF ChainOwes
  <1>7. CASE ~chain[i].target
    <2>1. wire' = wire
      BY <1>1, <1>7
    <2>2. wire' \in Seq(Events) /\ WireFresh' /\ HubInOrder' /\ (WireOwes' <=> WireOwes)
      BY <1>1, <2>1 DEF FeedInv, FeedTypeOK, WireFresh, HubInOrder, WireOwes
    <2>3. ChainOwes => ChainOwes'
      BY <1>1, <1>6, <1>7 DEF ChainOwes
    <2>. QED  BY <1>1, <1>2, <1>3, <1>4, <1>5, <2>2, <2>3, ServerStep
  <1>8. CASE chain[i].target
    <2>1. wire' = Append(wire, e)
      BY <1>1, <1>8
    <2>2. e \in Events /\ e.counts = chain[i].counts /\ e.hub
      <3>1. chain[i].counts \in Versions
        BY LinkTyped
      <3>. QED  BY <3>1, SMT DEF Events
    <2>. HIDE DEF e
    <2>3. e.counts <= version /\ \A j \in DOMAIN wire : wire[j].hub => wire[j].counts <= e.counts
      BY <1>1, <1>8, <2>2, LinkTyped DEF FeedInv, HeadNewest
    <2>4. /\ wire' \in Seq(Events) /\ WireFresh' /\ HubInOrder'
          /\ \A j \in DOMAIN wire : j \in DOMAIN wire' /\ wire'[j] = wire[j]
          /\ \E j \in DOMAIN wire' : wire'[j] = e
      BY <1>1, <2>1, <2>2, <2>3, WireGrows
    <2>5. WireOwes => WireOwes'
      BY <1>1, <2>4 DEF WireOwes
    <2>6. ChainOwes => ChainOwes' \/ WireOwes'
      <3>1. chain[1].counts = version => WireOwes'
        BY <1>1, <2>2, <2>4 DEF WireOwes
      <3>. QED  BY <1>1, <1>6, <3>1 DEF ChainOwes
    <2>. QED  BY <1>1, <1>2, <1>3, <1>4, <1>5, <2>4, <2>5, <2>6, ServerStep
  <1>. QED  BY <1>7, <1>8
-----------------------------------------------------------------------------
(* The listener and the stream.                                            *)

\* Where a step leaves the chain and the wire alone, they are as they were.
LEMMA ChainKept ==
  ASSUME FeedInv, UNCHANGED <<version, chain>>, stream # "none" => stream' # "none"
  PROVE  /\ chain' \in Seq(Deliveries)
         /\ \A i \in DOMAIN chain' : /\ chain'[i].target => chain'[i].loaded /\ stream' # "none"
                                     /\ chain'[i].counts <= version /\ (chain'[i].loaded => i = 1)
         /\ ChainOwes' <=> ChainOwes
  BY LinkTyped DEF FeedInv, FeedTypeOK, ChainOwes

LEMMA WireKept ==
  ASSUME FeedInv, UNCHANGED <<version, wire>>
  PROVE  /\ wire' \in Seq(Events) /\ WireFresh' /\ HubInOrder' /\ (WireOwes' <=> WireOwes)
         /\ UNCHANGED chain => HeadNewest'
  BY DEF FeedInv, FeedTypeOK, WireFresh, HubInOrder, HeadNewest, WireOwes

\* An event of the stream itself is written.
LEMMA StreamWrites ==
  ASSUME FeedInv, UNCHANGED <<version, chain>>, NEW e \in Events, ~e.hub, e.counts <= version,
         wire' = Append(wire, e)
  PROVE  /\ wire' \in Seq(Events) /\ WireFresh' /\ HubInOrder' /\ HeadNewest'
         /\ WireOwes => WireOwes'
         /\ e.event \in {"hello", "resync"} => WireOwes'
  <1>1. /\ wire' \in Seq(Events) /\ WireFresh' /\ HubInOrder'
        /\ \A j \in DOMAIN wire' : (j \in DOMAIN wire /\ wire'[j] = wire[j]) \/ wire'[j] = e
        /\ \A j \in DOMAIN wire : j \in DOMAIN wire' /\ wire'[j] = wire[j]
        /\ \E j \in DOMAIN wire' : wire'[j] = e
    BY WireGrows
  <1>2. HeadNewest'
    BY <1>1 DEF FeedInv, HeadNewest
  <1>3. WireOwes => WireOwes'
    BY <1>1 DEF WireOwes
  <1>4. e.event \in {"hello", "resync"} => WireOwes'
    BY <1>1 DEF WireOwes
  <1>. QED  BY <1>1, <1>2, <1>3, <1>4

\* The events without counts of their own.
LEMMA FixedEvents ==
  /\ Resync \in Events /\ Resync.event = "resync" /\ Resync.counts = 0 /\ ~Resync.hub
  /\ \A w \in {"hello", "resync", "counts", "notification"}, v \in Versions :
       [event |-> w, counts |-> v, hub |-> FALSE] \in Events
  <1>1. \A w \in {"hello", "resync", "counts", "notification"}, v \in Versions :
          [event |-> w, counts |-> v, hub |-> FALSE] \in Events
    BY SMT DEF Events
  <1>2. 0 \in Versions
    BY InboxFeedAssumption, SMT DEF Versions
  <1>. QED  BY <1>1, <1>2 DEF Resync

LEMMA ListenerLost ==
  ASSUME FeedInv, LoseListener
  PROVE  FeedInv'
  <1>1. /\ UNCHANGED <<version, chain, stream, greeting, wire, tab, calls, latest, received, missed>>
        /\ faults < MaxFaults /\ faults' = faults + 1 /\ listening' = FALSE
    BY DEF LoseListener, MayFail, connection, browser
  <1>2. faults' \in 0..MaxFaults
    BY <1>1, Bounds, SMT DEF FeedInv
  <1>3. /\ stream' \in {"none", "registered", "counted", "greeted", "open"} /\ listening' \in BOOLEAN
        /\ greeting' \in 0..version /\ missed' \in 0..version
    BY <1>1 DEF FeedInv, FeedTypeOK
  <1>4. ConnectionOwes'
    BY <1>1 DEF ConnectionOwes
  <1>. QED  BY <1>1, <1>2, <1>3, <1>4, ChainKept, WireKept, ServerStep

LEMMA ListenerBack ==
  ASSUME FeedInv, Reconnect
  PROVE  FeedInv'
  <1>1. /\ UNCHANGED <<version, chain, stream, greeting, tab, calls, latest, received, missed, faults>>
        /\ listening' = TRUE
        /\ wire' = IF stream = "none" THEN wire ELSE Append(wire, Resync)
    BY DEF Reconnect, browser, history
  <1>2. /\ stream' \in {"none", "registered", "counted", "greeted", "open"} /\ listening' \in BOOLEAN
        /\ greeting' \in 0..version /\ missed' \in 0..version /\ faults' \in 0..MaxFaults
    BY <1>1 DEF FeedInv, FeedTypeOK
  <1>3. CASE stream = "none"
    <2>1. ConnectionOwes'
      BY <1>1, <1>3 DEF ConnectionOwes
    <2>. QED  BY <1>1, <1>2, <1>3, <2>1, ChainKept, WireKept, ServerStep
  <1>4. CASE stream # "none"
    <2>1. Resync.counts <= version
      BY FixedEvents, Bounds, SMT DEF FeedInv
    <2>2. /\ wire' \in Seq(Events) /\ WireFresh' /\ HubInOrder' /\ HeadNewest' /\ WireOwes'
      BY <1>1, <1>4, <2>1, FixedEvents, StreamWrites
    <2>. QED  BY <1>1, <1>2, <2>2, ChainKept, ServerStep
  <1>. QED  BY <1>3, <1>4

\* A connection that opens, up to its hello, still owes it.
LEMMA StreamOpens ==
  ASSUME FeedInv, Connect \/ CountForHello
  PROVE  FeedInv'
  <1>1. /\ UNCHANGED <<version, listening, chain, wire, tab, calls, latest, received, missed, faults>>
        /\ stream' \in {"registered", "counted"} /\ greeting' \in {greeting, version}
    BY DEF Connect, CountForHello, server, browser, history
  <1>2. ConnectionOwes'
    BY <1>1 DEF ConnectionOwes
  <1>3. greeting' \in 0..version
    BY <1>1, Bounds, SMT DEF FeedInv
  <1>4. /\ stream' \in {"none", "registered", "counted", "greeted", "open"} /\ stream' # "none"
        /\ listening' \in BOOLEAN /\ missed' \in 0..version /\ faults' \in 0..MaxFaults
    BY <1>1 DEF FeedInv, FeedTypeOK
  <1>. QED  BY <1>1, <1>2, <1>3, <1>4, ChainKept, WireKept, ServerStep

LEMMA StreamGreets ==
  ASSUME FeedInv, Hello
  PROVE  FeedInv'
  <1>. DEFINE e == [event |-> "hello", counts |-> 0, hub |-> FALSE]
  <1>1. /\ UNCHANGED <<version, listening, chain, tab, calls, latest, received, missed, faults>>
        /\ stream' \in {"greeted", "open"} /\ greeting' \in {greeting, 0} /\ wire' = Append(wire, e)
    BY DEF Hello, server, browser, history
  <1>2. e \in Events /\ ~e.hub /\ e.event = "hello" /\ e.counts = 0
    <2>1. 0 \in Versions
      BY InboxFeedAssumption, SMT DEF Versions
    <2>. QED  BY <2>1, FixedEvents
  <1>. HIDE DEF e
  <1>3. greeting' \in 0..version /\ 0 <= version
    BY <1>1, Bounds, SMT DEF FeedInv
  <1>4. /\ stream' \in {"none", "registered", "counted", "greeted", "open"} /\ stream' # "none"
        /\ listening' \in BOOLEAN /\ missed' \in 0..version /\ faults' \in 0..MaxFaults
    BY <1>1 DEF FeedInv, FeedTypeOK
  <1>5. /\ wire' \in Seq(Events) /\ WireFresh' /\ HubInOrder' /\ HeadNewest' /\ WireOwes'
    BY <1>1, <1>2, <1>3, StreamWrites
  <1>. QED  BY <1>1, <1>3, <1>4, <1>5, ChainKept, ServerStep

LEMMA StreamResumes ==
  ASSUME FeedInv, Resume
  PROVE  FeedInv'
  <1>. DEFINE e == [event |-> "notification", counts |-> greeting, hub |-> FALSE]
  <1>1. /\ UNCHANGED <<version, listening, chain, tab, calls, latest, received, missed, faults>>
        /\ stream = "greeted" /\ stream' = "open" /\ greeting' = 0
        /\ wire' = wire \/ wire' = Append(wire, e) \/ wire' = Append(wire, Resync)
    BY DEF Resume, server, browser, history
  <1>2. e \in Events /\ ~e.hub /\ e.counts = greeting
    <2>1. greeting \in Versions
      BY Bounds, SMT DEF FeedInv, Versions
    <2>. QED  BY <2>1, FixedEvents
  <1>. HIDE DEF e
  <1>3. greeting' \in 0..version /\ greeting <= version /\ 0 <= version
    BY <1>1, Bounds, SMT DEF FeedInv
  <1>4. /\ stream' \in {"none", "registered", "counted", "greeted", "open"} /\ stream' # "none"
        /\ listening' \in BOOLEAN /\ missed' \in 0..version /\ faults' \in 0..MaxFaults
    BY <1>1 DEF FeedInv, FeedTypeOK
  <1>5. wire' \in Seq(Events) /\ WireFresh' /\ HubInOrder' /\ HeadNewest' /\ (WireOwes => WireOwes')
    <2>1. CASE wire' = wire
      BY <1>1, <2>1, WireKept
    <2>2. CASE wire' = Append(wire, e)
      BY <1>1, <1>2, <1>3, <2>2, StreamWrites
    <2>3. CASE wire' = Append(wire, Resync)
      BY <1>1, <1>3, <2>3, FixedEvents, StreamWrites
    <2>. QED  BY <1>1, <2>1, <2>2, <2>3
  <1>6. ConnectionOwes' <=> ConnectionOwes
    BY <1>1 DEF ConnectionOwes
  <1>. QED  BY <1>1, <1>3, <1>4, <1>5, <1>6, ChainKept, ServerStep

\* A connection breaks: nothing is left on it, and the next one owes a hello.
LEMMA StreamBreaks ==
  ASSUME FeedInv, Break
  PROVE  FeedInv'
  <1>1. /\ UNCHANGED <<version, listening, tab, calls, latest, received, missed>>
        /\ stream' = "none" /\ greeting' = 0 /\ wire' = <<>>
        /\ chain' = [i \in DOMAIN chain |-> [chain[i] EXCEPT !.target = FALSE]]
        /\ faults < MaxFaults /\ faults' = faults + 1
    BY DEF Break, MayFail, browser
  <1>2. DOMAIN wire' = {} /\ wire' \in Seq(Events)
    BY <1>1, SMT
  <1>3. WireFresh' /\ HubInOrder' /\ HeadNewest'
    BY <1>2 DEF WireFresh, HubInOrder, HeadNewest
  <1>4. greeting' \in 0..version /\ faults' \in 0..MaxFaults
    BY <1>1, Bounds, SMT DEF FeedInv
  <1>5. /\ stream' \in {"none", "registered", "counted", "greeted", "open"}
        /\ listening' \in BOOLEAN /\ missed' \in 0..version
    BY <1>1 DEF FeedInv, FeedTypeOK
  <1>6. ASSUME NEW i \in DOMAIN chain
        PROVE  /\ chain'[i] \in Deliveries /\ ~chain'[i].target
               /\ chain'[i].counts = chain[i].counts /\ chain'[i].loaded = chain[i].loaded
    <2>1. \A x \in Deliveries, b \in BOOLEAN :
            /\ [x EXCEPT !.target = b] \in Deliveries /\ [x EXCEPT !.target = b].target = b
            /\ [x EXCEPT !.target = b].loaded = x.loaded /\ [x EXCEPT !.target = b].counts = x.counts
      BY SMT DEF Deliveries
    <2>2. chain'[i] = [chain[i] EXCEPT !.target = FALSE] /\ FALSE \in BOOLEAN
      BY <1>1
    <2>. QED  BY <2>1, <2>2, LinkTyped, Zenon
  <1>7. DOMAIN chain' = DOMAIN chain /\ chain' \in Seq(Deliveries)
    <2>1. chain \in Seq(Deliveries) /\ DOMAIN chain = 1..Len(chain) /\ Len(chain) \in Nat
      <3>1. chain \in Seq(Deliveries)
        BY DEF FeedInv, FeedTypeOK
      <3>. QED  BY <3>1, SMT
    <2>2. DOMAIN chain' = 1..Len(chain)
      BY <1>1, <2>1
    <2>3. chain' = [i \in 1..Len(chain) |-> chain'[i]]
      BY <1>1, <2>1
    <2>4. chain' \in Seq(Deliveries)
      BY <1>6, <2>1, <2>3, SMT
    <2>. QED  BY <2>1, <2>2, <2>4
  <1>8. \A i \in DOMAIN chain' : /\ chain'[i].target => chain'[i].loaded /\ stream' # "none"
                                 /\ chain'[i].counts <= version /\ (chain'[i].loaded => i = 1)
    BY <1>6, <1>7, LinkTyped
  <1>9. ConnectionOwes'
    BY <1>1 DEF ConnectionOwes
  <1>. QED  BY <1>1, <1>2, <1>3, <1>4, <1>5, <1>7, <1>8, <1>9, ServerStep
-----------------------------------------------------------------------------
(* The tab is told.                                                        *)

\* What a live event leaves of the tab.
LEMMA LiveApplied ==
  ASSUME FeedTypeOK, NEW t \in TabType, NEW e \in Events, e.counts \in 0..version, NEW r, r = AppliedLive(t, e)
  PROVE  /\ r \in TabType /\ r.shown = e.counts /\ (t.timer => r.timer)
         /\ r.fetch.at = t.fetch.at /\ r.fetch.counts = t.fetch.counts
  <1>1. PICK u : u = Discarding(t)
    OBVIOUS
  <1>2. /\ u \in TabType /\ u.timer = t.timer /\ u.resumable \in BOOLEAN /\ u.timer \in BOOLEAN
        /\ u.fetch.at = t.fetch.at /\ u.fetch.counts = t.fetch.counts
    <2>1. u \in TabType /\ u.timer = t.timer /\ u.fetch.at = t.fetch.at /\ u.fetch.counts = t.fetch.counts
      BY <1>1, DiscardingKeeps
    <2>. QED  BY <2>1, SMT DEF TabType
  <1>3. PICK v : v = [u EXCEPT !.shown = e.counts]
    OBVIOUS
  <1>4. v \in TabType /\ v.shown = e.counts /\ v.timer = u.timer /\ v.fetch = u.fetch
        /\ v.resumable = u.resumable
    BY <1>2, <1>3, ShownSet
  <1>5. PICK b \in BOOLEAN : b = (u.timer \/ Fetching(t) \/ e.event = "counts")
    OBVIOUS
  <1>6. PICK c \in BOOLEAN : c = (u.resumable \/ e.event = "notification")
    OBVIOUS
  <1>7. PICK w : w = [v EXCEPT !.timer = b]
    OBVIOUS
  <1>8. w \in TabType /\ w.shown = v.shown /\ w.timer = b /\ w.fetch = v.fetch
    BY <1>4, <1>7, TimerSet
  <1>9. r = [w EXCEPT !.resumable = c]
    BY <1>1, <1>3, <1>5, <1>6, <1>7, Zenon DEF AppliedLive
  <1>10. r \in TabType /\ r.shown = w.shown /\ r.timer = w.timer /\ r.fetch = w.fetch
    BY <1>8, <1>9, ResumableSet
  <1>11. t.timer => r.timer
    BY <1>2, <1>5, <1>8, <1>10, Zenon
  <1>. QED  BY <1>2, <1>4, <1>8, <1>10, <1>11

\* The event at the head of the connection arrives.
LEMMA EventArrives ==
  ASSUME FeedInv, Receive
  PROVE  FeedInv'
  <1>. DEFINE e == Head(wire)
  <1>1. /\ UNCHANGED <<version, listening, chain, stream, greeting, calls, latest, missed, faults>>
        /\ wire # <<>> /\ wire' = Tail(wire)
    BY DEF Receive, server
  <1>2. /\ e \in Events /\ e = wire[1] /\ 1 \in DOMAIN wire /\ wire \in Seq(Events)
        /\ wire' \in Seq(Events)
        /\ \A i \in DOMAIN wire' : i + 1 \in DOMAIN wire /\ wire'[i] = wire[i + 1] /\ i \in Nat \ {0}
        /\ \A i \in DOMAIN wire : i # 1 => i - 1 \in DOMAIN wire' /\ wire'[i - 1] = wire[i]
    BY <1>1, Shorter DEF FeedInv, FeedTypeOK
  <1>3. e.counts \in Nat /\ e.counts <= version /\ e.counts \in 0..version
    <2>1. wire[1].counts \in Versions /\ wire[1].counts <= version
      BY <1>2, EventTyped
    <2>. QED  BY <1>2, <2>1, Bounds, SMT DEF FeedInv, Versions
  <1>4. PICK live : live = [tab EXCEPT !.live = TRUE]
    OBVIOUS
  <1>5. live \in TabType /\ live.shown = tab.shown /\ live.fetch = tab.fetch /\ live.timer = tab.timer
    <2>1. tab \in TabType /\ TRUE \in BOOLEAN
      BY DEF FeedInv, FeedTypeOK, TabType
    <2>. QED  BY <1>4, <2>1, LiveSet
  <1>. HIDE DEF e
  <1>6. /\ tab' \in TabType /\ received' \in 0..version /\ received <= received'
        /\ tab'.shown <= received' /\ tab'.fetch.counts <= version
        /\ received = version => received' = version
        /\ TabOwes => TabOwes'
        /\ e.event \in {"hello", "resync"} \/ e.counts = version => TabOwes' \/ received' = version
    <2>1. CASE e.event \in {"hello", "resync"}
      <3>1. tab' = [live EXCEPT !.fetch = Asked] /\ received' = received
        BY <1>4, <2>1 DEF Receive, Refreshed, e
      <3>2. tab' \in TabType /\ tab'.fetch = Asked /\ tab'.shown = live.shown
        BY <1>5, <3>1, FixedFetches, FetchSet
      <3>3. TabOwes'
        BY <3>2, FixedFetches DEF TabOwes
      <3>4. tab'.fetch.counts <= version /\ received \in 0..version /\ received <= received
        BY <3>2, FixedFetches, Bounds, SMT DEF FeedInv
      <3>5. tab'.shown <= received'
        BY <1>5, <3>1, <3>2 DEF FeedInv, TabFresh
      <3>. QED  BY <3>1, <3>2, <3>3, <3>4, <3>5
    <2>2. CASE e.event \notin {"hello", "resync"}
      <3>1. tab' = AppliedLive(live, e) /\ Told(e.counts)
        BY <1>4, <2>2 DEF Receive, e
      <3>2. /\ received' \in 0..version /\ e.counts <= received' /\ received <= received'
            /\ e.counts = version \/ received = version => received' = version
        BY <1>1, <1>3, <3>1, TellsNewest
      <3>3. /\ tab' \in TabType /\ tab'.shown = e.counts /\ (live.timer => tab'.timer)
            /\ tab'.fetch.at = live.fetch.at /\ tab'.fetch.counts = live.fetch.counts
        BY <1>2, <1>3, <1>5, <3>1, LiveApplied DEF FeedInv
      <3>4. TabOwes => TabOwes'
        BY <1>1, <1>5, <3>3 DEF TabOwes
      <3>5. tab'.fetch.counts <= version
        BY <1>5, <3>3 DEF FeedInv, TabFresh
      <3>. QED  BY <2>2, <3>2, <3>3, <3>4, <3>5
    <2>. QED  BY <2>1, <2>2
  <1>7. FeedTypeOK'
    BY <1>1, <1>2, <1>6 DEF FeedInv, FeedTypeOK, TabType
  <1>8. ChainFresh' /\ WireFresh' /\ TabFresh' /\ CallsFresh'
    BY <1>1, <1>2, <1>6 DEF FeedInv, ChainFresh, WireFresh, TabFresh, CallsFresh
  <1>9. HeadOnly' /\ HeadNewest'
    BY <1>1, <1>2 DEF FeedInv, HeadOnly, HeadNewest
  <1>10. HubInOrder'
    <2>1. ASSUME NEW j \in DOMAIN wire', NEW i \in 1..j, wire'[i].hub, wire'[j].hub
          PROVE  wire'[i].counts <= wire'[j].counts
      <3>1. i \in DOMAIN wire' /\ i + 1 \in 1..(j + 1)
        BY <1>2, SMT
      <3>2. /\ i + 1 \in DOMAIN wire /\ wire'[i] = wire[i + 1]
            /\ j + 1 \in DOMAIN wire /\ wire'[j] = wire[j + 1]
        BY <1>2, <3>1
      <3>. QED  BY <2>1, <3>1, <3>2 DEF FeedInv, HubInOrder
    <2>. QED  BY <2>1 DEF HubInOrder
  <1>11. ToldOrOwed'
    <2>1. WireOwes => WireOwes' \/ TabOwes' \/ received' = version
      <3>1. ASSUME NEW i \in DOMAIN wire, wire[i].event \in {"hello", "resync"} \/ wire[i].counts = version
            PROVE  WireOwes' \/ TabOwes' \/ received' = version
        <4>1. CASE i = 1
          BY <1>2, <1>6, <3>1, <4>1
        <4>2. CASE i # 1
          BY <1>1, <1>2, <3>1, <4>2 DEF WireOwes
        <4>. QED  BY <4>1, <4>2
      <3>. QED  BY <3>1 DEF WireOwes
    <2>2. /\ ConnectionOwes' <=> ConnectionOwes
          /\ ChainOwes' <=> ChainOwes
          /\ \A m \in Marks : CallOwes(m)' <=> CallOwes(m)
      BY <1>1 DEF ConnectionOwes, ChainOwes, CallOwes
    <2>. QED  BY <1>1, <1>6, <2>1, <2>2 DEF FeedInv, ToldOrOwed, Owed
  <1>. QED  BY <1>7, <1>8, <1>9, <1>10, <1>11 DEF FeedInv

-----------------------------------------------------------------------------
(* The invariant.                                                          *)

LEMMA FeedStarts ==
  ASSUME Init
  PROVE  FeedInv
  <1>1. /\ version = 0 /\ listening \in BOOLEAN /\ chain = <<>> /\ stream = "none" /\ greeting = 0
        /\ wire = <<>> /\ calls = [m \in Marks |-> NoCall] /\ latest = "ninguna"
        /\ received = 0 /\ missed = 0 /\ faults = 0
        /\ tab = [live |-> FALSE, shown |-> 0, fetch |-> NoFetch, timer |-> FALSE, resumable |-> FALSE]
    BY DEF Init
  <1>2. /\ chain \in Seq(Deliveries) /\ DOMAIN chain = {}
        /\ wire \in Seq(Events) /\ DOMAIN wire = {}
    BY <1>1, SMT
  <1>3. /\ version \in Versions /\ greeting \in 0..version /\ received \in 0..version
        /\ missed \in 0..version /\ faults \in 0..MaxFaults /\ 0 <= version /\ 0 \in 0..version
    BY <1>1, InboxFeedAssumption, SMT DEF Versions
  <1>4. tab \in TabType /\ tab.fetch = NoFetch /\ tab.shown = 0
    BY <1>1, <1>3, FixedFetches, SMT DEF TabType
  <1>5. calls \in [Marks -> Calls] /\ \A m \in Marks : calls[m] = NoCall
    BY <1>1, FixedCalls
  <1>6. FeedTypeOK
    BY <1>1, <1>2, <1>3, <1>4, <1>5 DEF FeedTypeOK, TabType
  <1>7. ChainFresh /\ WireFresh /\ TabFresh /\ CallsFresh /\ HeadOnly /\ HeadNewest /\ HubInOrder
    BY <1>1, <1>2, <1>3, <1>4, <1>5, FixedFetches, FixedCalls
    DEF ChainFresh, WireFresh, TabFresh, CallsFresh, HeadOnly, HeadNewest, HubInOrder
  <1>8. ToldOrOwed
    BY <1>1 DEF ToldOrOwed
  <1>. QED  BY <1>6, <1>7, <1>8 DEF FeedInv

LEMMA FeedStays ==
  ASSUME FeedInv, [Next]_vars
  PROVE  FeedInv'
  <1>1. CASE UNCHANGED vars
    <2>1. UNCHANGED <<version, listening, chain, stream, greeting, wire, tab, calls, latest,
                      received, missed, faults>>
      BY <1>1 DEF vars, server, connection, browser, history
    <2>2. FeedTypeOK'
      BY <2>1 DEF FeedInv, FeedTypeOK
    <2>3. /\ ChainFresh' /\ WireFresh' /\ TabFresh' /\ CallsFresh'
          /\ HeadOnly' /\ HeadNewest' /\ HubInOrder'
      BY <2>1 DEF FeedInv, ChainFresh, WireFresh, TabFresh, CallsFresh, HeadOnly, HeadNewest, HubInOrder
    <2>4. /\ ConnectionOwes' <=> ConnectionOwes
          /\ ChainOwes' <=> ChainOwes
          /\ WireOwes' <=> WireOwes
          /\ TabOwes' <=> TabOwes
          /\ \A m \in Marks : CallOwes(m)' <=> CallOwes(m)
      BY <2>1 DEF ConnectionOwes, ChainOwes, WireOwes, TabOwes, CallOwes
    <2>5. ToldOrOwed'
      BY <2>1, <2>4 DEF FeedInv, ToldOrOwed, Owed
    <2>. QED  BY <2>2, <2>3, <2>5 DEF FeedInv
  <1>2. CASE RecordNotice
    BY <1>2, NoticeRecorded
  <1>3. CASE LoseListener
    BY <1>3, ListenerLost
  <1>4. CASE Reconnect
    BY <1>4, ListenerBack
  <1>5. ASSUME NEW i \in DOMAIN chain, Load(i) \/ Send(i) \/ LoadFails(i)  PROVE  FeedInv'
    BY <1>5, HeadIsRead, HeadIsSent, HeadIsMissed
  <1>6. CASE Connect \/ StreamStep
    BY <1>6, StreamOpens, StreamGreets, StreamResumes DEF StreamStep
  <1>7. CASE Break
    BY <1>7, StreamBreaks
  <1>8. CASE Receive
    BY <1>8, EventArrives
  <1>9. CASE FallBack \/ Poll \/ ListTimer \/ ReadSummary \/ SummaryFails
    BY <1>9, TabAsks
  <1>10. CASE FinishSummary
    BY <1>10, SummaryEnds
  <1>11. ASSUME NEW m \in Marks, Mark(m) \/ MarkStep(m) \/ MarkFails(m)  PROVE  FeedInv'
    BY <1>11, MarkBegins, CallWrites, AnswerIsCounted, AnswerArrives, CallFails DEF MarkStep
  <1>. QED  BY <1>1, <1>2, <1>3, <1>4, <1>5, <1>6, <1>7, <1>8, <1>9, <1>10, <1>11 DEF Next, HubStep

LEMMA FeedAlways == Spec => []FeedInv
  <1>1. Init => FeedInv
    BY FeedStarts
  <1>2. FeedInv /\ [Next]_vars => FeedInv'
    BY FeedStays
  <1>. QED  BY <1>1, <1>2, PTL DEF Spec

\* Nothing the feed holds is newer than the inbox, and a delivery has targets only once it
\* has been read and while their connection lasts.
THEOREM FeedTyped == Spec => []FeedTypeOK
  <1>1. FeedInv => FeedTypeOK
    BY DEF FeedInv
  <1>. QED  BY <1>1, FeedAlways, PTL

\* On a connection an old counter of the hub never comes after a newer one, whatever breaks:
\* the head of the chain is the only delivery that has been read, and no event written by the
\* hub is newer than it.
THEOREM HubKeepsOrder == Spec => []HubInOrder
  <1>1. FeedInv => HubInOrder
    BY DEF FeedInv
  <1>. QED  BY <1>1, FeedAlways, PTL

\* A tab at rest owes nothing: it shows the inbox as it is, or an older answer replaced what
\* it had been told, or a read failed since.  With nothing under way there is nobody left to
\* owe the news, so it was told or missed.
THEOREM NothingIsOwed == Spec => []NothingOwed
  <1>1. ASSUME FeedInv, Quiet  PROVE  ~Owed
    <2>1. ~ConnectionOwes
      BY <1>1 DEF Quiet, ConnectionOwes
    <2>2. DOMAIN chain = {} /\ DOMAIN wire = {}
      BY <1>1, SMT DEF Quiet
    <2>3. ~TabOwes
      BY <1>1 DEF Quiet, Fetching, TabOwes
    <2>4. \A m \in Marks : ~CallOwes(m)
      BY <1>1 DEF Quiet, Waiting, CallOwes
    <2>. QED  BY <2>1, <2>2, <2>3, <2>4 DEF Owed, ChainOwes, WireOwes
  <1>2. FeedInv => NothingOwed
    <2>1. SUFFICES ASSUME FeedInv, Quiet
                   PROVE  tab.shown = version \/ tab.shown < received \/ received < missed
      BY DEF NothingOwed
    <2>2. received = version \/ missed = version
      BY <1>1, <2>1 DEF FeedInv, ToldOrOwed
    <2>3. tab.shown <= received /\ tab.shown \in Nat
      BY <2>1, TabTyped, Bounds, SMT DEF FeedInv, TabFresh
    <2>. QED  BY <2>1, <2>2, <2>3, Bounds, SMT DEF FeedInv
  <1>. QED  BY <1>2, FeedAlways, PTL
=============================================================================
