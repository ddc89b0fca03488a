-------------------------- MODULE ConversationView --------------------------
(***************************************************************************)
(* One person's live view of one conversation: what it shows, the cursor   *)
(* it asks from, and the mark of how far the person has read.              *)
(*                                                                         *)
(* The instant of a message is taken before its transaction waits for the  *)
(* request's row, so messages may commit in another order than that of     *)
(* their createdAt, which is the order of the pages and of the cursor.     *)
(* RequestDesk sends the messages; here are the instants and the reader.   *)
(* A fetch is a page at a time, and each page marks the conversation as    *)
(* read; fetches may overlap, answer in any order, or fail.                *)
(***************************************************************************)
EXTENDS RequestDesk

CONSTANTS
  Viewed,    \* the request whose conversation is open
  Own,       \* messages that the person sends from this view
  PageSize,  \* messages of a page
  Fetches,   \* fetches that may be in flight
  First,     \* the one that loads the conversation when it opens
  NoMessage

ASSUME ConversationViewAssumption ==
  /\ Viewed \in Forms /\ Own \subseteq Messages /\ NoMessage \notin Messages
  /\ PageSize \in Nat \ {0} /\ First \in Fetches

VARIABLES
  order,      \* pairs of an instant taken and a later one, by createdAt and id
  shown,      \* the messages of the view
  cursor,     \* latestCursor: the message to ask from, NoMessage for the beginning
  signalled,  \* a change of the conversation is on its way to the view
  fetches,    \* the step of each fetch and what it has read
  mark,       \* lastReadAt of the person, as the message it is the instant of
  overtaken,  \* history: messages that committed after one with a later instant
  missed      \* history: messages there when a fetch failed and not shown by it

page == <<shown, cursor, signalled>>
viewVars == <<order, page, fetches, mark, overtaken, missed>>
allVars == <<vars, viewVars>>

\* Every instant that has been taken is after the beginning.
After(m, n) == <<n, m>> \in order
Timed == {m \in Messages : After(m, NoMessage)}
LatestOf(ms) == IF ms = {} THEN NoMessage ELSE CHOOSE m \in ms : \A n \in ms : ~After(n, m)

Posted == messages[Viewed]

Resting == [step |-> "libre", whole |-> FALSE, items |-> {}, from |-> NoMessage, more |-> FALSE,
            latest |-> NoMessage]

Is(f, step) == fetches[f].step = step
Moves(f, step) == fetches' = [fetches EXCEPT ![f].step = step]

-----------------------------------------------------------------------------
(* The messages                                                            *)

\* sendMessage takes the time before its transaction; a call that died takes another.
TakeInstant(m) ==
  /\ \A k \in Forms : m \notin messages[k]
  /\ \A c \in Calls : calls[c].step \in Sending => calls[c].message # m
  /\ order' = {p \in order : m \notin {p[1], p[2]}}
                \cup (({NoMessage} \cup Timed) \ {m}) \X {m}
  /\ UNCHANGED <<vars, page, fetches, mark, overtaken, missed>>

\* What commits is told to every view of the conversation, the sender's too.
Commits(new) ==
  /\ signalled' = (signalled \/ new # {})
  /\ overtaken' = overtaken \cup {m \in new : \E n \in Posted : After(n, m)}

DeskStep ==
  /\ Next
  /\ \A c \in Calls : calls'[c].step \in Sending => calls'[c].message \in Timed
  /\ Commits(messages'[Viewed] \ Posted)
  /\ UNCHANGED <<order, shown, cursor, fetches, mark, missed>>

-----------------------------------------------------------------------------
(* fetchNewer, retry and the first load                                    *)

\* Dropping the signal while another fetch is under way.
FetchNewerUnlessBusy(f) ==
  /\ Is(f, "libre") /\ signalled
  /\ signalled' = FALSE
  /\ fetches' = IF \E g \in Fetches : ~Is(g, "libre") THEN fetches
                ELSE [fetches EXCEPT ![f] = [Resting EXCEPT !.step = "page", !.from = cursor]]
  /\ UNCHANGED <<vars, order, shown, cursor, mark, overtaken, missed>>

\* Each signal asks for what comes after the cursor, whatever else is in flight.
FetchNewer(f) ==
  /\ Is(f, "libre") /\ signalled
  /\ signalled' = FALSE
  /\ fetches' = [fetches EXCEPT ![f] = [Resting EXCEPT !.step = "page", !.from = cursor]]
  /\ UNCHANGED <<vars, order, shown, cursor, mark, overtaken, missed>>

\* Anything else that makes the view ask again: the channel is back, the conversation is
\* closed or reopened, somebody else has read.
Signal ==
  /\ ~signalled
  /\ signalled' = TRUE
  /\ UNCHANGED <<vars, order, shown, cursor, fetches, mark, overtaken, missed>>

Retry(f) ==
  /\ Is(f, "error")
  /\ fetches' = [fetches EXCEPT ![f] = [Resting EXCEPT !.step = "page", !.whole = TRUE]]
  /\ UNCHANGED <<vars, order, page, mark, overtaken, missed>>

Ahead(f) == {m \in Posted : After(m, fetches[f].from)}
OnPage(f) == {m \in Ahead(f) : Cardinality({n \in Ahead(f) : After(m, n)}) < PageSize}

\* The cursor of a page is the one message that was read too many to know there is another.
PageEndBeyond(f) == {m \in Ahead(f) : Cardinality({n \in Ahead(f) : After(m, n)}) <= PageSize}

\* The cursor of a page is its last message.
PageEnd(f) == OnPage(f)

ReadPage(f) ==
  /\ Is(f, "page")
  /\ fetches' = [fetches EXCEPT ![f].step = "latest",
                   ![f].items = @ \cup OnPage(f),
                   ![f].from = IF OnPage(f) = {} THEN @ ELSE LatestOf(PageEnd(f)),
                   ![f].more = OnPage(f) # Ahead(f)]
  /\ UNCHANGED <<vars, order, page, mark, overtaken, missed>>

\* Everything there is by now, shown or not.
FindLatest(f) ==
  /\ Is(f, "latest")
  /\ fetches' = [fetches EXCEPT ![f].step = "mark", ![f].latest = LatestOf(Posted)]
  /\ UNCHANGED <<vars, order, page, mark, overtaken, missed>>

\* The next page, or the answer of the last one.
GoesOn(f) == Moves(f, IF fetches[f].more THEN "page" ELSE "answer")

\* The last to mark is right.
MarkedLast(m) == m

\* GREATEST
MarkedFarthest(m) == IF After(m, mark) THEN m ELSE mark

MarkConversationRead(f) ==
  /\ Is(f, "mark")
  /\ mark' = IF fetches[f].latest = NoMessage THEN mark ELSE MarkedFarthest(fetches[f].latest)
  /\ GoesOn(f)
  /\ UNCHANGED <<vars, order, page, overtaken, missed>>

\* Marking must not keep the messages from being shown.
MarkFails(f) ==
  /\ Is(f, "mark")
  /\ GoesOn(f)
  /\ UNCHANGED <<vars, order, page, mark, overtaken, missed>>

\* A whole conversation that is older than what is already shown does not move the cursor.
IsCurrent(f) == fetches[f].whole => shown = {} \/ ~After(LatestOf(shown), LatestOf(fetches[f].items))

Answer(f) ==
  /\ Is(f, "answer")
  /\ shown' = shown \cup fetches[f].items
  /\ cursor' = IF IsCurrent(f) /\ fetches[f].from # NoMessage THEN fetches[f].from ELSE cursor
  /\ fetches' = [fetches EXCEPT ![f] = Resting]
  /\ UNCHANGED <<vars, order, signalled, mark, overtaken, missed>>

\* A first load that fails says so; a later fetch does not, and nobody repeats it.
FetchFails(f) ==
  /\ fetches[f].step \in {"page", "latest", "mark", "answer"}
  /\ fetches' = [fetches EXCEPT ![f] = [Resting EXCEPT !.step = IF fetches[f].whole THEN "error" ELSE "libre"]]
  /\ missed' = missed \cup (Posted \ shown)
  /\ UNCHANGED <<vars, order, page, mark, overtaken>>

\* The answer of a message sent from here: it is shown, and the cursor stays where it was.
ShowOwn(m) ==
  /\ m \in Own \cap Posted
  /\ shown' = shown \cup {m}
  /\ UNCHANGED <<vars, order, cursor, signalled, fetches, mark, overtaken, missed>>

-----------------------------------------------------------------------------

ViewInit ==
  /\ Init
  /\ order = {}
  /\ shown = {} /\ cursor = NoMessage /\ signalled = FALSE
  /\ fetches = [f \in Fetches |-> IF f = First THEN [Resting EXCEPT !.step = "page", !.whole = TRUE]
                                 ELSE Resting]
  /\ mark = NoMessage
  /\ overtaken = {} /\ missed = {}

Fetching(f) ==
  \/ FetchNewer(f) \/ Retry(f) \/ ReadPage(f) \/ FindLatest(f)
  \/ MarkConversationRead(f) \/ MarkFails(f) \/ Answer(f) \/ FetchFails(f)

ViewNext ==
  \/ DeskStep
  \/ \E m \in Messages : TakeInstant(m) \/ ShowOwn(m)
  \/ Signal
  \/ \E f \in Fetches : Fetching(f)

ViewSpec == ViewInit /\ [][ViewNext]_allVars

-----------------------------------------------------------------------------
(* Properties                                                              *)

\* The cursor goes past nothing but what the view shows and what committed out of order: pages
\* that overlap, answer late or come while messages are sent skip no message.
NothingPassedOver ==
  \A m \in Posted : m \in shown \/ m \in overtaken \/ After(m, cursor)

\* A view at rest shows the whole conversation, but for what committed out of order and what
\* was there when a fetch failed.
ViewSettles ==
  ~signalled /\ (\A f \in Fetches : Is(f, "libre")) => Posted \subseteq shown \cup overtaken \cup missed

\* The mark of what was read never goes back, whichever of two readings is written last.
MarkOnlyAdvances == [][~After(mark, mark')]_allVars
=============================================================================
