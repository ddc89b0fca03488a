---------------------------- MODULE RequestDesk ----------------------------
(***************************************************************************)
(* Requests come in through a form and get a folio; then messages are sent *)
(* on them, each of which is noticed in the inbox of whoever attends the   *)
(* request.                                                                *)
(*                                                                         *)
(* Both are transactions retried with an idempotency key.  Under READ      *)
(* COMMITTED each statement sees what is committed when it runs, so a      *)
(* transaction is a step per statement that others may come between:       *)
(*   - a submission excludes others only from the folio's row on;          *)
(*   - a message excludes others from the request's row on, but not the    *)
(*     person who reads the notice it is about to be added to.             *)
(* What a transaction writes appears at its commit; what it inserted holds *)
(* its unique keys until then.  A call may die at any step.                *)
(***************************************************************************)
EXTENDS Naturals, Sequences, FiniteSets

CONSTANTS
  Forms,     \* idempotency keys of forms: a request each, at most
  Messages,  \* idempotency keys of messages
  RequestOf, \* the request each message is about
  Contents,  \* what is sent in a form: who asks, and the detail of what they ask for
  AddressOf, \* the mail address of who asks
  DetailOf,  \* the detail: all that is kept in quote_requests and its detail
  Calls      \* transactions under way

ASSUME RequestDeskAssumption == RequestOf \in [Messages -> Forms]

VARIABLES
  requests,      \* quote_requests by the key of their form
  nextFolio,     \* folio_sequences.nextValue
  contacts,      \* how many active contacts have each mail address
  conversations, \* status of each request's conversation
  messages,      \* keys of the conversation_messages of each request
  notices,       \* the person's notices of each request's group, oldest first
  calls,
  replies,       \* history: what submissions were told
  reopened       \* history: calls that had found no open notice when one was marked unread

desk == <<requests, nextFolio, contacts>>
thread == <<conversations, messages>>
vars == <<desk, thread, notices, calls, replies, reopened>>

NoRequest == [folio |-> 0, content |-> "nada"]
Idle == [step |-> "libre"]

At(c, step) == calls[c].step = step
Goes(c, step) == calls' = [calls EXCEPT ![c].step = step]
Ends(c) == calls' = [calls EXCEPT ![c] = Idle]

Exists(k) == requests[k] # NoRequest

Addresses == {AddressOf[x] : x \in Contents}

-----------------------------------------------------------------------------
(* createQuoteRequest                                                      *)

\* Whatever was sent with the key, the first request is the answer.
AnyReplay(k, x) == Exists(k)

\* assertReplayMatches: a key used again with another detail is a conflict; who asks is not
\* compared.
SameRequest(k, x) == DetailOf[requests[k].content] = DetailOf[x]

\* The answer of a replay: the request of the key, or a conflict, which tells nothing.
Replayed(c, k, x) ==
  /\ replies' = IF SameRequest(k, x)
                THEN replies \cup {[form |-> k, content |-> x, folio |-> requests[k].folio]}
                ELSE replies
  /\ Ends(c)

FindForm(c, k, x) ==
  /\ At(c, "libre")
  /\ IF Exists(k) THEN Replayed(c, k, x)
     ELSE /\ calls' = [calls EXCEPT ![c] = [step |-> "resolve", form |-> k, content |-> x,
                                            matches |-> 0, folio |-> 0]]
          /\ UNCHANGED replies
  /\ UNCHANGED <<desk, thread, notices, reopened>>

ResolveContact(c) ==
  /\ At(c, "resolve")
  /\ calls' = [calls EXCEPT ![c].matches = contacts[AddressOf[calls[c].content]],
                            ![c].step = "allocate"]
  /\ UNCHANGED <<desk, thread, notices, replies, reopened>>

\* The row of folio_sequences is locked until the transaction ends.
AllocateFolio(c) ==
  /\ At(c, "allocate")
  /\ \A d \in Calls : ~At(d, "create")
  /\ calls' = [calls EXCEPT ![c].folio = nextFolio, ![c].step = "create"]
  /\ UNCHANGED <<desk, thread, notices, replies, reopened>>

\* A unique violation of the key undoes everything, the folio included.  Otherwise the
\* request belongs to the only contact that matched, or to a new one.
CreateRequest(c) ==
  /\ At(c, "create")
  /\ LET k == calls[c].form
     IN IF Exists(k)
        THEN /\ Goes(c, "replay")
             /\ UNCHANGED <<desk, replies>>
        ELSE /\ requests' = [requests EXCEPT ![k] = [folio |-> calls[c].folio,
                                                    content |-> calls[c].content]]
             /\ nextFolio' = nextFolio + 1
             /\ \E new \in BOOLEAN :
                  contacts' = IF new \/ calls[c].matches # 1
                              THEN [contacts EXCEPT ![AddressOf[calls[c].content]] = @ + 1]
                              ELSE contacts
             /\ replies' = replies \cup {[form |-> k, content |-> calls[c].content,
                                          folio |-> calls[c].folio]}
             /\ Ends(c)
  /\ UNCHANGED <<thread, notices, reopened>>

\* Outside the transaction that failed.
Replay(c) ==
  /\ At(c, "replay")
  /\ Replayed(c, calls[c].form, calls[c].content)
  /\ UNCHANGED <<desk, thread, notices, reopened>>

Submit(c) ==
  \/ \E k \in Forms, x \in Contents : FindForm(c, k, x)
  \/ ResolveContact(c) \/ AllocateFolio(c) \/ CreateRequest(c) \/ Replay(c)

-----------------------------------------------------------------------------
(* sendMessage, and recordInboxIntents in its transaction                  *)

Sending == {"insert", "lock", "recreate", "merge", "open", "commit"}
Locked(k) == \E c \in Calls : calls[c].step \in Sending /\ calls[c].request = k

Open(n) == ~n.read /\ ~n.resolved
OpenNotices(k) == {i \in DOMAIN notices[k] : Open(notices[k][i])}

\* A key already used is answered or refused; a closed conversation takes no more messages;
\* without a conversation the first message creates it.
LockRequest(c, m) ==
  LET k == RequestOf[m]
  IN /\ At(c, "libre") /\ Exists(k) /\ ~Locked(k)
     /\ m \notin messages[k] /\ conversations[k] # "CLOSED"
     /\ calls' = [calls EXCEPT ![c] = [step |-> "insert", request |-> k, message |-> m,
                                       notice |-> 0]]
     /\ reopened' = reopened \ {c}
     /\ UNCHANGED <<desk, thread, notices, replies>>

\* INSERT ... ON CONFLICT DO NOTHING against the partial unique index of open notices.
InsertNotice(c) ==
  /\ At(c, "insert")
  /\ Goes(c, IF OpenNotices(calls[c].request) = {} THEN "open" ELSE "lock")
  /\ UNCHANGED <<desk, thread, notices, replies, reopened>>

\* The notice of the conflict, read or not by now.
LockFound(c) ==
  /\ At(c, "lock")
  /\ calls' = [calls EXCEPT ![c].notice = Len(notices[calls[c].request]), ![c].step = "merge"]
  /\ UNCHANGED <<desk, thread, notices, replies, reopened>>

\* SELECT ... FOR UPDATE of the open notice. If it was read meanwhile a second insert opens
\* another, which fails when an older one was marked unread: the savepoint leaves none.
LockOpenGroup(c) ==
  /\ At(c, "lock")
  /\ \/ \E i \in OpenNotices(calls[c].request) :
          calls' = [calls EXCEPT ![c].notice = i, ![c].step = "merge"]
     \/ OpenNotices(calls[c].request) = {} /\ Goes(c, "recreate")
  /\ UNCHANGED <<desk, thread, notices, replies, reopened>>

CreateNotice(c) ==
  /\ At(c, "recreate")
  /\ Goes(c, IF OpenNotices(calls[c].request) = {} THEN "open" ELSE "commit")
  /\ UNCHANGED <<desk, thread, notices, replies, reopened>>

Extended(ns, i, m) == [ns EXCEPT ![i].about = @ \cup {m}]
Opened(ns, m) == Append(ns, [about |-> {m}, read |-> FALSE, resolved |-> FALSE])

CommitMessage(c) ==
  /\ calls[c].step \in {"merge", "open", "commit"}
  /\ LET k == calls[c].request
         m == calls[c].message
     IN /\ messages' = [messages EXCEPT ![k] = @ \cup {m}]
        /\ conversations' = [conversations EXCEPT ![k] = "OPEN"]
        /\ notices' = CASE At(c, "merge") -> [notices EXCEPT ![k] = Extended(@, calls[c].notice, m)]
                        [] At(c, "open") -> [notices EXCEPT ![k] = Opened(@, m)]
                        [] At(c, "commit") -> notices
  /\ Ends(c)
  /\ UNCHANGED <<desk, replies, reopened>>

Send(c) ==
  \/ \E m \in Messages : LockRequest(c, m)
  \/ InsertNotice(c) \/ LockOpenGroup(c) \/ CreateNotice(c) \/ CommitMessage(c)

\* closeConversation and reopenConversation.
MoveConversation(k) ==
  /\ ~Locked(k) /\ conversations[k] # "NINGUNA"
  /\ conversations' = [conversations EXCEPT ![k] = IF @ = "OPEN" THEN "CLOSED" ELSE "OPEN"]
  /\ UNCHANGED <<desk, messages, notices, calls, replies, reopened>>

-----------------------------------------------------------------------------
(* The person who attends the request                                      *)

\* The row is locked by the message being added to it.
Merging(k, i) == \E c \in Calls : At(c, "merge") /\ calls[c].request = k /\ calls[c].notice = i

\* The index already holds an open notice that is not committed yet.
Opening(k) == \E c \in Calls : At(c, "open") /\ calls[c].request = k

MarkRead(k, i) ==
  /\ ~notices[k][i].read /\ ~Merging(k, i)
  /\ notices' = [notices EXCEPT ![k][i].read = TRUE]
  /\ UNCHANGED <<desk, thread, calls, replies, reopened>>

\* The index refuses a second open notice; of one that is not committed it waits to see.
MarkUnread(k, i) ==
  /\ notices[k][i].read
  /\ notices[k][i].resolved \/ (OpenNotices(k) = {} /\ ~Opening(k))
  /\ notices' = [notices EXCEPT ![k][i].read = FALSE]
  /\ reopened' = reopened \cup {c \in Calls : At(c, "recreate") /\ calls[c].request = k}
  /\ UNCHANGED <<desk, thread, calls, replies>>

\* resolveInboxGroups, in a transaction that locks the request: every notice of the group
\* that was not resolved, read or not.
ResolveGroup(k) ==
  /\ ~Locked(k)
  /\ \E i \in DOMAIN notices[k] : ~notices[k][i].resolved
  /\ notices' = [notices EXCEPT ![k] = [i \in DOMAIN @ |-> [@[i] EXCEPT !.resolved = TRUE]]]
  /\ UNCHANGED <<desk, thread, calls, replies, reopened>>

-----------------------------------------------------------------------------

Die(c) ==
  /\ ~At(c, "libre")
  /\ Ends(c)
  /\ UNCHANGED <<desk, thread, notices, replies, reopened>>

Init ==
  /\ requests = [k \in Forms |-> NoRequest]
  /\ nextFolio = 1 /\ contacts \in [Addresses -> 0..1]
  /\ conversations = [k \in Forms |-> "NINGUNA"]
  /\ messages = [k \in Forms |-> {}]
  /\ notices = [k \in Forms |-> <<>>]
  /\ calls = [c \in Calls |-> Idle]
  /\ replies = {} /\ reopened = {}

Next ==
  \/ \E c \in Calls : Submit(c) \/ Send(c) \/ Die(c)
  \/ \E k \in Forms : MoveConversation(k) \/ ResolveGroup(k)
  \/ \E k \in Forms : \E i \in DOMAIN notices[k] : MarkRead(k, i) \/ MarkUnread(k, i)

Spec == Init /\ [][Next]_vars

-----------------------------------------------------------------------------
(* Properties                                                              *)

Created == {k \in Forms : Exists(k)}

\* Folios are given in order, one to each request and none to nobody, however submissions
\* interleave, fail or die (allocateFolio, inside the transaction that may be undone).
FoliosDense ==
  /\ {requests[k].folio : k \in Created} = 1..Cardinality(Created)
  /\ nextFolio = Cardinality(Created) + 1

\* Whoever submits a form, first or again, at once or late, is told the folio of the request
\* that holds the detail they sent; who asked for it may be somebody else (sameQuoteRequest
\* compares the origin and the detail).
RepliesTrue ==
  \A r \in replies : /\ DetailOf[requests[r.form].content] = DetailOf[r.content]
                     /\ requests[r.form].folio = r.folio

\* Nobody is told a folio that is not theirs, and no folio is lost or given twice.
SubmissionsSound == FoliosDense /\ RepliesTrue

\* The message is in a notice that asks for attention.
Shown(k, m) == \E i \in DOMAIN notices[k] : Open(notices[k][i]) /\ m \in notices[k][i].about

\* When a message is committed it is in an open notice of its request, even if the notice it
\* was to be added to was read meanwhile; unless the call that sends it looked for one, found
\* none, and an older one was marked unread before it inserted its own.
ActivityShown ==
  [][\A k \in Forms : \A m \in messages'[k] \ messages[k] :
       Shown(k, m)' \/ \E c \in reopened : At(c, "commit") /\ calls[c].message = m]_vars

=============================================================================
