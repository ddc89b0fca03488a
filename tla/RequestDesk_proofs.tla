------------------------ MODULE RequestDesk_proofs -------------------------
(***************************************************************************)
(* The theorems about the request desk: the folios and what is told about  *)
(* them, and that no message is added without a notice that shows it; and  *)
(* about the view of a conversation, which is at the end.                  *)
(*                                                                         *)
(* DeskInv is inductive.  Submissions and messages meet in the calls only, *)
(* so a call's move is shown once, by CallMoves, and each action has then  *)
(* to say which step it moves to and what holds there.                     *)
(***************************************************************************)
EXTENDS ConversationView, SequenceTheorems, FiniteSetTheorems, WellFoundedInduction, TLAPS

FormSteps == {"resolve", "allocate", "create", "replay"}
FormCalls == [step : FormSteps, form : Forms, content : Contents, matches : Nat, folio : Nat]
MessageCalls == [step : Sending, request : Forms, message : Messages, notice : Nat]
Notice == [about : SUBSET Messages, read : BOOLEAN, resolved : BOOLEAN]
AllCalls == FormCalls \cup MessageCalls \cup {Idle}
Requests == [folio : Nat, content : Contents \cup {"nada"}]

DeskTypeOK ==
  /\ requests \in [Forms -> Requests]
  /\ nextFolio \in Nat \ {0} /\ contacts \in [Addresses -> Nat]
  /\ conversations \in [Forms -> {"NINGUNA", "OPEN", "CLOSED"}]
  /\ messages \in [Forms -> SUBSET Messages]
  /\ notices \in [Forms -> Seq(Notice)]
  /\ calls \in [Calls -> AllCalls]
  /\ replies \subseteq [form : Forms, content : Contents, folio : Nat \ {0}]
  /\ reopened \subseteq Calls

\* One submission holds the folio's row, and it holds the next folio.
FolioHeld ==
  \A c \in Calls : calls[c].step = "create" =>
    /\ calls[c].folio = nextFolio
    /\ \A d \in Calls : calls[d].step = "create" => d = c

\* One message at a time is being sent on a request.
OneSender ==
  \A c, d \in Calls : /\ calls[c].step \in Sending /\ calls[d].step \in Sending
                      /\ calls[c].request = calls[d].request
                      => c = d

\* What each step of a message has found out is still so.
Found(c, call) ==
  /\ call.step = "merge" => call.notice \in OpenNotices(call.request)
  /\ call.step = "recreate" => OpenNotices(call.request) = {} \/ c \in reopened
  /\ call.step = "commit" => c \in reopened

StillFound == \A c \in Calls : calls[c].step \in Sending => Found(c, calls[c])

\* No two requests have the same folio.
Distinct == \A j, k \in Created : requests[j].folio = requests[k].folio => j = k

\* Folios can be counted.
Counted == IsFiniteSet(Created) /\ FoliosDense /\ Distinct

\* A submission is replayed because its request exists.
KeyTaken == \A c \in Calls : calls[c].step = "replay" => Exists(calls[c].form)

\* The inductive invariant.
DeskInv == DeskTypeOK /\ FolioHeld /\ KeyTaken /\ OneSender /\ StillFound /\ Counted /\ RepliesTrue

-----------------------------------------------------------------------------
LEMMA StepsApart == FormSteps \cap Sending = {} /\ "libre" \notin FormSteps \cup Sending
BY DEF FormSteps, Sending

\* The step says which kind of call it is.
LEMMA Kinds ==
  ASSUME NEW r \in AllCalls
  PROVE  /\ r.step \in FormSteps => r \in FormCalls
         /\ r.step \in Sending => r \in MessageCalls
         /\ r.step = "libre" => r = Idle
BY StepsApart DEF AllCalls, FormCalls, MessageCalls, Idle

\* Updating a field of a call.
LEMMA FormFields ==
  ASSUME NEW r \in FormCalls, NEW s \in FormSteps, NEW n \in Nat
  PROVE  /\ [r EXCEPT !.step = s] \in FormCalls
         /\ [r EXCEPT !.step = s].step = s
         /\ [r EXCEPT !.step = s].folio = r.folio
         /\ [r EXCEPT !.step = s].form = r.form
         /\ [r EXCEPT !.folio = n] \in FormCalls
         /\ [r EXCEPT !.folio = n].folio = n
         /\ [r EXCEPT !.matches = n] \in FormCalls
BY DEF FormCalls

LEMMA MessageFields ==
  ASSUME NEW r \in MessageCalls, NEW s \in Sending, NEW n \in Nat
  PROVE  /\ [r EXCEPT !.step = s] \in MessageCalls
         /\ [r EXCEPT !.step = s].step = s
         /\ [r EXCEPT !.step = s].request = r.request
         /\ [r EXCEPT !.step = s].notice = r.notice
         /\ [r EXCEPT !.notice = n] \in MessageCalls
         /\ [r EXCEPT !.notice = n].notice = n
         /\ [r EXCEPT !.notice = n].request = r.request
BY DEF MessageCalls

LEMMA IdleStep == Idle.step = "libre" /\ Idle \in AllCalls
BY DEF Idle, AllCalls

-----------------------------------------------------------------------------
LEMMA InitDesk == Init => DeskInv
<1> SUFFICES ASSUME Init PROVE DeskInv
  OBVIOUS
<1>1. DeskTypeOK
  <2>1. requests \in [Forms -> Requests]
    BY DEF Init, Requests, NoRequest
  <2>2. notices \in [Forms -> Seq(Notice)]
    BY EmptySeq DEF Init
  <2> QED BY <2>1, <2>2, IdleStep DEF Init, DeskTypeOK
<1>2. FolioHeld /\ KeyTaken /\ OneSender /\ StillFound
  BY IdleStep, StepsApart DEF Init, FolioHeld, KeyTaken, OneSender, StillFound, FormSteps
<1>3. Counted
  <2>1. Created = {}
    BY DEF Init, Created, Exists
  <2>2. Cardinality(Created) = 0 /\ IsFiniteSet(Created)
    BY <2>1, FS_EmptySet
  <2>3. {requests[k].folio : k \in Created} = {}
    BY <2>1
  <2>4. nextFolio = 1 /\ 1..0 = {}
    BY DEF Init
  <2> QED BY <2>1, <2>2, <2>3, <2>4 DEF Counted, FoliosDense, Distinct
<1> QED
  BY <1>1, <1>2, <1>3 DEF Init, DeskInv, RepliesTrue

\* A call's move changes nothing of the desk but what was told.
LEMMA CallMoves ==
  ASSUME DeskInv, NEW c \in Calls, NEW q \in AllCalls,
         calls' = [calls EXCEPT ![c] = q],
         UNCHANGED <<requests, nextFolio, contacts, conversations, messages, notices>>,
         reopened' = reopened \/ (reopened' = reopened \ {c} /\ q.step = "insert"),
         replies' \subseteq [form : Forms, content : Contents, folio : Nat \ {0}],
         RepliesTrue',
         q.step = "create" => /\ q.folio = nextFolio
                              /\ \A d \in Calls : calls[d].step # "create",
         q.step = "replay" => Exists(q.form),
         q.step \in Sending => /\ Found(c, q)
                               /\ \/ calls[c].step \in Sending /\ calls[c].request = q.request
                                  \/ ~Locked(q.request)
  PROVE  DeskInv'
<1> USE DEF DeskInv
<1>1. DeskTypeOK'
  BY DEF DeskTypeOK
<1>2. FolioHeld' /\ KeyTaken'
  BY DEF DeskTypeOK, FolioHeld, KeyTaken, Exists
<1>3. OneSender'
  BY DEF DeskTypeOK, OneSender, Locked
<1>4. StillFound'
  <2> SUFFICES ASSUME NEW d \in Calls, calls'[d].step \in Sending PROVE Found(d, calls[d])'
    BY DEF StillFound
  <2>1. CASE d = c
    BY <2>1 DEF DeskTypeOK, Found, OpenNotices
  <2>2. CASE d # c
    BY <2>2 DEF DeskTypeOK, StillFound, Found, OpenNotices
  <2> QED BY <2>1, <2>2
<1>5. Counted'
  BY DEF Counted, FoliosDense, Distinct, Created, Exists
<1> QED
  BY <1>1, <1>2, <1>3, <1>4, <1>5

\* The answer of a replay is that of the request as it is.
LEMMA ReplayTrue ==
  ASSUME DeskInv, NEW c \in Calls, NEW k \in Forms, NEW x \in Contents,
         Replayed(c, k, x), Exists(k), UNCHANGED requests
  PROVE  /\ replies' \subseteq [form : Forms, content : Contents, folio : Nat \ {0}]
         /\ RepliesTrue'
<1>1. requests[k].folio \in Nat \ {0}
  <2>1. k \in Created /\ IsFiniteSet(Created)
    BY DEF Created, DeskInv, Counted
  <2>2. requests[k].folio \in 1..Cardinality(Created)
    BY <2>1 DEF DeskInv, Counted, FoliosDense
  <2>3. Cardinality(Created) \in Nat
    BY <2>1, FS_CardinalityType
  <2> QED BY <2>2, <2>3
<1>2. CASE DetailOf[requests[k].content] = DetailOf[x]
  <2>1. replies' = replies \cup {[form |-> k, content |-> x, folio |-> requests[k].folio]}
    BY <1>2 DEF Replayed, SameRequest
  <2> QED BY <1>1, <1>2, <2>1 DEF DeskInv, DeskTypeOK, RepliesTrue
<1>3. CASE DetailOf[requests[k].content] # DetailOf[x]
  BY <1>3 DEF Replayed, SameRequest, DeskInv, DeskTypeOK, RepliesTrue
<1> QED
  BY <1>2, <1>3
-----------------------------------------------------------------------------
LEMMA FindFormKeepsDesk ==
  ASSUME DeskInv, NEW c \in Calls, NEW k \in Forms, NEW x \in Contents, FindForm(c, k, x)
  PROVE  DeskInv'
<1>1. UNCHANGED <<requests, nextFolio, contacts, conversations, messages, notices, reopened>>
  BY DEF FindForm, desk, thread
<1>2. CASE Exists(k)
  <2>1. calls' = [calls EXCEPT ![c] = Idle] /\ Replayed(c, k, x)
    BY <1>2 DEF FindForm, Replayed, Ends
  <2>2. /\ replies' \subseteq [form : Forms, content : Contents, folio : Nat \ {0}]
        /\ RepliesTrue'
    BY <1>1, <1>2, <2>1, ReplayTrue
  <2>3. Idle \in AllCalls /\ Idle.step \notin {"create", "replay"} /\ Idle.step \notin Sending
    BY IdleStep DEF Sending
  <2> QED BY <1>1, <2>1, <2>2, <2>3, CallMoves
<1>3. CASE ~Exists(k)
  <2> DEFINE q == [step |-> "resolve", form |-> k, content |-> x, matches |-> 0, folio |-> 0]
  <2>1. calls' = [calls EXCEPT ![c] = q] /\ UNCHANGED replies
    BY <1>3 DEF FindForm
  <2>2. q \in AllCalls /\ q.step \notin {"create", "replay"} /\ q.step \notin Sending
    BY DEF AllCalls, FormCalls, FormSteps, Sending
  <2>3. /\ replies' \subseteq [form : Forms, content : Contents, folio : Nat \ {0}]
        /\ RepliesTrue'
    BY <1>1, <2>1 DEF DeskInv, DeskTypeOK, RepliesTrue
  <2> HIDE DEF q
  <2> QED BY <1>1, <2>1, <2>2, <2>3, CallMoves
<1> QED
  BY <1>2, <1>3

\* The steps of a submission before it writes.
LEMMA PreparingKeepsDesk ==
  ASSUME DeskInv, NEW c \in Calls, ResolveContact(c) \/ AllocateFolio(c)
  PROVE  DeskInv'
<1>1. /\ UNCHANGED <<requests, nextFolio, contacts, conversations, messages, notices, reopened>>
      /\ UNCHANGED replies
  BY DEF ResolveContact, AllocateFolio, desk, thread
<1>2. /\ replies' \subseteq [form : Forms, content : Contents, folio : Nat \ {0}]
      /\ RepliesTrue'
  BY <1>1 DEF DeskInv, DeskTypeOK, RepliesTrue
<1>3. /\ calls[c] \in FormCalls /\ nextFolio \in Nat /\ calls[c] \in AllCalls
      /\ contacts[AddressOf[calls[c].content]] \in Nat
  <2>1. calls[c].step \in FormSteps
    BY DEF ResolveContact, AllocateFolio, At, FormSteps
  <2>2. calls[c] \in AllCalls
    BY DEF DeskInv, DeskTypeOK
  <2>3. calls[c] \in FormCalls
    BY <2>1, <2>2, Kinds
  <2>4. AddressOf[calls[c].content] \in Addresses
    BY <2>3 DEF FormCalls, Addresses
  <2> QED BY <2>2, <2>3, <2>4 DEF DeskInv, DeskTypeOK
<1>4. CASE ResolveContact(c)
  <2> DEFINE p == [calls[c] EXCEPT !.matches = contacts[AddressOf[calls[c].content]]]
             q == [p EXCEPT !.step = "allocate"]
  <2>1. calls' = [calls EXCEPT ![c] = q]
    BY <1>4 DEF ResolveContact
  <2>2. p \in FormCalls
    BY <1>3, FormFields DEF FormSteps
  <2> HIDE DEF p
  <2>3. q \in FormCalls /\ q.step = "allocate"
    BY <2>2, FormFields DEF FormSteps
  <2>4. q \in AllCalls /\ q.step \notin Sending
    BY <2>3 DEF AllCalls, Sending
  <2> HIDE DEF q
  <2> QED BY <1>1, <1>2, <2>1, <2>3, <2>4, CallMoves
<1>5. CASE AllocateFolio(c)
  <2> DEFINE p == [calls[c] EXCEPT !.folio = nextFolio]
             q == [p EXCEPT !.step = "create"]
  <2>1. calls' = [calls EXCEPT ![c] = q] /\ \A d \in Calls : calls[d].step # "create"
    BY <1>5 DEF AllocateFolio, At
  <2>2. p \in FormCalls /\ p.folio = nextFolio
    BY <1>3, FormFields DEF FormSteps
  <2> HIDE DEF p
  <2>3. q \in FormCalls /\ q.step = "create" /\ q.folio = nextFolio
    BY <2>2, FormFields DEF FormSteps
  <2>4. q \in AllCalls /\ q.step \notin Sending
    BY <2>3 DEF AllCalls, Sending
  <2> HIDE DEF q
  <2> QED BY <1>1, <1>2, <2>1, <2>3, <2>4, CallMoves
<1> QED
  BY <1>4, <1>5

\* A request takes the next folio, which nobody has, and the sequence moves on.
LEMMA CreationKeepsDesk ==
  ASSUME DeskInv, NEW c \in Calls, CreateRequest(c), ~Exists(calls[c].form)
  PROVE  DeskInv'
<1> DEFINE k == calls[c].form
           x == calls[c].content
           r == [folio |-> nextFolio, content |-> x]
<1>1. calls[c] \in FormCalls /\ calls[c].folio = nextFolio
  <2>1. calls[c].step = "create"
    BY DEF CreateRequest, At
  <2>2. calls[c] \in AllCalls
    BY DEF DeskInv, DeskTypeOK
  <2> QED BY <2>1, <2>2, Kinds DEF DeskInv, FolioHeld, FormSteps
<1>2. k \in Forms /\ x \in Contents
  BY <1>1 DEF FormCalls
<1>3. /\ requests' = [requests EXCEPT ![k] = r]
      /\ nextFolio' = nextFolio + 1
      /\ replies' = replies \cup {[form |-> k, content |-> x, folio |-> nextFolio]}
      /\ calls' = [calls EXCEPT ![c] = Idle]
      /\ UNCHANGED <<conversations, messages, notices, reopened>>
  BY <1>1 DEF CreateRequest, Ends, thread
<1>4. contacts' \in [Addresses -> Nat]
  <2> DEFINE a == AddressOf[x]
  <2>1. contacts' = contacts \/ contacts' = [contacts EXCEPT ![a] = @ + 1]
    BY DEF CreateRequest
  <2>2. a \in Addresses /\ contacts \in [Addresses -> Nat]
    BY <1>2 DEF Addresses, DeskInv, DeskTypeOK
  <2> HIDE DEF a
  <2> QED BY <2>1, <2>2
<1>5. nextFolio \in Nat \ {0} /\ r \in Requests /\ r # NoRequest
  BY <1>2 DEF DeskInv, DeskTypeOK, Requests, NoRequest
<1>6. DeskTypeOK'
  <2>1. calls' \in [Calls -> AllCalls]
    BY <1>3, IdleStep DEF DeskInv, DeskTypeOK
  <2>2. replies' \subseteq [form : Forms, content : Contents, folio : Nat \ {0}]
    BY <1>2, <1>3, <1>5 DEF DeskInv, DeskTypeOK
  <2>3. requests' \in [Forms -> Requests] /\ nextFolio' \in Nat \ {0}
    BY <1>2, <1>3, <1>5 DEF DeskInv, DeskTypeOK
  <2> QED BY <1>3, <1>4, <2>1, <2>2, <2>3 DEF DeskInv, DeskTypeOK
<1>7. (FolioHeld /\ KeyTaken /\ OneSender /\ StillFound)'
  <2>1. Idle.step \notin {"create", "replay"} /\ Idle.step \notin Sending
    BY IdleStep DEF Sending
  <2>2. \A d \in Calls : d # c => calls'[d] = calls[d] /\ calls'[d].step # "create"
    BY <1>3 DEF DeskInv, DeskTypeOK, FolioHeld, CreateRequest, At
  <2>3. calls'[c] = Idle
    BY <1>3 DEF DeskInv, DeskTypeOK
  <2>4. \A j \in Forms : Exists(j) => Exists(j)'
    BY <1>2, <1>3, <1>5 DEF Exists, DeskInv, DeskTypeOK
  <2>5. \A d \in Calls : calls[d].step = "replay" => calls[d].form \in Forms
    BY Kinds DEF FormSteps, FormCalls, DeskInv, DeskTypeOK
  <2>6. KeyTaken'
    BY <2>1, <2>2, <2>3, <2>4, <2>5 DEF DeskInv, KeyTaken
  <2> QED BY <1>3, <2>1, <2>2, <2>3, <2>6 DEF DeskInv, FolioHeld, OneSender, StillFound, Found, OpenNotices
<1>8. Counted'
  <2>1. Created' = Created \cup {k} /\ k \notin Created
    BY <1>2, <1>3, <1>5 DEF Created, Exists, DeskInv, DeskTypeOK
  <2>2. /\ IsFiniteSet(Created) /\ nextFolio = Cardinality(Created) + 1
        /\ {requests[j].folio : j \in Created} = 1..Cardinality(Created)
    BY DEF DeskInv, Counted, FoliosDense
  <2>3. IsFiniteSet(Created') /\ Cardinality(Created') = Cardinality(Created) + 1
    BY <2>1, <2>2, FS_AddElement
  <2>4. {requests'[j].folio : j \in Created'} = {requests[j].folio : j \in Created} \cup {nextFolio}
    <3>1. requests'[k].folio = nextFolio
      BY <1>2, <1>3 DEF DeskInv, DeskTypeOK
    <3>2. \A j \in Created : requests'[j] = requests[j]
      BY <1>3, <2>1 DEF DeskInv, DeskTypeOK, Created
    <3> QED BY <2>1, <3>1, <3>2
  <2>5. Cardinality(Created) \in Nat
    BY <2>2, FS_CardinalityType
  <2>6. \A n \in Nat : 1..n + 1 = (1..n) \cup {n + 1}
    OBVIOUS
  <2>7. Distinct'
    <3>1. \A j \in Created : requests'[j] = requests[j] /\ requests[j].folio \in 1..Cardinality(Created)
      BY <1>3, <2>1, <2>2 DEF DeskInv, DeskTypeOK, Created
    <3>2. requests'[k].folio = Cardinality(Created) + 1
      BY <1>2, <1>3, <2>2 DEF DeskInv, DeskTypeOK
    <3>3. \A j \in Created : requests'[j].folio # requests'[k].folio
      BY <2>5, <3>1, <3>2
    <3> QED BY <2>1, <3>1, <3>3 DEF Distinct, DeskInv, Counted
  <2> QED BY <1>3, <2>2, <2>3, <2>4, <2>5, <2>6, <2>7 DEF Counted, FoliosDense
<1>9. RepliesTrue'
  <2>1. \A a \in replies : a.form \in Forms /\ a.folio # 0 /\ a.form # k
    BY DEF DeskInv, DeskTypeOK, RepliesTrue, Exists, NoRequest
  <2>2. \A a \in replies : requests'[a.form] = requests[a.form]
    BY <1>3, <2>1 DEF DeskInv, DeskTypeOK
  <2>3. requests'[k] = r
    BY <1>2, <1>3 DEF DeskInv, DeskTypeOK
  <2> QED BY <1>3, <2>2, <2>3 DEF RepliesTrue, DeskInv
<1> QED
  BY <1>6, <1>7, <1>8, <1>9 DEF DeskInv

\* What is left of a submission: the key was taken, and then the replay.
LEMMA ReplayingKeepsDesk ==
  ASSUME DeskInv, NEW c \in Calls,
         Replay(c) \/ (CreateRequest(c) /\ Exists(calls[c].form))
  PROVE  DeskInv'
<1>1. calls[c] \in FormCalls
  <2>1. calls[c].step \in FormSteps
    BY DEF CreateRequest, Replay, At, FormSteps
  <2>2. calls[c] \in AllCalls
    BY DEF DeskInv, DeskTypeOK
  <2> QED BY <2>1, <2>2, Kinds
<1>2. CASE CreateRequest(c) /\ Exists(calls[c].form)
  <2> DEFINE q == [calls[c] EXCEPT !.step = "replay"]
  <2>1. /\ UNCHANGED <<requests, nextFolio, contacts, conversations, messages, notices, reopened>>
        /\ UNCHANGED replies /\ calls' = [calls EXCEPT ![c] = q]
    BY <1>2 DEF CreateRequest, Goes, desk, thread
  <2>2. q \in FormCalls /\ q.step = "replay" /\ q.form = calls[c].form
    BY <1>1, FormFields DEF FormSteps
  <2>3. q \in AllCalls /\ q.step \notin Sending
    BY <2>2 DEF AllCalls, Sending
  <2>4. /\ replies' \subseteq [form : Forms, content : Contents, folio : Nat \ {0}]
        /\ RepliesTrue'
    BY <2>1 DEF DeskInv, DeskTypeOK, RepliesTrue
  <2> HIDE DEF q
  <2> QED BY <1>2, <2>1, <2>2, <2>3, <2>4, CallMoves
<1>3. CASE Replay(c)
  <2>1. /\ UNCHANGED <<requests, nextFolio, contacts, conversations, messages, notices, reopened>>
        /\ Replayed(c, calls[c].form, calls[c].content)
        /\ calls' = [calls EXCEPT ![c] = Idle]
    BY <1>3 DEF Replay, Replayed, Ends, desk, thread
  <2>2. Idle \in AllCalls /\ Idle.step \notin {"create", "replay"} /\ Idle.step \notin Sending
    BY IdleStep DEF Sending
  <2>3. /\ replies' \subseteq [form : Forms, content : Contents, folio : Nat \ {0}]
        /\ RepliesTrue'
    <3>1. calls[c].form \in Forms /\ calls[c].content \in Contents
      BY <1>1 DEF FormCalls
    <3>2. Exists(calls[c].form)
      BY <1>3 DEF Replay, At, DeskInv, KeyTaken
    <3> QED BY <2>1, <3>1, <3>2, ReplayTrue
  <2> QED BY <2>1, <2>2, <2>3, CallMoves
<1> QED
  BY <1>2, <1>3
-----------------------------------------------------------------------------
\* The steps of a message before it commits.
LEMMA LockingKeepsDesk ==
  ASSUME DeskInv, NEW c \in Calls, NEW m \in Messages, LockRequest(c, m)
  PROVE  DeskInv'
<1> DEFINE q == [step |-> "insert", request |-> RequestOf[m], message |-> m, notice |-> 0]
<1>1. /\ UNCHANGED <<requests, nextFolio, contacts, conversations, messages, notices>>
      /\ UNCHANGED replies /\ calls' = [calls EXCEPT ![c] = q] /\ ~Locked(RequestOf[m])
      /\ reopened' = reopened \ {c}
  BY DEF LockRequest, desk, thread
<1>2. q \in AllCalls /\ q.step = "insert" /\ q.request = RequestOf[m]
  BY RequestDeskAssumption DEF AllCalls, MessageCalls, Sending
<1>3. /\ replies' \subseteq [form : Forms, content : Contents, folio : Nat \ {0}]
      /\ RepliesTrue'
  BY <1>1 DEF DeskInv, DeskTypeOK, RepliesTrue
<1>4. Found(c, q)
  BY <1>2 DEF Found
<1> HIDE DEF q
<1> QED
  BY <1>1, <1>2, <1>3, <1>4, CallMoves

\* A message that goes on, as p, with the step s.
LEMMA SendingGoesOn ==
  ASSUME DeskInv, NEW c \in Calls, NEW p \in MessageCalls, NEW s \in Sending,
         calls' = [calls EXCEPT ![c] = [p EXCEPT !.step = s]],
         calls[c].step \in Sending, p.request = calls[c].request,
         UNCHANGED <<desk, thread, notices, replies, reopened>>,
         s = "merge" => p.notice \in OpenNotices(p.request),
         s = "recreate" => OpenNotices(p.request) = {} \/ c \in reopened,
         s = "commit" => c \in reopened
  PROVE  DeskInv'
<1> DEFINE q == [p EXCEPT !.step = s]
<1>1. q \in MessageCalls /\ q.step = s /\ q.request = p.request /\ q.notice = p.notice
  BY MessageFields
<1>2. q \in AllCalls /\ Found(c, q) /\ s \notin {"create", "replay"}
  BY <1>1 DEF AllCalls, Found, Sending
<1>3. /\ replies' \subseteq [form : Forms, content : Contents, folio : Nat \ {0}]
      /\ RepliesTrue'
  BY DEF DeskInv, DeskTypeOK, RepliesTrue, desk
<1>4. UNCHANGED <<requests, nextFolio, contacts, conversations, messages, notices, reopened>>
  BY DEF desk, thread
<1>5. calls' = [calls EXCEPT ![c] = q]
  OBVIOUS
<1> HIDE DEF q
<1> QED
  BY <1>1, <1>2, <1>3, <1>4, <1>5, CallMoves

LEMMA NoticeKeepsDesk ==
  ASSUME DeskInv, NEW c \in Calls, InsertNotice(c) \/ LockOpenGroup(c) \/ CreateNotice(c)
  PROVE  DeskInv'
<1>1. /\ calls[c] \in MessageCalls /\ calls[c].step \in Sending
      /\ calls[c].request \in Forms /\ Found(c, calls[c])
  <2>1. calls[c].step \in Sending
    BY DEF InsertNotice, LockOpenGroup, CreateNotice, At, Sending
  <2>2. calls[c] \in AllCalls
    BY DEF DeskInv, DeskTypeOK
  <2>3. calls[c] \in MessageCalls
    BY <2>1, <2>2, Kinds
  <2> QED BY <2>1, <2>3 DEF MessageCalls, DeskInv, StillFound
<1>2. UNCHANGED <<desk, thread, notices, replies, reopened>>
  BY DEF InsertNotice, LockOpenGroup, CreateNotice
<1>3. CASE InsertNotice(c)
  <2>1. PICK s \in {"open", "lock"} : Goes(c, s)
    BY <1>3 DEF InsertNotice
  <2>2. s \in Sending /\ s \notin {"merge", "recreate", "commit"}
    BY DEF Sending
  <2> QED BY <1>1, <1>2, <2>1, <2>2, SendingGoesOn DEF Goes
<1>4. CASE LockOpenGroup(c)
  <2>1. CASE OpenNotices(calls[c].request) = {} /\ Goes(c, "recreate")
    <3> DEFINE s == "recreate"
    <3>1. s \in Sending BY DEF Sending
    <3> QED BY <1>1, <1>2, <2>1, <3>1, SendingGoesOn DEF Goes
  <2>2. CASE \E i \in OpenNotices(calls[c].request) :
               calls' = [calls EXCEPT ![c].notice = i, ![c].step = "merge"]
    <3>1. PICK i \in OpenNotices(calls[c].request) :
               calls' = [calls EXCEPT ![c].notice = i, ![c].step = "merge"]
      BY <2>2
    <3> DEFINE p == [calls[c] EXCEPT !.notice = i]
               s == "merge"
    <3>2. i \in Nat
      <4>1. notices[calls[c].request] \in Seq(Notice)
        BY <1>1 DEF DeskInv, DeskTypeOK
      <4> QED BY <4>1, LenProperties DEF OpenNotices
    <3>3. s \in Sending BY DEF Sending
    <3>4. p \in MessageCalls /\ p.notice = i /\ p.request = calls[c].request
      <4> HIDE DEF s
      <4> QED BY <1>1, <3>2, <3>3, MessageFields
    <3>5. calls' = [calls EXCEPT ![c] = [p EXCEPT !.step = s]]
      BY <3>1
    <3> HIDE DEF p
    <3> QED BY <1>1, <1>2, <3>3, <3>4, <3>5, SendingGoesOn
  <2> QED BY <1>4, <2>1, <2>2 DEF LockOpenGroup
<1>5. CASE CreateNotice(c)
  <2>1. PICK s \in {"open", "commit"} :
           Goes(c, s) /\ (s = "commit" => OpenNotices(calls[c].request) # {})
    BY <1>5 DEF CreateNotice
  <2>2. s \in Sending /\ s \notin {"merge", "recreate"}
    BY DEF Sending
  <2>3. s = "commit" => c \in reopened
    BY <1>1, <1>5, <2>1 DEF CreateNotice, At, Found
  <2> QED BY <1>1, <1>2, <2>1, <2>2, <2>3, SendingGoesOn DEF Goes
<1> QED
  BY <1>3, <1>4, <1>5

-----------------------------------------------------------------------------
\* Steps that change the notices of k, and perhaps end the call c, which was sending on it. No
\* other call has found out anything about them, unless the person is who moves.
LEMMA NoticesMove ==
  ASSUME DeskInv, NEW k \in Forms, NEW ns \in Seq(Notice),
         notices' = [notices EXCEPT ![k] = ns],
         UNCHANGED <<requests, nextFolio, contacts, replies>>,
         conversations' \in [Forms -> {"NINGUNA", "OPEN", "CLOSED"}],
         messages' \in [Forms -> SUBSET Messages],
         reopened' \subseteq Calls, reopened \subseteq reopened',
         \/ UNCHANGED calls
         \/ \E c \in Calls : calls' = [calls EXCEPT ![c] = Idle],
         \A d \in Calls : calls'[d].step \in Sending /\ calls'[d].request = k => Found(d, calls[d])'
  PROVE  DeskInv'
<1> USE DEF DeskInv
<1>1. \A d \in Calls : calls'[d] = calls[d] \/ calls'[d] = Idle
  BY DEF DeskTypeOK
<1>2. Idle.step \notin {"create", "replay"} /\ Idle.step \notin Sending
  BY IdleStep DEF Sending
<1>3. DeskTypeOK'
  <2>1. calls' \in [Calls -> AllCalls]
    BY IdleStep DEF DeskTypeOK
  <2>2. notices' \in [Forms -> Seq(Notice)]
    BY DEF DeskTypeOK
  <2> QED BY <2>1, <2>2 DEF DeskTypeOK
<1>4. (FolioHeld /\ KeyTaken /\ OneSender)'
  BY <1>1, <1>2 DEF FolioHeld, KeyTaken, OneSender, Exists
<1>5. StillFound'
  <2> SUFFICES ASSUME NEW d \in Calls, calls'[d].step \in Sending
               PROVE  Found(d, calls[d])'
    BY DEF StillFound
  <2>1. calls'[d] = calls[d] /\ calls[d].step \in Sending
    BY <1>1, <1>2
  <2>2. CASE calls[d].request = k
    BY <2>1, <2>2
  <2>3. CASE calls[d].request # k
    <3>1. calls[d].request \in Forms
      BY <2>1, Kinds DEF DeskTypeOK, MessageCalls
    <3>2. notices'[calls[d].request] = notices[calls[d].request]
      BY <2>3, <3>1 DEF DeskTypeOK
    <3>3. Found(d, calls[d])
      BY <2>1 DEF StillFound
    <3> QED BY <2>1, <3>1, <3>2, <3>3 DEF Found, OpenNotices
  <2> QED BY <2>2, <2>3
<1>6. (Counted /\ RepliesTrue)'
  <2>1. Created' = Created
    BY DEF Created, Exists
  <2>2. \A f \in Forms : requests'[f] = requests[f]
    OBVIOUS
  <2>3. {requests'[f].folio : f \in Created} = {requests[f].folio : f \in Created}
    BY <2>2
  <2>4. Counted'
    BY <2>1, <2>3 DEF Counted, FoliosDense, Distinct
  <2> QED BY <2>4 DEF RepliesTrue
<1> QED
  BY <1>3, <1>4, <1>5, <1>6
\* What a message writes at its commit, according to the step it was at.
LEMMA CommitWrites ==
  ASSUME DeskInv, NEW c \in Calls, CommitMessage(c)
  PROVE  LET k == calls[c].request
             m == calls[c].message
             i == calls[c].notice
         IN /\ k \in Forms /\ m \in Messages /\ calls[c].step \in Sending /\ Found(c, calls[c])
            /\ messages' = [messages EXCEPT ![k] = @ \cup {m}]
            /\ calls' = [calls EXCEPT ![c] = Idle]
            /\ \E ns \in Seq(Notice) :
                 /\ notices' = [notices EXCEPT ![k] = ns]
                 /\ \/ At(c, "commit")
                    \/ /\ At(c, "merge") /\ i \in DOMAIN ns
                       /\ m \in ns[i].about /\ Open(ns[i])
                    \/ /\ At(c, "open") /\ Len(ns) \in DOMAIN ns
                       /\ m \in ns[Len(ns)].about /\ Open(ns[Len(ns)])
<1> DEFINE k == calls[c].request
           m == calls[c].message
           i == calls[c].notice
<1>1. /\ k \in Forms /\ m \in Messages /\ calls[c].step \in Sending /\ Found(c, calls[c])
      /\ calls[c] \in MessageCalls
  <2>1. calls[c].step \in Sending
    BY DEF CommitMessage, Sending
  <2>2. calls[c] \in AllCalls
    BY DEF DeskInv, DeskTypeOK
  <2>3. calls[c] \in MessageCalls
    BY <2>1, <2>2, Kinds
  <2> QED BY <2>1, <2>3 DEF MessageCalls, DeskInv, StillFound
<1>2. /\ messages' = [messages EXCEPT ![k] = @ \cup {m}]
      /\ calls' = [calls EXCEPT ![c] = Idle]
      /\ notices' = CASE At(c, "merge") -> [notices EXCEPT ![k] = Extended(@, i, m)]
                      [] At(c, "open") -> [notices EXCEPT ![k] = Opened(@, m)]
                      [] At(c, "commit") -> notices
  BY DEF CommitMessage, Ends
<1>3. notices[k] \in Seq(Notice) /\ notices \in [Forms -> Seq(Notice)]
  BY <1>1 DEF DeskInv, DeskTypeOK
<1>4. CASE At(c, "commit")
  <2>1. notices' = [notices EXCEPT ![k] = notices[k]]
    BY <1>2, <1>3, <1>4 DEF At
  <2> QED BY <1>1, <1>2, <1>3, <1>4, <2>1
<1>5. CASE At(c, "merge")
  <2> DEFINE n == notices[k][i]
             e == [n EXCEPT !.about = n.about \cup {m}]
             ns == [notices[k] EXCEPT ![i] = e]
  <2>1. i \in OpenNotices(k)
    BY <1>1, <1>5 DEF At, Found
  <2>2. i \in 1..Len(notices[k]) /\ Open(n) /\ n \in Notice
    BY <1>3, <2>1, LenProperties, ElementOfSeq DEF OpenNotices
  <2>3. e \in Notice /\ m \in e.about /\ Open(e)
    BY <1>1, <2>2 DEF Notice, Open
  <2>4. /\ ns \in Seq(Notice) /\ Len(ns) = Len(notices[k])
        /\ ns[i] = e
    <3> HIDE DEF e
    <3> QED BY <1>3, <2>2, <2>3, ExceptSeq
  <2>5. i \in DOMAIN ns
    BY <1>3, <2>2, <2>4, LenProperties
  <2>6. notices' = [notices EXCEPT ![k] = ns]
    BY <1>2, <1>5 DEF At, Extended
  <2> HIDE DEF ns
  <2> QED BY <1>1, <1>2, <1>5, <2>3, <2>4, <2>5, <2>6
<1>6. CASE At(c, "open")
  <2> DEFINE e == [about |-> {m}, read |-> FALSE, resolved |-> FALSE]
             ns == Append(notices[k], e)
  <2>1. e \in Notice /\ m \in e.about /\ Open(e)
    BY <1>1 DEF Notice, Open
  <2>2. ns \in Seq(Notice) /\ Len(ns) \in DOMAIN ns /\ ns[Len(ns)] = e
    <3> HIDE DEF e
    <3> QED BY <1>3, <2>1
  <2>3. notices' = [notices EXCEPT ![k] = ns]
    BY <1>2, <1>6 DEF At, Opened
  <2> HIDE DEF ns
  <2> QED BY <1>1, <1>2, <1>6, <2>1, <2>2, <2>3
<1> QED
  BY <1>4, <1>5, <1>6 DEF CommitMessage, At

LEMMA CommitKeepsDesk ==
  ASSUME DeskInv, NEW c \in Calls, CommitMessage(c)
  PROVE  DeskInv'
<1> DEFINE k == calls[c].request
           m == calls[c].message
<1>1. /\ k \in Forms /\ m \in Messages /\ calls[c].step \in Sending
      /\ messages' = [messages EXCEPT ![k] = @ \cup {m}]
      /\ calls' = [calls EXCEPT ![c] = Idle]
  BY CommitWrites, Zenon
<1>2. PICK ns \in Seq(Notice) : notices' = [notices EXCEPT ![k] = ns]
  BY CommitWrites, Zenon
<1>3. messages' \in [Forms -> SUBSET Messages]
  BY <1>1 DEF DeskInv, DeskTypeOK
<1>4. /\ UNCHANGED <<requests, nextFolio, contacts, replies, reopened>>
      /\ conversations' \in [Forms -> {"NINGUNA", "OPEN", "CLOSED"}]
  BY <1>1 DEF CommitMessage, desk, DeskInv, DeskTypeOK
<1>5. \A d \in Calls : calls'[d].step \in Sending /\ calls'[d].request = k => FALSE
  <2>1. calls'[c] = Idle /\ \A d \in Calls : d # c => calls'[d] = calls[d]
    BY <1>1 DEF DeskInv, DeskTypeOK
  <2>2. Idle.step \notin Sending
    BY IdleStep DEF Sending
  <2> QED BY <1>1, <2>1, <2>2 DEF DeskInv, OneSender
<1>6. reopened' \subseteq Calls /\ reopened \subseteq reopened'
  BY <1>4 DEF DeskInv, DeskTypeOK
<1> QED
  BY <1>1, <1>2, <1>3, <1>4, <1>5, <1>6, NoticesMove

\* The rest: conversations, resolutions and deaths.
LEMMA OthersKeepDesk ==
  ASSUME DeskInv,
         \/ \E k \in Forms : MoveConversation(k) \/ ResolveGroup(k)
         \/ \E c \in Calls : Die(c)
  PROVE  DeskInv'
<1>1. ASSUME NEW k \in Forms, MoveConversation(k) PROVE DeskInv'
  <2>1. /\ notices' = [notices EXCEPT ![k] = notices[k]] /\ notices[k] \in Seq(Notice)
        /\ UNCHANGED <<requests, nextFolio, contacts, replies, notices, reopened, calls, messages>>
        /\ conversations' \in [Forms -> {"NINGUNA", "OPEN", "CLOSED"}]
    BY <1>1 DEF MoveConversation, desk, DeskInv, DeskTypeOK
  <2>2. \A d \in Calls : calls'[d].step \in Sending /\ calls'[d].request = k => FALSE
    BY <1>1, <2>1 DEF MoveConversation, Locked
  <2>3. messages' \in [Forms -> SUBSET Messages] /\ reopened' \subseteq Calls /\ reopened \subseteq reopened'
    BY <2>1 DEF DeskInv, DeskTypeOK
  <2> QED BY <2>1, <2>2, <2>3, NoticesMove
<1>2. ASSUME NEW k \in Forms, ResolveGroup(k) PROVE DeskInv'
  <2> DEFINE ns == [i \in DOMAIN notices[k] |-> [notices[k][i] EXCEPT !.resolved = TRUE]]
  <2>1. ns \in Seq(Notice)
    <3>1. notices[k] \in Seq(Notice)
      BY DEF DeskInv, DeskTypeOK
    <3>2. \A r \in Notice : [r EXCEPT !.resolved = TRUE] \in Notice
      BY DEF Notice
    <3>3. ns \in [1..Len(notices[k]) -> Notice] /\ Len(notices[k]) \in Nat
      BY <3>1, <3>2, LenProperties, ElementOfSeq
    <3>4. ASSUME NEW n \in Nat, NEW f \in [1..n -> Notice] PROVE f \in Seq(Notice)
      OBVIOUS
    <3> QED BY <3>3, <3>4
  <2>2. /\ notices' = [notices EXCEPT ![k] = ns]
        /\ UNCHANGED <<requests, nextFolio, contacts, replies, reopened, calls, messages, conversations>>
    BY <1>2 DEF ResolveGroup, desk, thread
  <2>3. \A d \in Calls : calls'[d].step \in Sending /\ calls'[d].request = k => FALSE
    BY <1>2, <2>2 DEF ResolveGroup, Locked
  <2>4. /\ messages' \in [Forms -> SUBSET Messages] /\ reopened' \subseteq Calls /\ reopened \subseteq reopened'
        /\ conversations' \in [Forms -> {"NINGUNA", "OPEN", "CLOSED"}]
    BY <2>2 DEF DeskInv, DeskTypeOK
  <2> HIDE DEF ns
  <2> QED BY <2>1, <2>2, <2>3, <2>4, NoticesMove
<1>3. ASSUME NEW c \in Calls, Die(c) PROVE DeskInv'
  <2>1. /\ UNCHANGED <<requests, nextFolio, contacts, conversations, messages, notices, reopened>>
        /\ UNCHANGED replies /\ calls' = [calls EXCEPT ![c] = Idle]
    BY <1>3 DEF Die, Ends, desk, thread
  <2>2. Idle \in AllCalls /\ Idle.step \notin {"create", "replay"} /\ Idle.step \notin Sending
    BY IdleStep DEF Sending
  <2>3. /\ replies' \subseteq [form : Forms, content : Contents, folio : Nat \ {0}]
        /\ RepliesTrue'
    BY <2>1 DEF DeskInv, DeskTypeOK, RepliesTrue
  <2> QED BY <2>1, <2>2, <2>3, CallMoves
<1> QED
  BY <1>1, <1>2, <1>3

\* The person who attends the request reads a notice, or marks it unread again.
LEMMA PersonKeepsDesk ==
  ASSUME DeskInv, NEW k \in Forms, NEW i \in DOMAIN notices[k], MarkRead(k, i) \/ MarkUnread(k, i)
  PROVE  DeskInv'
<1> DEFINE old == notices[k]
           to == ~old[i].read
           e == [old[i] EXCEPT !.read = to]
           ns == [old EXCEPT ![i] = e]
<1>1. old \in Seq(Notice) /\ i \in 1..Len(old) /\ DOMAIN old = 1..Len(old) /\ old[i] \in Notice
  <2>1. old \in Seq(Notice)
    BY DEF DeskInv, DeskTypeOK
  <2> QED BY <2>1, LenProperties, ElementOfSeq
<1>2. e \in Notice /\ e.read = to /\ e.resolved = old[i].resolved
  BY <1>1 DEF Notice
<1>3. /\ ns \in Seq(Notice) /\ DOMAIN ns = DOMAIN old
      /\ \A j \in DOMAIN old : ns[j] = IF j = i THEN e ELSE old[j]
  <2> HIDE DEF e
  <2>1. ns \in Seq(Notice) /\ Len(ns) = Len(old)
    BY <1>1, <1>2, ExceptSeq
  <2> QED BY <1>1, <1>2, <2>1, ExceptSeq, LenProperties
<1>4. /\ notices' = [notices EXCEPT ![k] = ns] /\ notices'[k] = ns
      /\ UNCHANGED <<requests, nextFolio, contacts, replies, calls, messages, conversations>>
  <2>1. notices' = [notices EXCEPT ![k] = ns]
    <3>1. to \in BOOLEAN /\ (MarkRead(k, i) => to = TRUE) /\ (MarkUnread(k, i) => to = FALSE)
      BY <1>1 DEF MarkRead, MarkUnread, Notice
    <3> QED BY <3>1 DEF MarkRead, MarkUnread
  <2> QED BY <2>1 DEF MarkRead, MarkUnread, desk, thread, DeskInv, DeskTypeOK
<1>5. /\ reopened' \subseteq Calls /\ reopened \subseteq reopened'
      /\ MarkUnread(k, i) =>
           \A d \in Calls : At(d, "recreate") /\ calls[d].request = k => d \in reopened'
  BY DEF MarkRead, MarkUnread, DeskInv, DeskTypeOK
<1>6. ASSUME NEW d \in Calls, calls'[d].step \in Sending, calls'[d].request = k
      PROVE  Found(d, calls[d])'
  <2>1. calls'[d] = calls[d] /\ Found(d, calls[d]) /\ calls[d].request = k
    BY <1>4, <1>6 DEF DeskInv, StillFound
  <2>2. CASE MarkRead(k, i)
    <3>1. \A j \in DOMAIN old : Open(ns[j]) => Open(old[j])
      BY <1>1, <1>2, <1>3, <2>2 DEF MarkRead, Open
    <3>2. \A j \in OpenNotices(k) : j # i => Open(ns[j])
      BY <1>3 DEF OpenNotices
    <3>3. OpenNotices(k)' = {j \in DOMAIN ns : Open(ns[j])}
      BY <1>4 DEF OpenNotices, Open
    <3>4. calls[d].step = "merge" => calls[d].notice # i
      BY <2>1, <2>2 DEF MarkRead, Merging, At
    <3> HIDE DEF ns
    <3> QED BY <1>3, <1>5, <2>1, <3>1, <3>2, <3>3, <3>4 DEF Found, OpenNotices
  <2>3. CASE MarkUnread(k, i)
    <3>1. calls[d].step = "merge" => calls[d].notice # i
      BY <1>1, <2>1, <2>3 DEF MarkUnread, Found, OpenNotices, Open
    <3>2. \A j \in OpenNotices(k) : j # i => j \in DOMAIN ns /\ Open(ns[j])
      BY <1>3 DEF OpenNotices
    <3>3. OpenNotices(k)' = {j \in DOMAIN ns : Open(ns[j])}
      BY <1>4 DEF OpenNotices, Open
    <3>4. (At(d, "recreate") => d \in reopened') /\ reopened \subseteq reopened'
      BY <1>5, <2>1, <2>3
    <3> HIDE DEF ns
    <3> QED BY <2>1, <3>1, <3>2, <3>3, <3>4 DEF Found, At
  <2> QED BY <2>2, <2>3
<1>7. /\ messages' \in [Forms -> SUBSET Messages]
      /\ conversations' \in [Forms -> {"NINGUNA", "OPEN", "CLOSED"}]
  BY <1>4 DEF DeskInv, DeskTypeOK
<1> HIDE DEF ns
<1> QED
  BY <1>3, <1>4, <1>5, <1>6, <1>7, NoticesMove
LEMMA DeskStays == DeskInv /\ [Next]_vars => DeskInv'
<1> SUFFICES ASSUME DeskInv, [Next]_vars PROVE DeskInv'
  OBVIOUS
<1>1. CASE UNCHANGED vars
  <2>1. UNCHANGED <<requests, nextFolio, contacts, conversations, messages, notices, calls, replies, reopened>>
    BY <1>1 DEF vars, desk, thread
  <2>2. (DeskTypeOK /\ FolioHeld /\ KeyTaken)'
    BY <2>1 DEF DeskInv, DeskTypeOK, FolioHeld, KeyTaken, Exists
  <2>3. (OneSender /\ StillFound)'
    BY <2>1 DEF DeskInv, OneSender, StillFound, Found, OpenNotices
  <2>4. Counted' /\ RepliesTrue'
    BY <2>1 DEF DeskInv, Counted, FoliosDense, Distinct, Created, Exists, RepliesTrue
  <2> QED BY <2>2, <2>3, <2>4 DEF DeskInv
<1>2. ASSUME NEW c \in Calls, Submit(c) PROVE DeskInv'
  BY <1>2, FindFormKeepsDesk, PreparingKeepsDesk, CreationKeepsDesk, ReplayingKeepsDesk DEF Submit
<1>3. ASSUME NEW c \in Calls, Send(c) PROVE DeskInv'
  BY <1>3, LockingKeepsDesk, NoticeKeepsDesk, CommitKeepsDesk DEF Send
<1> QED
  BY <1>1, <1>2, <1>3, OthersKeepDesk, PersonKeepsDesk DEF Next

\* Messages are posted only by the commit of a call that was sending them.
LEMMA OnlyCommitsPost ==
  ASSUME DeskInv, [Next]_vars, messages' # messages
  PROVE  \E c \in Calls : CommitMessage(c)
<1>1. ASSUME NEW c \in Calls, Submit(c) \/ Die(c) PROVE FALSE
  BY <1>1 DEF Submit, FindForm, ResolveContact, AllocateFolio, CreateRequest, Replay, Die, thread
<1>2. ASSUME NEW c \in Calls, Send(c) PROVE CommitMessage(c)
  BY <1>2 DEF Send, LockRequest, InsertNotice, LockOpenGroup, CreateNotice, thread
<1>3. ASSUME NEW j \in Forms, MoveConversation(j) \/ ResolveGroup(j) PROVE FALSE
  BY <1>3 DEF MoveConversation, ResolveGroup, thread
<1>4. ASSUME NEW j \in Forms, NEW i \in DOMAIN notices[j], MarkRead(j, i) \/ MarkUnread(j, i)
      PROVE FALSE
  BY <1>4 DEF MarkRead, MarkUnread, thread
<1> QED
  BY <1>1, <1>2, <1>3, <1>4 DEF Next, vars, thread

\* What a message that is in no open notice has met.
Met(m) == \E c \in reopened : At(c, "commit") /\ calls[c].message = m

\* A message appears only at the commit that sent it, with the notice that shows it.
LEMMA ShownStep ==
  DeskInv /\ [Next]_vars =>
    \A k \in Forms : \A m \in messages'[k] \ messages[k] : Shown(k, m)' \/ Met(m)
<1> SUFFICES ASSUME DeskInv, [Next]_vars, NEW k \in Forms, NEW m \in messages'[k] \ messages[k]
             PROVE  Shown(k, m)' \/ Met(m)
  OBVIOUS
<1>1. PICK c \in Calls : CommitMessage(c)
  BY OnlyCommitsPost
<1>2. k = calls[c].request /\ m = calls[c].message
  <2>1. calls[c].request \in Forms
        /\ messages' = [messages EXCEPT ![calls[c].request] = @ \cup {calls[c].message}]
    BY <1>1, CommitWrites, Zenon
  <2> QED BY <2>1 DEF DeskInv, DeskTypeOK
<1>3. PICK ns \in Seq(Notice) :
         /\ notices' = [notices EXCEPT ![k] = ns]
         /\ \/ At(c, "commit")
            \/ \E i \in DOMAIN ns : m \in ns[i].about /\ Open(ns[i])
  BY <1>1, <1>2, CommitWrites, Zenon
<1>4. notices'[k] = ns
  BY <1>3 DEF DeskInv, DeskTypeOK
<1>5. CASE At(c, "commit")
  BY <1>2, <1>5 DEF DeskInv, StillFound, Found, At, Sending, Met
<1>6. CASE \E i \in DOMAIN ns : m \in ns[i].about /\ Open(ns[i])
  BY <1>4, <1>6 DEF Shown, Open
<1> QED
  BY <1>3, <1>5, <1>6

-----------------------------------------------------------------------------
LEMMA DeskAlways == Spec => []DeskInv
<1> QED
  BY InitDesk, DeskStays, PTL DEF Spec

\* Folios are dense and unique, and whoever submits is told the folio of a request with the
\* detail they sent; not that it is in their name.
THEOREM SubmissionsCorrect == Spec => []SubmissionsSound
<1>1. DeskInv => SubmissionsSound
  BY DEF DeskInv, Counted, SubmissionsSound
<1> QED
  BY <1>1, DeskAlways, PTL

\* No two requests have the same folio.
THEOREM FoliosUnique == Spec => []Distinct
<1>1. DeskInv => Distinct
  BY DEF DeskInv, Counted
<1> QED
  BY <1>1, DeskAlways, PTL

\* When a message is committed an open notice of its request shows it, unless its call had found
\* no open notice and an older one was marked unread before it inserted one.
THEOREM MessagesAreShown == Spec => ActivityShown
<1>1. DeskInv /\ [Next]_vars =>
        [\A k \in Forms : \A m \in messages'[k] \ messages[k] :
           Shown(k, m)' \/ \E c \in reopened : At(c, "commit") /\ calls[c].message = m]_vars
  BY ShownStep DEF Met
<1> QED
  BY <1>1, DeskAlways, PTL DEF Spec, ActivityShown
-----------------------------------------------------------------------------
(* The live view of a conversation.  That it skips no message depends on   *)
(* what each fetch still carries: ViewInv says it of every fetch, and says *)
(* who will show each message that the view does not show yet.             *)

\* The instants that have been taken are in one order, after the beginning.
Ordered ==
  /\ \A m, n \in Timed : m # n => After(m, n) \/ After(n, m)
  /\ \A m \in Timed : ~After(m, m)
  /\ \A l, m, n \in Timed : After(l, m) /\ After(m, n) => After(l, n)
  /\ \A p \in order : p[2] \in Timed /\ p[1] \in {NoMessage} \cup Timed

\* A message has its instant before it is sent, and keeps it.
SentTimed ==
  /\ Posted \subseteq Timed /\ IsFiniteSet(Posted)
  /\ \A c \in Calls : calls[c].step \in Sending => calls[c].message \in Timed

Place == Posted \cup {NoMessage}
FetchSteps == {"libre", "page", "latest", "mark", "answer", "error"}
FetchRecords == [step : FetchSteps, whole : BOOLEAN, items : SUBSET Posted, from : Place,
                 more : BOOLEAN, latest : Place]

ViewTypeOK ==
  /\ shown \subseteq Posted /\ cursor \in Place /\ mark \in Place
  /\ signalled \in BOOLEAN
  /\ fetches \in [Fetches -> FetchRecords]

\* A fetch, too, passes over nothing but what it brings, what is shown and what committed out
\* of order.
Passes(r) == \A m \in Posted : m \in r.items \cup shown \cup overtaken \/ <<r.from, m>> \in order
FetchPassesOver == \A f \in Fetches : fetches[f].step \notin {"libre", "error"} => Passes(fetches[f])

\* A fetch will show a message, or say that it failed.
Brings(r, m) ==
  \/ r.step \in {"page", "error"}
  \/ r.step \in {"latest", "mark"} /\ (r.more \/ m \in r.items)
  \/ r.step = "answer" /\ m \in r.items

ShownOrComing ==
  \A m \in Posted : m \in shown \cup overtaken \cup missed \/ signalled
                    \/ \E f \in Fetches : Brings(fetches[f], m)

ViewInv ==
  /\ Ordered /\ SentTimed /\ ViewTypeOK
  /\ NothingPassedOver /\ FetchPassesOver /\ ShownOrComing

-----------------------------------------------------------------------------
(* Instants.                                                               *)

LEMMA NobodysMessage == NoMessage \notin Messages /\ NoMessage \notin Timed
  BY ConversationViewAssumption DEF Timed

\* What is posted has an instant, and is not the beginning.
LEMMA PostedTimed ==
  ASSUME Ordered, SentTimed
  PROVE  /\ \A m \in Posted : m \in Timed /\ m \in Messages /\ m # NoMessage /\ After(m, NoMessage)
         /\ \A m, n \in Place : After(m, n) => m \in Posted
         /\ \A l, m, n \in Place : After(l, m) /\ After(m, n) => After(l, n)
         /\ \A m, n \in Place : After(m, n) => ~After(n, m) /\ m # n
         /\ \A m, n \in Place : m # n => After(m, n) \/ After(n, m)
  <1>1. \A m \in Posted : m \in Timed /\ m \in Messages /\ m # NoMessage /\ After(m, NoMessage)
    BY NobodysMessage DEF SentTimed, Timed
  <1>2. \A m : ~After(NoMessage, m)
    BY NobodysMessage DEF Ordered, After
  <1>3. \A l, m, n \in Place : After(l, m) /\ After(m, n) => After(l, n)
    <2>1. SUFFICES ASSUME NEW l \in Place, NEW m \in Place, NEW n \in Place, After(l, m), After(m, n)
                   PROVE  After(l, n)
      OBVIOUS
    <2>2. l \in Timed /\ m \in Timed
      BY <1>1, <1>2, <2>1 DEF Place
    <2>3. CASE n = NoMessage
      BY <2>2, <2>3 DEF Timed
    <2>4. CASE n \in Posted
      BY <1>1, <2>1, <2>2, <2>4 DEF Ordered
    <2>. QED  BY <2>3, <2>4 DEF Place
  <1>4. \A m \in Place : ~After(m, m)
    BY <1>1, <1>2 DEF Place, Ordered
  <1>5. \A m, n \in Place : m # n => After(m, n) \/ After(n, m)
    BY <1>1 DEF Place, Ordered
  <1>. QED  BY <1>1, <1>2, <1>3, <1>4, <1>5 DEF Place

\* Messages that are posted have a latest one.
LEMMA LatestIsLatest ==
  ASSUME Ordered, SentTimed, NEW ms \in SUBSET Posted, ms # {}
  PROVE  LatestOf(ms) \in ms /\ \A n \in ms : ~After(n, LatestOf(ms))
  <1>. DEFINE Above(m) == {n \in ms : After(n, m)}
              T == {Above(m) : m \in ms}
  <1>1. IsFiniteSet(ms)
    BY FS_Subset DEF SentTimed
  <1>2. \A m \in ms : Above(m) \in FiniteSubsetsOf(ms)
    BY <1>1, FS_Subset DEF FiniteSubsetsOf
  <1>3. T \subseteq FiniteSubsetsOf(ms) /\ T # {}
    BY <1>2
  <1>4. PICK x \in T : \A y \in T : <<y, x>> \notin StrictSubsetOrdering(ms)
    <2>. HIDE DEF T
    <2>. QED  BY <1>3, FS_StrictSubsetOrderingWellFounded, WFMin
  <1>5. PICK m \in ms : x = Above(m)
    BY <1>4
  <1>6. \A n \in ms : ~After(n, m)
    <2>1. SUFFICES ASSUME NEW n \in ms, After(n, m)  PROVE FALSE
      OBVIOUS
    <2>2. ms \subseteq Place
      BY DEF Place
    <2>3. Above(n) \subseteq Above(m) /\ n \in Above(m) /\ n \notin Above(n)
      BY <2>1, <2>2, PostedTimed
    <2>4. Above(n) \in SUBSET ms /\ Above(m) \in SUBSET ms /\ Above(n) # Above(m)
      BY <2>3
    <2>5. <<Above(n), Above(m)>> \in StrictSubsetOrdering(ms)
      <3>1. ASSUME NEW a \in SUBSET ms, NEW b \in SUBSET ms, a \subseteq b, a # b
            PROVE  <<a, b>> \in StrictSubsetOrdering(ms)
        BY <3>1 DEF StrictSubsetOrdering
      <3>. HIDE DEF Above
      <3>. QED  BY <2>3, <2>4, <3>1
    <2>6. Above(n) \in T
      OBVIOUS
    <2>. HIDE DEF Above, T
    <2>. QED  BY <1>4, <1>5, <2>5, <2>6
  <1>. QED  BY <1>6 DEF LatestOf

\* Taking an instant moves a message that nobody has sent yet, and only that one.
LEMMA InstantTaken ==
  ASSUME Ordered, NEW m \in Messages,
         order' = {p \in order : m \notin {p[1], p[2]}} \cup (({NoMessage} \cup Timed) \ {m}) \X {m}
  PROVE  /\ Timed' = Timed \cup {m}
         /\ Ordered'
         /\ \A a, b : a # m /\ b # m => (After(a, b)' <=> After(a, b))
  <1>1. \A a, b : a # m /\ b # m => (After(a, b)' <=> After(a, b))
    BY DEF After
  <1>2. \A b : After(m, b)' <=> b \in {NoMessage} \cup Timed /\ b # m
    BY DEF After
  <1>3. \A a : ~After(a, m)' \/ a = m
    BY DEF After
  <1>4. m # NoMessage
    BY NobodysMessage
  <1>5. Timed' = Timed \cup {m}
    BY <1>1, <1>2, <1>4 DEF Timed
  <1>6. \A p \in order' : p[2] \in Timed' /\ p[1] \in {NoMessage} \cup Timed'
    BY <1>5 DEF Ordered
  <1>7. \A a, b \in Timed' : a # b => After(a, b)' \/ After(b, a)'
    BY <1>1, <1>2, <1>5 DEF Ordered
  <1>8. \A a \in Timed' : ~After(a, a)'
    BY <1>1, <1>2, <1>5 DEF Ordered
  <1>9. \A l, a, b \in Timed' : After(l, a)' /\ After(a, b)' => After(l, b)'
    BY <1>1, <1>2, <1>3, <1>5 DEF Ordered
  <1>. QED  BY <1>1, <1>5, <1>6, <1>7, <1>8, <1>9 DEF Ordered

-----------------------------------------------------------------------------
(* The fetches.                                                            *)

\* What a fetch holds.
LEMMA FetchTyped ==
  ASSUME ViewTypeOK, NEW f \in Fetches
  PROVE  /\ fetches[f] \in FetchRecords /\ fetches[f].step \in FetchSteps
         /\ fetches[f].whole \in BOOLEAN /\ fetches[f].items \subseteq Posted
         /\ fetches[f].from \in Place /\ fetches[f].more \in BOOLEAN /\ fetches[f].latest \in Place
  <1>1. fetches[f] \in FetchRecords
    BY DEF ViewTypeOK
  <1>. QED  BY <1>1, SMT DEF FetchRecords

\* A fetch goes to another step.
LEMMA StepSet ==
  ASSUME NEW r \in FetchRecords, NEW s \in FetchSteps, NEW q, q = [r EXCEPT !.step = s]
  PROVE  /\ q \in FetchRecords /\ q.step = s /\ q.whole = r.whole /\ q.items = r.items
         /\ q.from = r.from /\ q.more = r.more /\ q.latest = r.latest
  BY SMT DEF FetchRecords

\* A fetch at rest, and the records it starts again from.
LEMMA FixedRecords ==
  /\ Resting \in FetchRecords /\ Resting.step = "libre" /\ Resting.items = {}
  /\ \A s \in FetchSteps : /\ [Resting EXCEPT !.step = s] \in FetchRecords
                           /\ [Resting EXCEPT !.step = s].step = s
                           /\ [Resting EXCEPT !.step = s].items = {}
  /\ NoMessage \in Place
  <1>1. NoMessage \in Place /\ {} \in SUBSET Posted /\ "libre" \in FetchSteps /\ FALSE \in BOOLEAN
    BY DEF Place, FetchSteps
  <1>2. Resting \in FetchRecords
    BY <1>1, SMT DEF Resting, FetchRecords
  <1>3. Resting.step = "libre" /\ Resting.items = {}
    BY DEF Resting
  <1>. QED  BY <1>1, <1>2, <1>3, StepSet

\* A step of one fetch.  It may show messages, move the cursor or answer a signal, but what
\* it was bringing it brings, shows or misses.
LEMMA FetchStep ==
  ASSUME ViewInv, NEW f \in Fetches, NEW r \in FetchRecords, fetches' = [fetches EXCEPT ![f] = r],
         UNCHANGED <<messages, calls, order, overtaken>>,
         shown \subseteq shown', shown' \subseteq Posted, missed \subseteq missed',
         cursor' \in Place, mark' \in Place, signalled' \in BOOLEAN,
         cursor' = cursor \/ \A m \in Posted : m \in shown' \cup overtaken \/ After(m, cursor'),
         r.step \notin {"libre", "error"} => Passes(r),
         signalled => signalled' \/ r.step = "page",
         \A m \in Posted : Brings(fetches[f], m) => Brings(r, m) \/ m \in shown' \cup overtaken \cup missed'
  PROVE  ViewInv'
  <1>1. fetches'[f] = r /\ \A g \in Fetches : g # f => fetches'[g] = fetches[g]
    BY DEF ViewInv, ViewTypeOK
  <1>2. Posted' = Posted /\ Timed' = Timed /\ Place' = Place /\ FetchRecords' = FetchRecords
    BY DEF Posted, Timed, After, Place, FetchRecords
  <1>3. Ordered'
    BY <1>2 DEF ViewInv, Ordered, After
  <1>4. SentTimed'
    BY <1>2 DEF ViewInv, SentTimed
  <1>5. ViewTypeOK'
    <2>1. fetches' \in [Fetches -> FetchRecords]
      BY DEF ViewInv, ViewTypeOK
    <2>. QED  BY <1>2, <2>1 DEF ViewInv, ViewTypeOK
  <1>6. NothingPassedOver'
    BY <1>2 DEF ViewInv, NothingPassedOver, After
  <1>7. FetchPassesOver'
    <2>1. ASSUME NEW g \in Fetches, fetches'[g].step \notin {"libre", "error"}
          PROVE  Passes(fetches[g])'
      <3>1. Passes(fetches'[g])
        BY <1>1, <2>1 DEF ViewInv, FetchPassesOver
      <3>. QED  BY <1>2, <3>1 DEF Passes
    <2>. QED  BY <2>1 DEF FetchPassesOver
  <1>8. ShownOrComing'
    <2>1. ASSUME NEW m \in Posted
          PROVE  \/ m \in shown' \cup overtaken' \cup missed' \/ signalled'
                 \/ \E g \in Fetches : Brings(fetches'[g], m)
      <3>1. CASE m \in shown \cup overtaken \cup missed
        BY <3>1
      <3>2. CASE signalled
        BY <1>1, <3>2 DEF Brings
      <3>3. CASE \E g \in Fetches : Brings(fetches[g], m)
        BY <1>1, <3>3
      <3>. QED  BY <3>1, <3>2, <3>3 DEF ViewInv, ShownOrComing
    <2>. QED  BY <1>2, <2>1 DEF ShownOrComing, Brings
  <1>. QED  BY <1>3, <1>4, <1>5, <1>6, <1>7, <1>8 DEF ViewInv

\* A signal starts a fetch from the cursor, and a retry one of the whole conversation.
LEMMA FetchBegins ==
  ASSUME ViewInv, NEW f \in Fetches, FetchNewer(f) \/ Retry(f)
  PROVE  ViewInv'
  <1>1. UNCHANGED <<messages, calls, order, shown, cursor, mark, overtaken, missed>>
    BY DEF FetchNewer, Retry, vars, thread, page
  <1>2. \A m \in Posted : ~Brings(fetches[f], m) \/ fetches[f].step = "error"
    BY DEF FetchNewer, Retry, Is, Brings
  <1>3. "page" \in FetchSteps /\ cursor \in Place /\ signalled \in BOOLEAN /\ mark \in Place
    BY DEF FetchSteps, ViewInv, ViewTypeOK
  <1>4. PICK q : q = [Resting EXCEPT !.step = "page"]
    OBVIOUS
  <1>5. q \in FetchRecords /\ q.step = "page" /\ q.items = {}
    BY <1>3, <1>4, FixedRecords
  <1>6. \A m \in Posted : After(m, NoMessage)
    BY PostedTimed DEF ViewInv
  <1>7. CASE FetchNewer(f)
    <2>1. PICK r : r = [q EXCEPT !.from = cursor]
      OBVIOUS
    <2>2. fetches' = [fetches EXCEPT ![f] = r] /\ signalled' = FALSE
      BY <1>4, <1>7, <2>1 DEF FetchNewer
    <2>3. r \in FetchRecords /\ r.step = "page" /\ r.from = cursor /\ r.items = {}
      BY <1>3, <1>5, <2>1, SMT DEF FetchRecords
    <2>4. Passes(r)
      BY <2>3 DEF Passes, ViewInv, NothingPassedOver, After
    <2>5. \A m \in Posted : Brings(r, m)
      BY <2>3 DEF Brings
    <2>. QED  BY <1>1, <1>3, <2>2, <2>3, <2>4, <2>5, FetchStep DEF ViewInv, ViewTypeOK
  <1>8. CASE Retry(f)
    <2>1. PICK r : r = [q EXCEPT !.whole = TRUE]
      OBVIOUS
    <2>2. fetches' = [fetches EXCEPT ![f] = r] /\ signalled' = signalled
      BY <1>4, <1>8, <2>1 DEF Retry, page
    <2>3. r \in FetchRecords /\ r.step = "page" /\ r.from = NoMessage /\ r.items = {}
      <3>1. q.from = NoMessage
        BY <1>4 DEF Resting
      <3>2. \A b \in BOOLEAN : /\ [q EXCEPT !.whole = b] \in FetchRecords
                               /\ [q EXCEPT !.whole = b].step = q.step
                               /\ [q EXCEPT !.whole = b].from = q.from
                               /\ [q EXCEPT !.whole = b].items = q.items
        BY <1>5, SMT DEF FetchRecords
      <3>3. TRUE \in BOOLEAN
        OBVIOUS
      <3>. QED  BY <1>5, <2>1, <3>1, <3>2, <3>3
    <2>4. Passes(r)
      BY <1>6, <2>3 DEF Passes, After
    <2>5. \A m \in Posted : Brings(r, m)
      BY <2>3 DEF Brings
    <2>. QED  BY <1>1, <1>3, <2>2, <2>3, <2>4, <2>5, FetchStep DEF ViewInv, ViewTypeOK
  <1>. QED  BY <1>7, <1>8

\* A page is read: everything up to its last message is on it.
LEMMA PageIsRead ==
  ASSUME ViewInv, NEW f \in Fetches, ReadPage(f)
  PROVE  ViewInv'
  <1>. DEFINE old == fetches[f]
              items == old.items \cup OnPage(f)
              from == IF OnPage(f) = {} THEN old.from ELSE LatestOf(PageEnd(f))
              more == OnPage(f) # Ahead(f)
  <1>1. /\ UNCHANGED <<messages, calls, order, shown, cursor, signalled, mark, overtaken, missed>>
        /\ old.step = "page"
        /\ fetches' = [fetches EXCEPT ![f].step = "latest", ![f].items = items,
                                      ![f].from = from, ![f].more = more]
    BY DEF ReadPage, Is, vars, thread, page
  <1>2. old \in FetchRecords /\ old.from \in Place /\ old.items \subseteq Posted
    BY FetchTyped DEF ViewInv
  <1>3. OnPage(f) \subseteq Ahead(f) /\ Ahead(f) \subseteq Posted
    BY DEF OnPage, Ahead
  <1>4. ASSUME OnPage(f) # {}
        PROVE  from \in OnPage(f) /\ \A n \in OnPage(f) : ~After(n, from)
    BY <1>3, <1>4, LatestIsLatest DEF ViewInv, PageEnd
  <1>5. items \in SUBSET Posted /\ from \in Place /\ more \in BOOLEAN
    <2>1. items \in SUBSET Posted /\ more \in BOOLEAN
      BY <1>2, <1>3
    <2>2. from \in Place
      BY <1>2, <1>3, <1>4 DEF Place
    <2>. QED  BY <2>1, <2>2
  <1>6. \A m \in Posted : m \in items \cup shown \cup overtaken \/ After(m, from)
    <2>1. SUFFICES ASSUME NEW m \in Posted, m \notin items \cup shown \cup overtaken
                   PROVE  After(m, from)
      OBVIOUS
    <2>2. After(m, old.from)
      BY <1>1, <2>1 DEF ViewInv, FetchPassesOver, Passes, After
    <2>3. m \in Ahead(f) /\ m \notin OnPage(f)
      BY <2>1, <2>2 DEF Ahead
    <2>4. CASE OnPage(f) = {}
      BY <2>2, <2>4
    <2>5. CASE OnPage(f) # {}
      <3>. DEFINE l == from
                  Before(n) == {k \in Ahead(f) : After(n, k)}
      <3>1. l \in OnPage(f) /\ l \in Place /\ m \in Place /\ l # m
        BY <1>4, <1>5, <2>1, <2>3, <2>5 DEF Place
      <3>2. SUFFICES ASSUME ~After(m, l)  PROVE FALSE
        OBVIOUS
      <3>. HIDE DEF from
      <3>3. After(l, m)
        BY <3>1, <3>2, PostedTimed DEF ViewInv
      <3>4. Before(m) \subseteq Before(l)
        <4>1. Ahead(f) \subseteq Place
          BY <1>3 DEF Place
        <4>. QED  BY <3>1, <3>3, <4>1, PostedTimed DEF ViewInv
      <3>5. IsFiniteSet(Before(l)) /\ IsFiniteSet(Before(m))
        BY <1>3, FS_Subset DEF ViewInv, SentTimed
      <3>6. /\ Cardinality(Before(m)) <= Cardinality(Before(l))
            /\ Cardinality(Before(m)) \in Nat /\ Cardinality(Before(l)) \in Nat
        BY <3>4, <3>5, FS_Subset, FS_CardinalityType
      <3>7. Cardinality(Before(l)) < PageSize /\ PageSize \in Nat
        BY <3>1, ConversationViewAssumption DEF OnPage
      <3>8. Cardinality(Before(m)) < PageSize
        <4>. HIDE DEF Before
        <4>. QED  BY <3>6, <3>7, SMT
      <3>. QED  BY <2>3, <3>8 DEF OnPage
    <2>. QED  BY <2>4, <2>5
  <1>7. \A m \in Posted : m \in items \cup shown \cup overtaken \/ more
    <2>1. SUFFICES ASSUME NEW m \in Posted, m \notin items \cup shown \cup overtaken
                   PROVE  more
      OBVIOUS
    <2>2. After(m, old.from)
      BY <1>1, <2>1 DEF ViewInv, FetchPassesOver, Passes, After
    <2>3. m \in Ahead(f) /\ m \notin OnPage(f)
      BY <2>1, <2>2 DEF Ahead
    <2>. QED  BY <2>3
  <1>. HIDE DEF items, from, more, old
  <1>8. PICK a : a = [old EXCEPT !.step = "latest"]
    OBVIOUS
  <1>9. PICK b : b = [a EXCEPT !.items = items]
    OBVIOUS
  <1>10. PICK c : c = [b EXCEPT !.from = from]
    OBVIOUS
  <1>11. PICK r : r = [c EXCEPT !.more = more]
    OBVIOUS
  <1>12. fetches' = [fetches EXCEPT ![f] = r]
    BY <1>1, <1>8, <1>9, <1>10, <1>11 DEF old
  <1>13. a \in FetchRecords /\ a.step = "latest"
    <2>1. "latest" \in FetchSteps
      BY DEF FetchSteps
    <2>. QED  BY <1>2, <1>8, <2>1, StepSet
  <1>14. b \in FetchRecords /\ b.step = "latest" /\ b.items = items
    BY <1>5, <1>9, <1>13, SMT DEF FetchRecords
  <1>15. c \in FetchRecords /\ c.step = "latest" /\ c.items = items /\ c.from = from
    BY <1>5, <1>10, <1>14, SMT DEF FetchRecords
  <1>16. r \in FetchRecords /\ r.step = "latest" /\ r.items = items /\ r.from = from /\ r.more = more
    BY <1>5, <1>11, <1>15, SMT DEF FetchRecords
  <1>17. Passes(r)
    BY <1>6, <1>16 DEF Passes, After
  <1>18. \A m \in Posted : Brings(r, m) \/ m \in shown \cup overtaken \cup missed
    BY <1>7, <1>16 DEF Brings
  <1>. QED  BY <1>1, <1>12, <1>16, <1>17, <1>18, FetchStep DEF ViewInv, ViewTypeOK

\* The conversation is marked as read, or not, and the fetch goes on.
LEMMA FetchGoesOn ==
  ASSUME ViewInv, NEW f \in Fetches, FindLatest(f) \/ MarkConversationRead(f) \/ MarkFails(f)
  PROVE  ViewInv'
  <1>. DEFINE old == fetches[f]
  <1>1. /\ UNCHANGED <<messages, calls, order, shown, cursor, signalled, overtaken, missed>>
        /\ old.step \in {"latest", "mark"}
    BY DEF FindLatest, MarkConversationRead, MarkFails, Is, vars, thread, page
  <1>2. old \in FetchRecords /\ old.latest \in Place /\ Passes(old)
    BY <1>1, FetchTyped DEF ViewInv, FetchPassesOver
  <1>3. mark' \in Place
    BY <1>2 DEF FindLatest, MarkConversationRead, MarkFails, MarkedFarthest, ViewInv, ViewTypeOK
  <1>4. PICK r \in FetchRecords :
          /\ fetches' = [fetches EXCEPT ![f] = r] /\ r.items = old.items /\ r.from = old.from
          /\ \/ r.step = "mark" /\ r.more = old.more
             \/ r.step = IF old.more THEN "page" ELSE "answer"
    <2>1. CASE FindLatest(f)
      <3>1. LatestOf(Posted) \in Place
        BY LatestIsLatest DEF ViewInv, LatestOf, Place
      <3>2. PICK a : a = [old EXCEPT !.step = "mark"]
        OBVIOUS
      <3>3. /\ a \in FetchRecords /\ a.step = "mark" /\ a.items = old.items
            /\ a.from = old.from /\ a.more = old.more
        <4>1. "mark" \in FetchSteps
          BY DEF FetchSteps
        <4>. QED  BY <1>2, <3>2, <4>1, StepSet
      <3>4. PICK r : r = [a EXCEPT !.latest = LatestOf(Posted)]
        OBVIOUS
      <3>5. fetches' = [fetches EXCEPT ![f] = r]
        BY <2>1, <3>2, <3>4 DEF FindLatest
      <3>6. /\ r \in FetchRecords /\ r.step = "mark" /\ r.items = a.items
            /\ r.from = a.from /\ r.more = a.more
        BY <3>1, <3>3, <3>4, SMT DEF FetchRecords
      <3>. QED  BY <3>3, <3>5, <3>6
    <2>2. CASE MarkConversationRead(f) \/ MarkFails(f)
      <3>1. PICK s \in FetchSteps : s = IF old.more THEN "page" ELSE "answer"
        BY DEF FetchSteps
      <3>2. PICK r : r = [old EXCEPT !.step = s]
        OBVIOUS
      <3>3. fetches' = [fetches EXCEPT ![f] = r]
        BY <2>2, <3>1, <3>2 DEF MarkConversationRead, MarkFails, GoesOn, Moves
      <3>4. /\ r \in FetchRecords /\ r.step = s /\ r.items = old.items /\ r.from = old.from
        BY <1>2, <3>2, StepSet
      <3>. QED  BY <3>1, <3>3, <3>4
    <2>. QED  BY <2>1, <2>2
  <1>5. Passes(r)
    BY <1>2, <1>4 DEF Passes
  <1>6. \A m \in Posted : Brings(old, m) => Brings(r, m)
    BY <1>1, <1>4 DEF Brings
  <1>. HIDE DEF old
  <1>. QED  BY <1>1, <1>3, <1>4, <1>5, <1>6, FetchStep DEF ViewInv, ViewTypeOK, old

\* A fetch ends: what it brings is shown, or what is not shown was missed.
LEMMA FetchEnds ==
  ASSUME ViewInv, NEW f \in Fetches, Answer(f) \/ FetchFails(f)
  PROVE  ViewInv'
  <1>1. UNCHANGED <<messages, calls, order, signalled, mark, overtaken>>
    BY DEF Answer, FetchFails, vars, thread, page
  <1>2. /\ fetches[f].step \notin {"libre", "error"} /\ fetches[f].items \subseteq Posted
        /\ fetches[f].from \in Place /\ Passes(fetches[f])
    BY FetchTyped DEF Answer, FetchFails, Is, ViewInv, FetchPassesOver
  <1>3. CASE Answer(f)
    <2>1. /\ shown' = shown \cup fetches[f].items /\ missed' = missed
          /\ cursor' \in {cursor, fetches[f].from}
          /\ fetches' = [fetches EXCEPT ![f] = Resting] /\ fetches[f].step = "answer"
      BY <1>3 DEF Answer, Is
    <2>2. \A m \in Posted : m \in shown' \cup overtaken \/ After(m, fetches[f].from)
      BY <1>2, <2>1 DEF Passes, After
    <2>3. cursor' = cursor \/ \A m \in Posted : m \in shown' \cup overtaken \/ After(m, cursor')
      BY <2>1, <2>2
    <2>4. \A m \in Posted : Brings(fetches[f], m) => m \in shown'
      BY <2>1 DEF Brings
    <2>5. cursor' \in Place /\ shown' \subseteq Posted /\ shown \subseteq shown'
      BY <1>2, <2>1 DEF ViewInv, ViewTypeOK
    <2>. QED  BY <1>1, <2>1, <2>3, <2>4, <2>5, FixedRecords, FetchStep DEF ViewInv, ViewTypeOK
  <1>4. CASE FetchFails(f)
    <2>1. PICK s \in {"error", "libre"} : fetches' = [fetches EXCEPT ![f] = [Resting EXCEPT !.step = s]]
      BY <1>4 DEF FetchFails
    <2>2. s \in FetchSteps
      BY DEF FetchSteps
    <2>3. PICK r : r = [Resting EXCEPT !.step = s]
      OBVIOUS
    <2>4. r \in FetchRecords /\ r.step = s /\ fetches' = [fetches EXCEPT ![f] = r]
      BY <2>1, <2>2, <2>3, FixedRecords
    <2>5. /\ missed' = missed \cup (Posted \ shown) /\ UNCHANGED <<shown, cursor>>
      BY <1>4 DEF FetchFails, page
    <2>. QED  BY <1>1, <2>4, <2>5, FetchStep DEF ViewInv, ViewTypeOK
  <1>. QED  BY <1>3, <1>4

-----------------------------------------------------------------------------
(* The desk, seen from the view.                                           *)

LEMMA DeskPosts ==
  ASSUME DeskInv, SentTimed, [Next]_vars
  PROVE  \/ Posted' = Posted
         \/ \E m \in Timed : Posted' = Posted \cup {m}
  <1>1. CASE messages' = messages
    BY <1>1 DEF Posted
  <1>2. CASE messages' # messages
    <2>1. PICK c \in Calls : CommitMessage(c)
      BY <1>2, OnlyCommitsPost
    <2>2. /\ calls[c].step \in Sending /\ calls[c].request \in Forms
          /\ messages' = [messages EXCEPT ![calls[c].request] = @ \cup {calls[c].message}]
      BY <2>1, CommitWrites, Zenon
    <2>3. calls[c].message \in Timed
      BY <2>2 DEF SentTimed
    <2>4. Viewed \in Forms /\ messages \in [Forms -> SUBSET Messages]
      BY ConversationViewAssumption DEF DeskInv, DeskTypeOK
    <2>5. Posted' = IF Viewed = calls[c].request THEN Posted \cup {calls[c].message} ELSE Posted
      BY <2>2, <2>4 DEF Posted
    <2>. QED  BY <2>3, <2>5
  <1>. QED  BY <1>1, <1>2

\* A step of the desk: what it posts is after all that was posted, or overtaken; and the view
\* is told.
LEMMA DeskTells ==
  ASSUME DeskInv, ViewInv, DeskStep
  PROVE  ViewInv'
  <1>1. /\ UNCHANGED <<order, shown, cursor, fetches, mark, missed>>
        /\ \A c \in Calls : calls'[c].step \in Sending => calls'[c].message \in Timed
        /\ signalled' = (signalled \/ Posted' \ Posted # {})
        /\ overtaken' = overtaken \cup {m \in Posted' \ Posted : \E n \in Posted : After(n, m)}
        /\ [Next]_vars
    BY DEF DeskStep, Commits, Posted
  <1>2. \/ Posted' = Posted
        \/ \E m \in Timed : Posted' = Posted \cup {m}
    BY <1>1, DeskPosts DEF ViewInv
  <1>3. Posted \subseteq Posted' /\ Posted' \subseteq Timed /\ IsFiniteSet(Posted')
    BY <1>2, FS_AddElement DEF ViewInv, SentTimed
  <1>4. Timed' = Timed
    BY <1>1 DEF Timed, After
  <1>5. Ordered'
    BY <1>1, <1>4 DEF ViewInv, Ordered, After
  <1>6. SentTimed'
    BY <1>1, <1>3, <1>4 DEF SentTimed
  <1>7. ASSUME NEW m \in Posted', m \notin Posted, NEW n \in Place
        PROVE  m \in overtaken' \/ After(m, n)
    <2>1. CASE n = NoMessage
      BY <1>3, <1>7, <2>1 DEF Timed
    <2>2. CASE n \in Posted
      <3>1. m \in Timed /\ n \in Timed /\ m # n
        BY <1>3, <1>7, <2>2
      <3>2. After(m, n) \/ After(n, m)
        BY <3>1 DEF ViewInv, Ordered
      <3>. QED  BY <1>1, <1>7, <2>2, <3>2
    <2>. QED  BY <2>1, <2>2 DEF Place
  <1>8. ViewTypeOK'
    <2>1. FetchRecords \subseteq FetchRecords'
      <3>1. Place \subseteq Place' /\ FetchSteps' = FetchSteps
        BY <1>3 DEF Place, FetchSteps
      <3>2. SUBSET Posted \subseteq SUBSET Posted'
        BY <1>3
      <3>. QED  BY <3>1, <3>2, SMT DEF FetchRecords
    <2>2. fetches' \in [Fetches -> FetchRecords']
      BY <1>1, <2>1 DEF ViewInv, ViewTypeOK
    <2>3. signalled' \in BOOLEAN
      BY <1>1
    <2>. QED  BY <1>1, <1>3, <2>2, <2>3 DEF ViewInv, ViewTypeOK, Place
  <1>9. NothingPassedOver'
    <2>1. ASSUME NEW m \in Posted'  PROVE  m \in shown' \/ m \in overtaken' \/ After(m, cursor)
      <3>1. CASE m \in Posted
        BY <1>1, <3>1 DEF ViewInv, NothingPassedOver
      <3>2. CASE m \notin Posted
        BY <1>7, <3>2 DEF ViewInv, ViewTypeOK
      <3>. QED  BY <3>1, <3>2
    <2>. QED  BY <1>1, <2>1 DEF NothingPassedOver, After
  <1>10. FetchPassesOver'
    <2>1. ASSUME NEW f \in Fetches, fetches[f].step \notin {"libre", "error"}, NEW m \in Posted'
          PROVE  m \in fetches[f].items \cup shown' \cup overtaken' \/ After(m, fetches[f].from)
      <3>1. CASE m \in Posted
        BY <1>1, <2>1, <3>1 DEF ViewInv, FetchPassesOver, Passes, After
      <3>2. CASE m \notin Posted
        <4>1. fetches[f].from \in Place
          BY FetchTyped DEF ViewInv
        <4>. QED  BY <1>7, <3>2, <4>1
      <3>. QED  BY <3>1, <3>2
    <2>. QED  BY <1>1, <2>1 DEF FetchPassesOver, Passes, After
  <1>11. ShownOrComing'
    <2>1. CASE Posted' = Posted
      BY <1>1, <2>1 DEF ViewInv, ShownOrComing, Brings
    <2>2. CASE Posted' # Posted
      <3>1. signalled'
        BY <1>1, <1>3, <2>2
      <3>. QED  BY <3>1 DEF ShownOrComing
    <2>. QED  BY <2>1, <2>2
  <1>. QED  BY <1>5, <1>6, <1>8, <1>9, <1>10, <1>11 DEF ViewInv

\* Taking an instant moves nothing that the view knows of.
LEMMA InstantKeepsView ==
  ASSUME ViewInv, NEW m \in Messages, TakeInstant(m)
  PROVE  ViewInv'
  <1>1. /\ UNCHANGED <<messages, calls, shown, cursor, signalled, fetches, mark, overtaken, missed>>
        /\ m \notin Posted
        /\ \A c \in Calls : calls[c].step \in Sending => calls[c].message # m
        /\ order' = {p \in order : m \notin {p[1], p[2]}} \cup (({NoMessage} \cup Timed) \ {m}) \X {m}
    BY ConversationViewAssumption DEF TakeInstant, vars, thread, page, Posted
  <1>2. /\ Timed' = Timed \cup {m} /\ Ordered'
        /\ \A a, b : a # m /\ b # m => (After(a, b)' <=> After(a, b))
    BY <1>1, InstantTaken DEF ViewInv
  <1>3. Posted' = Posted /\ Place' = Place /\ FetchRecords' = FetchRecords /\ m \notin Place
    <2>1. Posted' = Posted
      BY <1>1 DEF Posted
    <2>. QED  BY <1>1, <2>1, NobodysMessage DEF Place, FetchRecords
  <1>4. SentTimed'
    BY <1>1, <1>2, <1>3 DEF ViewInv, SentTimed
  <1>5. ViewTypeOK'
    BY <1>1, <1>3 DEF ViewInv, ViewTypeOK
  <1>6. NothingPassedOver'
    <2>1. cursor \in Place
      BY DEF ViewInv, ViewTypeOK
    <2>2. \A n \in Posted : After(n, cursor)' <=> (After(n, cursor))
      <3>1. \A n \in Posted : n # m /\ cursor # m
        BY <1>1, <1>3, <2>1
      <3>2. \A n \in Posted : <<cursor, n>> \in order' <=> <<cursor, n>> \in order
        BY <1>2, <3>1 DEF After
      <3>. QED  BY <1>1, <3>2 DEF After
    <2>. QED  BY <1>1, <1>3, <2>2 DEF ViewInv, NothingPassedOver
  <1>7. FetchPassesOver'
    <2>1. ASSUME NEW f \in Fetches, NEW n \in Posted
          PROVE  <<fetches[f].from, n>> \in order' <=> <<fetches[f].from, n>> \in order
      <3>1. n # m /\ fetches[f].from # m
        BY <1>1, <1>3, FetchTyped DEF ViewInv
      <3>. QED  BY <1>2, <3>1 DEF After
    <2>. QED  BY <1>1, <1>3, <2>1 DEF ViewInv, FetchPassesOver, Passes
  <1>8. ShownOrComing'
    BY <1>1, <1>3 DEF ViewInv, ShownOrComing, Brings
  <1>. QED  BY <1>2, <1>4, <1>5, <1>6, <1>7, <1>8 DEF ViewInv

\* A message sent from here is shown; or something makes the view ask.
LEMMA PageKeepsView ==
  ASSUME ViewInv, Signal \/ \E m \in Messages : ShowOwn(m)
  PROVE  ViewInv'
  <1>1. /\ UNCHANGED <<messages, calls, order, cursor, fetches, mark, overtaken, missed>>
        /\ shown \subseteq shown' /\ shown' \subseteq Posted
        /\ signalled' \in BOOLEAN /\ (signalled => signalled')
    BY DEF Signal, ShowOwn, vars, thread, ViewInv, ViewTypeOK
  <1>2. Posted' = Posted /\ Timed' = Timed /\ Place' = Place /\ FetchRecords' = FetchRecords
    BY <1>1 DEF Posted, Timed, After, Place, FetchRecords
  <1>3. Ordered' /\ SentTimed' /\ ViewTypeOK'
    BY <1>1, <1>2 DEF ViewInv, Ordered, After, SentTimed, ViewTypeOK
  <1>4. NothingPassedOver'
    BY <1>1, <1>2 DEF ViewInv, NothingPassedOver, After
  <1>5. FetchPassesOver'
    BY <1>1, <1>2 DEF ViewInv, FetchPassesOver, Passes
  <1>6. ShownOrComing'
    BY <1>1, <1>2 DEF ViewInv, ShownOrComing, Brings
  <1>. QED  BY <1>3, <1>4, <1>5, <1>6 DEF ViewInv

-----------------------------------------------------------------------------
LEMMA ViewStarts ==
  ASSUME ViewInit
  PROVE  ViewInv
  <1>1. Posted = {} /\ \A c \in Calls : calls[c] = Idle
    BY ConversationViewAssumption DEF ViewInit, Init, Posted
  <1>2. Timed = {} /\ order = {}
    BY DEF ViewInit, Timed, After
  <1>3. Ordered
    BY <1>2 DEF Ordered
  <1>4. SentTimed
    <2>1. Idle.step \notin Sending
      BY IdleStep DEF Sending
    <2>. QED  BY <1>1, <2>1, FS_EmptySet DEF SentTimed
  <1>5. ViewTypeOK
    <2>1. \A f \in Fetches : fetches[f] \in FetchRecords
      <3>1. PICK q : q = [Resting EXCEPT !.step = "page"]
        OBVIOUS
      <3>2. PICK r : r = [q EXCEPT !.whole = TRUE]
        OBVIOUS
      <3>3. q \in FetchRecords
        <4>1. "page" \in FetchSteps
          BY DEF FetchSteps
        <4>. QED  BY <3>1, <4>1, FixedRecords
      <3>4. \A b \in BOOLEAN : [q EXCEPT !.whole = b] \in FetchRecords
        BY <3>3, SMT DEF FetchRecords
      <3>5. r \in FetchRecords
        BY <3>2, <3>4, Zenon
      <3>6. \A f \in Fetches : fetches[f] = IF f = First THEN r ELSE Resting
        BY <3>1, <3>2 DEF ViewInit
      <3>. QED  BY <3>5, <3>6, FixedRecords
    <2>2. fetches = [f \in Fetches |-> fetches[f]]
      BY DEF ViewInit
    <2>. QED  BY <2>1, <2>2, FixedRecords DEF ViewTypeOK, ViewInit
  <1>6. NothingPassedOver /\ FetchPassesOver /\ ShownOrComing
    BY <1>1 DEF NothingPassedOver, FetchPassesOver, Passes, ShownOrComing
  <1>. QED  BY <1>3, <1>4, <1>5, <1>6 DEF ViewInv

\* The view never moves the desk, which goes on as if nobody looked.
LEMMA ViewLeavesDesk ==
  ASSUME [ViewNext]_allVars
  PROVE  [Next]_vars
  BY DEF ViewNext, DeskStep, TakeInstant, ShowOwn, Signal, Fetching, FetchNewer, Retry, ReadPage,
     FindLatest, MarkConversationRead, MarkFails, Answer, FetchFails, allVars

LEMMA ViewStays ==
  ASSUME DeskInv, ViewInv, [ViewNext]_allVars
  PROVE  ViewInv'
  <1>1. CASE UNCHANGED allVars
    <2>1. /\ UNCHANGED <<messages, calls, order, shown, cursor, signalled, fetches, mark, overtaken, missed>>
      BY <1>1 DEF allVars, vars, thread, viewVars, page
    <2>2. Posted' = Posted /\ Timed' = Timed /\ Place' = Place /\ FetchRecords' = FetchRecords
      BY <2>1 DEF Posted, Timed, After, Place, FetchRecords
    <2>3. Ordered' /\ SentTimed' /\ ViewTypeOK'
      BY <2>1, <2>2 DEF ViewInv, Ordered, After, SentTimed, ViewTypeOK
    <2>4. NothingPassedOver' /\ FetchPassesOver' /\ ShownOrComing'
      BY <2>1, <2>2 DEF ViewInv, NothingPassedOver, FetchPassesOver, Passes, ShownOrComing, Brings, After
    <2>. QED  BY <2>3, <2>4 DEF ViewInv
  <1>2. CASE DeskStep
    BY <1>2, DeskTells
  <1>3. ASSUME NEW m \in Messages, TakeInstant(m)  PROVE  ViewInv'
    BY <1>3, InstantKeepsView
  <1>4. CASE Signal \/ \E m \in Messages : ShowOwn(m)
    BY <1>4, PageKeepsView
  <1>5. ASSUME NEW f \in Fetches, Fetching(f)  PROVE  ViewInv'
    BY <1>5, FetchBegins, PageIsRead, FetchGoesOn, FetchEnds DEF Fetching
  <1>. QED  BY <1>1, <1>2, <1>3, <1>4, <1>5 DEF ViewNext

\* The desk with a view open is a desk: what holds of it holds whoever looks.
THEOREM ViewedDesk == ViewSpec => Spec
  <1>1. ViewInit => Init
    BY DEF ViewInit
  <1>2. [ViewNext]_allVars => [Next]_vars
    BY ViewLeavesDesk
  <1>. QED  BY <1>1, <1>2, PTL DEF ViewSpec, Spec

LEMMA ViewAlways == ViewSpec => []ViewInv
  <1>1. ViewInit => ViewInv
    BY ViewStarts
  <1>2. DeskInv /\ ViewInv /\ [ViewNext]_allVars => ViewInv'
    BY ViewStays
  <1>. QED  BY <1>1, <1>2, ViewedDesk, DeskAlways, PTL DEF ViewSpec

\* The cursor of a view never goes past a message that the view does not show, but for those
\* that committed out of order: whatever pages overlap, answer late or fail, and however many
\* messages are sent meanwhile.
THEOREM CursorSkipsNothing == ViewSpec => []NothingPassedOver
  <1>1. ViewInv => NothingPassedOver
    BY DEF ViewInv
  <1>. QED  BY <1>1, ViewAlways, PTL

\* A view with no fetch in flight and no signal to answer shows the whole conversation, but for
\* what committed out of order and what was there when a fetch failed.
THEOREM ViewShowsAll == ViewSpec => []ViewSettles
  <1>1. ViewInv => ViewSettles
    <2>1. SUFFICES ASSUME ViewInv, ~signalled, \A f \in Fetches : Is(f, "libre"), NEW m \in Posted
                   PROVE  m \in shown \cup overtaken \cup missed
      BY DEF ViewSettles
    <2>2. \A f \in Fetches : ~Brings(fetches[f], m)
      BY <2>1 DEF Is, Brings
    <2>. QED  BY <2>1, <2>2 DEF ViewInv, ShownOrComing
  <1>. QED  BY <1>1, ViewAlways, PTL

\* The mark of what has been read never goes back, whichever of two readings is written last.
THEOREM MarkNeverGoesBack == ViewSpec => MarkOnlyAdvances
  <1>1. ASSUME ViewInv, [ViewNext]_allVars  PROVE  ~After(mark, mark')
    <2>1. mark \in Place
      BY <1>1 DEF ViewInv, ViewTypeOK
    <2>2. CASE mark' = mark
      BY <1>1, <2>1, <2>2, PostedTimed DEF ViewInv
    <2>3. CASE mark' # mark
      <3>1. PICK f \in Fetches : MarkConversationRead(f)
        BY <1>1, <2>3 DEF ViewNext, DeskStep, TakeInstant, ShowOwn, Signal, Fetching, FetchNewer, Retry,
           ReadPage, FindLatest, MarkFails, Answer, FetchFails, allVars, viewVars
      <3>2. After(fetches[f].latest, mark) /\ mark' = fetches[f].latest
        BY <2>3, <3>1 DEF MarkConversationRead, MarkedFarthest
      <3>3. fetches[f].latest \in Place
        BY <1>1, FetchTyped DEF ViewInv
      <3>. QED  BY <1>1, <2>1, <3>2, <3>3, PostedTimed DEF ViewInv
    <2>. QED  BY <2>2, <2>3
  <1>2. ViewInv /\ [ViewNext]_allVars => [~After(mark, mark')]_allVars
    BY <1>1
  <1>. QED  BY <1>2, ViewAlways, PTL DEF ViewSpec, MarkOnlyAdvances
=============================================================================
