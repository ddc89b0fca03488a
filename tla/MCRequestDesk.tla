--------------------------- MODULE MCRequestDesk ---------------------------
(***************************************************************************)
(* Two forms, each sent with any of three contents, two of which differ    *)
(* only in who asks, two messages on the request of the first, and two     *)
(* transactions at a time; and a view that asks for a message a page with  *)
(* up to two fetches in flight.                                            *)
(***************************************************************************)
EXTENDS ConversationView, TLC

CONSTANTS c1, c2, f1, f2, m1, m2, g1, g2

MCCalls == {c1, c2}
MCForms == {f1, f2}
MCMessages == {m1, m2}
MCRequestOf == [m \in MCMessages |-> f1]
MCFetches == {g1, g2}
MCDetailOf == [x \in Contents |-> IF x = "otra" THEN "otra" ELSE "una"]
MCAddressOf == [x \in Contents |-> IF x = "ajena" THEN "ajena" ELSE "propia"]
MCOwn == {m2}

Symmetry == Permutations(MCCalls)

\* The view has not asked for anything yet, and the instants, which only it can tell apart,
\* are taken in one order.
Unopened ==
  /\ fetches[First].step = "page" /\ cursor = NoMessage /\ shown = {} /\ missed = {}
  /\ \A f \in Fetches \ {First} : Is(f, "libre")
  /\ m2 \in Timed => After(m2, m1)
  /\ signalled => Posted # {}

\* Messages are sent on one request, told once, while its form may be sent again.
Submitted ==
  /\ ~Exists(f2) /\ requests[f1].content \notin {"otra", "ajena"} /\ Cardinality(replies) <= 1
  /\ \A c \in Calls : calls[c].step \in Sending \cup {"libre"} \/ calls[c].form = f1
Sent == conversations[f1] # "NINGUNA" \/ \E c \in Calls : calls[c].step \in Sending

\* The desk does only what the view can tell: it sends messages.
Quiet ==
  /\ Submitted /\ \A a \in DOMAIN contacts : contacts[a] = 1
  /\ \A i \in DOMAIN notices[f1] : Open(notices[f1][i])
  /\ \A c \in Calls : calls[c].step \in Sending \cup {"libre"}
  /\ conversations[f1] # "CLOSED"

Bound == (Unopened /\ (Sent => Submitted)) \/ Quiet
=============================================================================
