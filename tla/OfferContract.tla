---------------------------- MODULE OfferContract ----------------------------
(***************************************************************************)
(* What an expediente promises, without requests' sub-stages, drafts,      *)
(* approvals or pointers: proposals are offered one after another, only    *)
(* the last one offered can be answered, a withdrawn proposal stays        *)
(* withdrawn, the deal is won by one acceptance at most, and a won deal is *)
(* never lost again.  QuoteLifecycle is shown to implement it.             *)
(*                                                                         *)
(* The contract lets a proposal be offered at any stage of the deal: the   *)
(* code does not look at the request when it publishes (README, findings). *)
(***************************************************************************)
CONSTANTS Versions, NoVersion

VARIABLES
  deal,    \* "ABIERTO", "EN_OFERTA", "CERRADO", "GANADO" or "PROYECTO"
  offer,   \* what became of each version as a proposal
  latest   \* the proposal offered last

vars == <<deal, offer, latest>>

Deals == {"ABIERTO", "EN_OFERTA", "CERRADO", "GANADO", "PROYECTO"}
Offers == {"INEDITA", "OFRECIDA", "RETIRADA", "ACEPTADA"}

TypeOK ==
  /\ deal \in Deals
  /\ offer \in [Versions -> Offers]
  /\ latest \in Versions \cup {NoVersion}

Init ==
  /\ deal = "ABIERTO"
  /\ offer = [v \in Versions |-> "INEDITA"]
  /\ latest = NoVersion

\* The first proposal of an open deal opens the negotiation.
Offer(v) ==
  /\ offer[v] = "INEDITA"
  /\ offer' = [offer EXCEPT ![v] = "OFRECIDA"]
  /\ latest' = v
  /\ \/ UNCHANGED deal
     \/ deal = "ABIERTO" /\ deal' = "EN_OFERTA"

\* Staff or the customer turn the last proposal down.
Withdraw(v) ==
  /\ v = latest /\ offer[v] = "OFRECIDA"
  /\ offer' = [offer EXCEPT ![v] = "RETIRADA"]
  /\ UNCHANGED <<deal, latest>>

\* The customer can answer only while the deal is being negotiated.
Accept(v) ==
  /\ deal = "EN_OFERTA"
  /\ v = latest /\ offer[v] = "OFRECIDA"
  /\ offer' = [offer EXCEPT ![v] = "ACEPTADA"]
  /\ deal' = "GANADO"
  /\ UNCHANGED latest

\* Closing a deal takes the last proposal off the table.
Close ==
  /\ deal \in {"ABIERTO", "EN_OFERTA"}
  /\ deal' = "CERRADO"
  /\ offer' = [v \in Versions |->
                 IF v = latest /\ offer[v] = "OFRECIDA" THEN "RETIRADA" ELSE offer[v]]
  /\ UNCHANGED latest

\* Before any negotiation a deal may also be discarded, which leaves proposals alone.
Discard ==
  /\ deal = "ABIERTO"
  /\ deal' = "CERRADO"
  /\ UNCHANGED <<offer, latest>>

Reopen ==
  /\ deal = "CERRADO"
  /\ deal' = "ABIERTO"
  /\ UNCHANGED <<offer, latest>>

Convert ==
  /\ deal = "GANADO"
  /\ deal' = "PROYECTO"
  /\ UNCHANGED <<offer, latest>>

Next ==
  \/ \E v \in Versions : Offer(v) \/ Withdraw(v) \/ Accept(v)
  \/ Close \/ Discard \/ Reopen \/ Convert

Spec == Init /\ [][Next]_vars
=============================================================================
