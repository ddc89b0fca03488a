---------------------------- MODULE MailContract ----------------------------
(***************************************************************************)
(* What the outbox promises, without workers, claims, leases or attempts:  *)
(* a notice of the business is told or given up once; it is told only when *)
(* everybody it concerns has a mail, or when it is on record that it       *)
(* concerns nobody; a mail is sent only if the provider took it, and a     *)
(* mail that was sent stays sent.  NotificationOutbox is shown to          *)
(* implement it.                                                           *)
(*                                                                         *)
(* The contract lets a mail be written for a notice already told or given  *)
(* up, and be handed over again once sent: a worker that lost its claim    *)
(* while it was at either goes on (README, observations).                  *)
(***************************************************************************)
CONSTANTS Events, People

VARIABLES
  notice,   \* what became of each event: "INEDITO", "ABIERTO", "AVISADO" or "ABANDONADO"
  letters,  \* and of each mail: "NO_ESCRITA", "PROMETIDA", "ENVIADA" or "DESISTIDA"
  handed,   \* mails that the provider took, at least once
  excused,  \* events on record as of interest to nobody
  told      \* who was told of each event

vars == <<notice, letters, handed, excused, told>>

Mails == Events \X People

Init ==
  /\ notice = [e \in Events |-> "INEDITO"]
  /\ letters = [d \in Mails |-> "NO_ESCRITA"]
  /\ handed = {} /\ excused = {}
  /\ told = [e \in Events |-> {}]

NoticeBecomes(e, before, after) ==
  notice[e] = before /\ notice' = [notice EXCEPT ![e] = after]

LetterBecomes(d, before, after) ==
  letters[d] = before /\ letters' = [letters EXCEPT ![d] = after]

Announce(e) ==
  /\ NoticeBecomes(e, "INEDITO", "ABIERTO")
  /\ UNCHANGED <<letters, handed, excused, told>>

Promise(e, p) ==
  /\ notice[e] # "INEDITO"
  /\ LetterBecomes(<<e, p>>, "NO_ESCRITA", "PROMETIDA")
  /\ UNCHANGED <<notice, handed, excused, told>>

\* Nobody is to be mailed, for now at least.
Excuse(e) ==
  /\ notice[e] # "INEDITO"
  /\ excused' = excused \cup {e}
  /\ UNCHANGED <<notice, letters, handed, told>>

Tell(e, R) ==
  /\ NoticeBecomes(e, "ABIERTO", "AVISADO")
  /\ IF R = {} THEN e \in excused ELSE \A p \in R : letters[<<e, p>>] # "NO_ESCRITA"
  /\ told' = [told EXCEPT ![e] = R]
  /\ UNCHANGED <<letters, handed, excused>>

Abandon(e) ==
  /\ NoticeBecomes(e, "ABIERTO", "ABANDONADO")
  /\ UNCHANGED <<letters, handed, excused, told>>

HandOver(d) ==
  /\ letters[d] # "NO_ESCRITA"
  /\ handed' = handed \cup {d}
  /\ UNCHANGED <<notice, letters, excused, told>>

Confirm(d) ==
  /\ d \in handed
  /\ LetterBecomes(d, "PROMETIDA", "ENVIADA")
  /\ UNCHANGED <<notice, handed, excused, told>>

GiveUp(d) ==
  /\ LetterBecomes(d, "PROMETIDA", "DESISTIDA")
  /\ UNCHANGED <<notice, handed, excused, told>>

\* An employee asks for it.
TryAgain(d) ==
  /\ LetterBecomes(d, "DESISTIDA", "PROMETIDA")
  /\ UNCHANGED <<notice, handed, excused, told>>

Next ==
  \/ \E e \in Events : Announce(e) \/ Excuse(e) \/ Abandon(e)
  \/ \E e \in Events, p \in People : Promise(e, p)
  \/ \E e \in Events, R \in SUBSET People : Tell(e, R)
  \/ \E d \in Mails : HandOver(d) \/ Confirm(d) \/ GiveUp(d) \/ TryAgain(d)

Spec == Init /\ [][Next]_vars
=============================================================================
