---------------------------- MODULE AccountAccess ----------------------------
(***************************************************************************)
(* One account and the ways into it: passwords, one-time codes, links sent *)
(* by mail and the sessions they open; and the ways out: logout, changes   *)
(* of password, revocations and the team's suspension.                     *)
(*                                                                         *)
(* Whatever hashes a password or checks one is a call with two steps: it   *)
(* reads the account, works outside any transaction, and writes in one     *)
(* that checks only part of what was read.  The rest happens in between.   *)
(***************************************************************************)
EXTENDS Naturals, FiniteSets

CONSTANTS
  Links,        \* rows of auth_tokens: PASSWORD_RESET of an employee, MAGIC_LINK of a customer
  Sessions,     \* rows of sessions
  Calls,        \* server requests that may be in flight
  Secrets,      \* secrets of one-time codes handed out by startAccountMfaEnrollment
  MaxEras,      \* bound on the closings of sessions followed
  MaxCounter,   \* bound on the periods of the one-time codes
  NoSession, NoLink, NoSecret

ASSUME AccessAssumption ==
  /\ {MaxEras, MaxCounter} \subseteq Nat \ {0}
  /\ NoSession \notin Sessions /\ NoLink \notin Links /\ NoSecret \notin Secrets

VARIABLES
  user,      \* the row of users
  links,     \* state of each link
  sessions,  \* the rows of sessions
  calls,     \* the step of each call in flight and what it read
  period,    \* the present period of the one-time codes
  era,       \* history: how many times the account's sessions and links were closed
  used,      \* history: how many passwords or sessions each link gave
  codes,     \* history: how many times each one-time code was accepted, by logins that
             \* outlived its secret apart
  confirmed  \* history: how many times each secret was confirmed

vars == <<user, links, sessions, calls, period, era, used, codes, confirmed>>

Statuses == {"INVITED", "ACTIVE", "SUSPENDED", "DISABLED"}

\* late: its issuer had read the account before a closing; spent: consumed, or lapsed.
LinkStates == {"unissued", "live", "late", "spent"}

Steps == {"libre", "login", "recover", "reset", "change", "enrol", "enrolling", "disable",
          "provision", "enter"}

Idle == [step |-> "libre", era |-> 0, secret |-> NoSecret, code |-> 0, link |-> NoLink,
         session |-> NoSession, invited |-> FALSE]

\* late: the call that opened it had read the account before a closing or another enrolment. A
\* session that ends is no row: whatever looks for it asks for one that is open.
NoRow == [open |-> FALSE, verified |-> FALSE, era |-> 0, late |-> FALSE]

Codes == Secrets \X (1..MaxCounter + 1)

\* secret: the one that protects the account, in no row until it is confirmed; counter:
\* mfaLastAcceptedCounter, 0 for null. A secret never goes without the counter of a code it
\* accepted.
TypeOK ==
  /\ user \in [type : {"EMPLOYEE", "CUSTOMER"}, status : Statuses, password : BOOLEAN,
               secret : Secrets \cup {NoSecret}, counter : 0..MaxCounter + 1]
  /\ links \in [Links -> LinkStates]
  /\ sessions \in [Sessions -> [open : BOOLEAN, verified : BOOLEAN, era : 0..MaxEras,
                                late : BOOLEAN]]
  /\ calls \in [Calls -> [step : Steps, era : 0..MaxEras, secret : Secrets \cup {NoSecret},
                 code : 0..MaxCounter + 1, link : Links \cup {NoLink},
                 session : Sessions \cup {NoSession}, invited : BOOLEAN]]
  /\ period \in 1..MaxCounter /\ era \in 0..MaxEras
  /\ user.secret # NoSecret => user.counter # 0
  /\ used \in [Links -> 0..2] /\ codes \in [Codes -> 0..MaxEras]
  /\ confirmed \in [Secrets -> 0..MaxEras]

At(c, step) == calls[c].step = step
Ends(c) == calls' = [calls EXCEPT ![c] = Idle]

\* The call remembers what it read.
Reads(c, step, read) ==
  /\ At(c, "libre") /\ calls' = [calls EXCEPT ![c] = [read EXCEPT !.step = step]]

\* Of an account: how often it had been closed.
Seen == [Idle EXCEPT !.era = era]

Employee == user.type = "EMPLOYEE"
Open(s) == sessions[s].open

\* getSessionContext
Usable(s) == Open(s) /\ user.status = "ACTIVE" /\ (user.secret # NoSecret => sessions[s].verified)

LiveLinks == {l \in Links : links[l] \in {"live", "late"}}
Spend(spent) == [l \in Links |-> IF l \in spent THEN "spent" ELSE links[l]]

\* What revokes the open sessions but the kept ones; a kept one belongs to the new era.
Closed(kept) ==
  [s \in Sessions |-> IF ~Open(s) THEN sessions[s]
                      ELSE IF s \in kept THEN [sessions[s] EXCEPT !.era = era + 1]
                      ELSE NoRow]

NewEra == era < MaxEras /\ era' = era + 1

-----------------------------------------------------------------------------
(* Login of an employee                                                    *)

\* Codes of this period and its neighbours.
Window == {k \in 1..MaxCounter + 1 : k + 1 >= period /\ k <= period + 1}

\* One later than the last accepted; 0 is no code.
ValidCodes == IF user.secret = NoSecret THEN {0} ELSE {k \in Window : k > user.counter}

Login(c) ==
  /\ Employee /\ user.status = "ACTIVE" /\ user.password
  /\ \E k \in ValidCodes : Reads(c, "login", [Seen EXCEPT !.code = k, !.secret = user.secret])
  /\ UNCHANGED <<user, links, sessions, period, era, used, codes, confirmed>>

\* An update that trusts the counter the login read.
AdvancesAnyway(k) == k # 0

\* The conditional update of mfaLastAcceptedCounter.
Advances(k) == user.counter = 0 \/ user.counter < k

Outlived(c) == calls[c].era # era
Late(c) == Outlived(c) \/ calls[c].secret # user.secret

\* A session opens on what the call read: the account is not read again.
Opens(c, verified) ==
  \E s \in Sessions :
    /\ sessions[s] = NoRow
    /\ sessions' = [sessions EXCEPT ![s] =
         [open |-> TRUE, verified |-> verified, era |-> calls[c].era, late |-> Late(c)]]

FinishLogin(c) ==
  LET k == calls[c].code
  IN /\ At(c, "login")
     /\ IF k = 0 \/ Advances(k)
        THEN /\ Opens(c, k # 0)
             /\ user' = IF k = 0 THEN user ELSE [user EXCEPT !.counter = k]
             /\ codes' = IF k = 0 \/ calls[c].secret # user.secret THEN codes
                         ELSE [codes EXCEPT ![<<calls[c].secret, k>>] = @ + 1]
        ELSE UNCHANGED <<user, sessions, codes>>
     /\ Ends(c)
     /\ UNCHANGED <<links, period, era, used, confirmed>>

-----------------------------------------------------------------------------
(* Links: requestPasswordRecovery, requestCustomerMagicLink, the team's    *)

MayUseLink == user.status \in {"ACTIVE", "INVITED"}

\* The account is read, and the link inserted later without reading it again.
RequestRecovery(c) ==
  /\ Employee /\ MayUseLink
  /\ Reads(c, "recover", Seen)
  /\ UNCHANGED <<user, links, sessions, period, era, used, codes, confirmed>>

RequestMagicLink(c) ==
  /\ ~Employee /\ user.status = "ACTIVE"
  /\ Reads(c, "recover", Seen)
  /\ UNCHANGED <<user, links, sessions, period, era, used, codes, confirmed>>

Issues(c, spent) ==
  \E l \in Links : /\ links[l] = "unissued"
                   /\ links' = [Spend(spent) EXCEPT ![l] = IF Outlived(c) THEN "late" ELSE "live"]

\* Earlier links keep working.
FinishRequestLink(c) ==
  /\ At(c, "recover")
  /\ Issues(c, {})
  /\ Ends(c)
  /\ UNCHANGED <<user, sessions, period, era, used, codes, confirmed>>

\* A link of the team: the earlier ones stop working.
IssuesAnew ==
  \E l \in Links : /\ links[l] = "unissued"
                   /\ links' = [Spend(LiveLinks) EXCEPT ![l] = "live"]

ResendInvitation ==
  /\ Employee /\ user.status = "INVITED"
  /\ IssuesAnew
  /\ UNCHANGED <<user, sessions, calls, period, era, used, codes, confirmed>>

SendPasswordReset ==
  /\ Employee /\ user.status = "ACTIVE"
  /\ IssuesAnew
  /\ UNCHANGED <<user, sessions, calls, period, era, used, codes, confirmed>>

\* provisionCustomerPortalAccess: nothing while a link is pending. Publications of two requests
\* of one contact lock different rows.
Provision(c) ==
  /\ ~Employee /\ MayUseLink /\ LiveLinks = {}
  /\ Reads(c, "provision", Seen)
  /\ UNCHANGED <<user, links, sessions, period, era, used, codes, confirmed>>

FinishProvision(c) ==
  /\ At(c, "provision")
  /\ Issues(c, LiveLinks)
  /\ Ends(c)
  /\ UNCHANGED <<user, sessions, period, era, used, codes, confirmed>>

LinkLapses(l) ==
  /\ l \in LiveLinks /\ links' = [links EXCEPT ![l] = "spent"]
  /\ UNCHANGED <<user, sessions, calls, period, era, used, codes, confirmed>>

-----------------------------------------------------------------------------
(* consumePasswordRecovery and consumeCustomerMagicLink                    *)

OpenReset(c, l) ==
  /\ Employee /\ MayUseLink /\ l \in LiveLinks
  /\ Reads(c, "reset", [Idle EXCEPT !.link = l])
  /\ UNCHANGED <<user, links, sessions, period, era, used, codes, confirmed>>

\* A link consumed because it was live when it was read.
WasLive(l) == l \in Links

\* The conditional update of consumedAt.
StillLive(l) == l \in LiveLinks

\* The password is hashed by now. The link is read and consumed again, every other link and
\* session of the account ends, and an invited person becomes active.
FinishReset(c) ==
  LET l == calls[c].link
  IN /\ At(c, "reset")
     /\ IF StillLive(l) /\ MayUseLink
        THEN /\ links' = Spend(LiveLinks \cup {l})
             /\ user' = [user EXCEPT !.password = TRUE, !.status = "ACTIVE"]
             /\ sessions' = Closed({}) /\ NewEra
             /\ used' = [used EXCEPT ![l] = @ + 1]
        ELSE UNCHANGED <<user, links, sessions, era, used>>
     /\ Ends(c)
     /\ UNCHANGED <<period, codes, confirmed>>

OpenMagicLink(c, l) ==
  /\ ~Employee /\ MayUseLink /\ l \in LiveLinks
  /\ Reads(c, "enter", [Seen EXCEPT !.link = l, !.invited = user.status = "INVITED"])
  /\ UNCHANGED <<user, links, sessions, period, era, used, codes, confirmed>>

\* Who loses the race for the activation has consumed the link for nothing.
FinishMagicLink(c) ==
  LET l == calls[c].link
  IN /\ At(c, "enter")
     /\ IF StillLive(l)
        THEN /\ links' = Spend({l})
             /\ IF calls[c].invited /\ user.status # "INVITED"
                THEN UNCHANGED <<user, sessions, used>>
                ELSE /\ user' = [user EXCEPT !.status = IF calls[c].invited THEN "ACTIVE" ELSE @]
                     /\ Opens(c, TRUE)
                     /\ used' = [used EXCEPT ![l] = @ + 1]
        ELSE UNCHANGED <<user, links, sessions, used>>
     /\ Ends(c)
     /\ UNCHANGED <<period, era, codes, confirmed>>

-----------------------------------------------------------------------------
(* The employee's own account                                              *)

\* The current password is verified and the new one hashed.
ChangePassword(c, s) ==
  /\ Employee /\ Usable(s) /\ user.password
  /\ Reads(c, "change", [Idle EXCEPT !.session = s])
  /\ UNCHANGED <<user, links, sessions, period, era, used, codes, confirmed>>

\* A change that leaves the other sessions open.
FinishChangeAlone(c) ==
  /\ At(c, "change")
  /\ user' = [user EXCEPT !.password = TRUE]
  /\ sessions' = sessions
  /\ links' = Spend(LiveLinks) /\ NewEra
  /\ Ends(c)
  /\ UNCHANGED <<period, used, codes, confirmed>>

FinishChange(c) ==
  /\ At(c, "change")
  /\ user' = [user EXCEPT !.password = TRUE]
  /\ sessions' = Closed({calls[c].session})
  /\ links' = Spend(LiveLinks) /\ NewEra
  /\ Ends(c)
  /\ UNCHANGED <<period, used, codes, confirmed>>

\* A code is verified against the sealed token of a secret, which startAccountMfaEnrollment
\* saves nowhere: it holds for fifteen minutes, longer than the periods followed, and whatever
\* was done with it before.
Enrol(c, s) ==
  /\ Employee /\ Usable(s)
  /\ \E x \in Secrets, k \in Window :
       Reads(c, "enrol", [Idle EXCEPT !.session = s, !.code = k, !.secret = x])
  /\ UNCHANGED <<user, links, sessions, period, era, used, codes, confirmed>>

\* The account is read again in the transaction, without a lock.
EnrolRead(c) ==
  /\ At(c, "enrol")
  /\ IF user.secret = NoSecret THEN calls' = [calls EXCEPT ![c].step = "enrolling"] ELSE Ends(c)
  /\ UNCHANGED <<user, links, sessions, period, era, used, codes, confirmed>>

\* It is written by id, so another confirmation may have come first. The session that enrolled
\* is verified; those opened without the code are closed.
FinishEnrol(c) ==
  LET s == calls[c].session
      x == calls[c].secret
      k == calls[c].code
  IN /\ At(c, "enrolling")
     /\ user' = [user EXCEPT !.secret = x, !.counter = k]
     /\ sessions' = [Closed({s}) EXCEPT ![s].verified = @ \/ Open(s)] /\ NewEra
     /\ codes' = [codes EXCEPT ![<<x, k>>] = @ + 1]
     /\ confirmed' = [confirmed EXCEPT ![x] = @ + 1]
     /\ Ends(c)
     /\ UNCHANGED <<links, period, used>>

DisableMfa(c, s) ==
  /\ Employee /\ Usable(s) /\ user.password /\ user.secret # NoSecret /\ ValidCodes # {}
  /\ Reads(c, "disable", Idle)
  /\ UNCHANGED <<user, links, sessions, period, era, used, codes, confirmed>>

FinishDisableMfa(c) ==
  /\ At(c, "disable")
  /\ user' = [user EXCEPT !.secret = NoSecret, !.counter = 0]
  /\ Ends(c)
  /\ UNCHANGED <<links, sessions, period, era, used, codes, confirmed>>

\* A session that could no longer be used is left as it is.
Logout(s) ==
  /\ Usable(s)
  /\ sessions' = [sessions EXCEPT ![s] = NoRow]
  /\ UNCHANGED <<user, links, calls, period, era, used, codes, confirmed>>

\* Another of the person's own sessions.
Revoke(s) ==
  /\ Employee /\ Open(s)
  /\ \E t \in Sessions \ {s} : Usable(t)
  /\ sessions' = [sessions EXCEPT ![s] = NoRow]
  /\ UNCHANGED <<user, links, calls, period, era, used, codes, confirmed>>

RevokeOthers(s) ==
  /\ Employee /\ Usable(s)
  /\ sessions' = Closed({s}) /\ NewEra
  /\ UNCHANGED <<user, links, calls, period, used, codes, confirmed>>

SessionLapses(s) ==
  /\ Open(s) /\ sessions' = [sessions EXCEPT ![s] = NoRow]
  /\ UNCHANGED <<user, links, calls, period, era, used, codes, confirmed>>

-----------------------------------------------------------------------------
(* The team manages a member                                               *)

TeamRevokes ==
  /\ Employee /\ sessions' = Closed({}) /\ NewEra
  /\ UNCHANGED <<user, links, calls, period, used, codes, confirmed>>

TeamResetsMfa ==
  /\ Employee /\ user.secret # NoSecret
  /\ user' = [user EXCEPT !.secret = NoSecret, !.counter = 0]
  /\ UNCHANGED <<links, sessions, calls, period, era, used, codes, confirmed>>

\* A suspension that closes the sessions and forgets the links.
SuspendSessions ==
  /\ Employee /\ user.status = "ACTIVE"
  /\ user' = [user EXCEPT !.status = "SUSPENDED"]
  /\ sessions' = Closed({}) /\ NewEra
  /\ UNCHANGED <<links, calls, period, used, codes, confirmed>>

Suspend ==
  /\ Employee /\ user.status = "ACTIVE"
  /\ user' = [user EXCEPT !.status = "SUSPENDED"]
  /\ sessions' = Closed({}) /\ links' = Spend(LiveLinks) /\ NewEra
  /\ UNCHANGED <<calls, period, used, codes, confirmed>>

CancelInvitation ==
  /\ Employee /\ user.status = "INVITED"
  /\ user' = [user EXCEPT !.status = "DISABLED"]
  /\ links' = Spend(LiveLinks) /\ NewEra
  /\ UNCHANGED <<sessions, calls, period, used, codes, confirmed>>

\* A reactivation that does not look at the password.
ReactivatedAs == "ACTIVE"

\* With a password the person is active again; without one, invited again.
ReactivatedStatus == IF user.password THEN "ACTIVE" ELSE "INVITED"

Reactivate ==
  /\ Employee /\ user.status \in {"SUSPENDED", "DISABLED"}
  /\ user' = [user EXCEPT !.status = ReactivatedStatus]
  /\ IF ReactivatedStatus = "ACTIVE" THEN UNCHANGED links
     ELSE IssuesAnew
  /\ UNCHANGED <<sessions, calls, period, era, used, codes, confirmed>>

-----------------------------------------------------------------------------
PeriodPasses ==
  /\ period < MaxCounter /\ period' = period + 1
  /\ UNCHANGED <<user, links, sessions, calls, era, used, codes, confirmed>>

\* A call dies before its transaction, or its transaction is refused.
Abort(c) ==
  /\ ~At(c, "libre") /\ Ends(c)
  /\ UNCHANGED <<user, links, sessions, period, era, used, codes, confirmed>>

\* An employee invited with a link, or a customer created by the first publication; or an
\* employee who had set the password, and whose links are spent, when the history begins.
Init ==
  /\ \/ /\ user \in [type : {"EMPLOYEE", "CUSTOMER"}, status : {"INVITED"}, password : {FALSE},
                     secret : {NoSecret}, counter : {0}]
        /\ \E l \in Links : links = [m \in Links |-> IF m = l THEN "live" ELSE "unissued"]
     \/ /\ user = [type |-> "EMPLOYEE", status |-> "ACTIVE", password |-> TRUE,
                   secret |-> NoSecret, counter |-> 0]
        /\ links = [l \in Links |-> "spent"]
  /\ sessions = [s \in Sessions |-> NoRow]
  /\ calls = [c \in Calls |-> Idle]
  /\ period = 1 /\ era = 0 /\ used = [l \in Links |-> 0]
  /\ codes = [k \in Codes |-> 0] /\ confirmed = [x \in Secrets |-> 0]

Entries(c) ==
  \/ Login(c) \/ FinishLogin(c)
  \/ RequestRecovery(c) \/ RequestMagicLink(c) \/ FinishRequestLink(c)
  \/ Provision(c) \/ FinishProvision(c)
  \/ \E l \in Links : OpenReset(c, l) \/ OpenMagicLink(c, l)
  \/ FinishReset(c) \/ FinishMagicLink(c)

OwnAccount(c) ==
  \/ \E s \in Sessions : ChangePassword(c, s) \/ Enrol(c, s) \/ DisableMfa(c, s)
  \/ FinishChange(c) \/ EnrolRead(c) \/ FinishEnrol(c) \/ FinishDisableMfa(c)

Team ==
  \/ ResendInvitation \/ SendPasswordReset \/ TeamRevokes \/ TeamResetsMfa
  \/ Suspend \/ CancelInvitation \/ Reactivate

Next ==
  \/ \E c \in Calls : Entries(c) \/ OwnAccount(c) \/ Abort(c)
  \/ \E s \in Sessions : Logout(s) \/ Revoke(s) \/ RevokeOthers(s) \/ SessionLapses(s)
  \/ \E l \in Links : LinkLapses(l)
  \/ Team \/ PeriodPasses

Spec == Init /\ [][Next]_vars

-----------------------------------------------------------------------------
\* Closing an account's sessions closes them all: after a recovery, a change of password, an
\* enrolment, a revocation or a suspension, and whatever follows, only the session that asked
\* for it is still open, or one of a login that had already been accepted when it happened.
SessionsOfThisEra == \A s \in Sessions : Open(s) => sessions[s].era = era \/ sessions[s].late

\* A one-time code is accepted once for each time its secret was confirmed, by that confirmation
\* or by one login, even when several present it at once; only a login verified before its
\* secret was removed can repeat it. A secret confirmed once gives codes of one use; but the
\* sealed token of an enrolment can be confirmed again, and its codes start over.
CodeAcceptedOnce == \A k \in Codes : codes[k] <= confirmed[k[1]]

\* A link sets one password or opens one session, however many times it is followed.
LinkWorksOnce == \A l \in Links : used[l] <= 1

\* A suspended or cancelled account has no link that works, and gets none that was not already
\* being issued when it was closed.
ClosedHasNoLinks == user.status \in {"SUSPENDED", "DISABLED"} => \A l \in Links : links[l] # "live"

\* Nobody of the team is active, or was suspended, without having set a password.
ActiveHasPassword == Employee /\ user.status \in {"ACTIVE", "SUSPENDED"} => user.password
=============================================================================
