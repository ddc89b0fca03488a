------------------------ MODULE AccountAccess_proofs ------------------------
(***************************************************************************)
(* The theorems about an account: what closing its sessions, accepting a   *)
(* code and following a link are worth, for any number of links, sessions  *)
(* and calls in flight.                                                    *)
(*                                                                         *)
(* AccessInv is inductive.  What a call read may be stale by the time it   *)
(* writes; CallKnows is the part of it that is still true then.            *)
(***************************************************************************)
EXTENDS AccountAccess, TLAPS

CallRecords ==
  [step : Steps, era : 0..MaxEras, secret : Secrets \cup {NoSecret}, code : 0..MaxCounter + 1,
   link : Links \cup {NoLink}, session : Sessions \cup {NoSession}, invited : BOOLEAN]
SessionRecords == [open : BOOLEAN, verified : BOOLEAN, era : 0..MaxEras, late : BOOLEAN]
Users == [type : {"EMPLOYEE", "CUSTOMER"}, status : Statuses, password : BOOLEAN,
          secret : Secrets \cup {NoSecret}, counter : 0..MaxCounter + 1]

\* The steps that only somebody with a password reaches.
Signed == {"login", "change", "enrol", "enrolling", "disable"}

CallKnows(c) ==
  /\ calls[c].era <= era
  /\ calls[c].step \in Signed => Employee /\ user.password
  /\ calls[c].step = "enter" => ~Employee
  /\ calls[c].step = "login" => (calls[c].code = 0 <=> calls[c].secret = NoSecret)
  /\ calls[c].step \in {"enrol", "enrolling"} =>
       calls[c].session \in Sessions /\ calls[c].code # 0 /\ calls[c].secret \in Secrets
  /\ calls[c].step \in {"recover", "provision"} /\ calls[c].era = era => MayUseLink

\* An employee without a password has never had a session: cancelling an invitation closes
\* none because there is none.
Invited == Employee /\ user.status = "INVITED" => ~user.password
OpenHasPassword == \A s \in Sessions : Open(s) /\ Employee => user.password

\* Who gave a password or a session is spent.
UsedIsSpent == \A l \in Links : used[l] # 0 => links[l] = "spent"

\* The codes the account still accepts, those after the counter, are left one time of those
\* their secret was confirmed.
CodesLeft ==
  /\ \A k \in Codes : k[1] = user.secret /\ k[2] > user.counter => codes[k] < confirmed[k[1]]
  /\ \A x \in Secrets : confirmed[x] <= era

Account == Invited /\ OpenHasPassword /\ ActiveHasPassword /\ SessionsOfThisEra
LinksHold == UsedIsSpent /\ LinkWorksOnce /\ ClosedHasNoLinks
CodesHold == CodesLeft /\ CodeAcceptedOnce

AccessInv ==
  /\ TypeOK
  /\ \A c \in Calls : CallKnows(c)
  /\ Account
  /\ LinksHold
  /\ CodesHold

\* The history and the rows keep their types.
Rows ==
  /\ user \in Users /\ (user.secret # NoSecret => user.counter # 0)
  /\ links \in [Links -> LinkStates]
  /\ sessions \in [Sessions -> SessionRecords]
  /\ period \in 1..MaxCounter /\ era \in 0..MaxEras
  /\ used \in [Links -> 0..2] /\ codes \in [Codes -> 0..MaxEras]
  /\ confirmed \in [Secrets -> 0..MaxEras]

LEMMA Types == TypeOK <=> Rows /\ calls \in [Calls -> CallRecords]
  BY DEF TypeOK, Rows, Users, SessionRecords, CallRecords

LEMMA TypesNext ==
  ASSUME Rows', calls' \in [Calls -> CallRecords]
  PROVE  TypeOK'
  BY DEF TypeOK, Rows, Users, SessionRecords, CallRecords

-----------------------------------------------------------------------------
(* Calls                                                                   *)

LEMMA IdleFields ==
  /\ Idle \in CallRecords
  /\ Idle.step = "libre" /\ Idle.era = 0 /\ Idle.code = 0
  BY AccessAssumption DEF Idle, CallRecords, Steps

\* What a call reads of an account, and of a session or a link on the way.
LEMMA SeenFields ==
  ASSUME Rows
  PROVE  Seen \in CallRecords /\ Seen.era = era
  BY IdleFields DEF Seen, Rows, CallRecords

\* What is known of a call that goes on, or is over, survives whatever keeps passwords and
\* either starts an era or leaves the account open.
LEMMA CallsKept ==
  ASSUME \A c \in Calls : CallKnows(c), calls \in [Calls -> CallRecords], Rows, Rows',
         \A c \in Calls : calls'[c] = calls[c] \/ calls'[c] = Idle,
         user'.type = user.type, user.password => user'.password,
         \/ era' = era /\ (MayUseLink => MayUseLink')
         \/ era' = era + 1
  PROVE  \A c \in Calls : CallKnows(c)'
<1> SUFFICES ASSUME NEW c \in Calls PROVE CallKnows(c)'
  OBVIOUS
<1>1. calls[c].era \in Nat /\ era \in Nat /\ era' \in Nat /\ CallKnows(c)
  BY AccessAssumption DEF CallRecords, Rows
<1>2. CASE calls'[c] = Idle
  BY <1>1, <1>2, IdleFields DEF CallKnows, Signed
<1>3. CASE calls'[c] = calls[c]
  BY <1>1, <1>3 DEF CallKnows, Employee
<1> QED BY <1>2, <1>3

\* A call that has only read.
LEMMA Reading ==
  ASSUME AccessInv, NEW c \in Calls, NEW step \in Steps, NEW read \in CallRecords,
         Reads(c, step, read),
         UNCHANGED <<user, links, sessions, period, era, used, codes, confirmed>>,
         read.era \in {0, era},
         step \in Signed => Employee /\ user.password,
         step = "enter" => ~Employee,
         step = "login" => (read.code = 0 <=> read.secret = NoSecret),
         step \in {"enrol", "enrolling"} =>
           read.session \in Sessions /\ read.code # 0 /\ read.secret \in Secrets,
         step \in {"recover", "provision"} => MayUseLink
  PROVE  AccessInv'
<1> DEFINE call == [read EXCEPT !.step = step]
<1>0. Rows /\ calls \in [Calls -> CallRecords]
  BY Types DEF AccessInv
<1>1. /\ call \in CallRecords
      /\ call.step = step /\ call.era = read.era /\ call.secret = read.secret
      /\ call.code = read.code /\ call.session = read.session
  BY DEF CallRecords
<1>2. calls' = [calls EXCEPT ![c] = call]
  BY DEF Reads
<1> HIDE DEF call
<1>3. calls' \in [Calls -> CallRecords] /\ calls'[c] = call
      /\ \A d \in Calls \ {c} : calls'[d] = calls[d]
  BY <1>0, <1>1, <1>2
<1>4. Rows' /\ TypeOK'
  <2>1. Rows'
    BY <1>0 DEF Rows
  <2> QED BY <1>3, <2>1, TypesNext
<1>5. ASSUME NEW d \in Calls PROVE CallKnows(d)'
  <2>1. CASE d = c
    <3>1. era \in Nat /\ read.era <= era
      BY <1>0, AccessAssumption DEF Rows
    <3> QED BY <1>0, <1>1, <1>3, <2>1, <3>1 DEF CallKnows, Employee, MayUseLink
  <2>2. CASE d # c
    BY <1>3, <2>2 DEF AccessInv, CallKnows, Employee, MayUseLink
  <2> QED BY <2>1, <2>2
<1>6. Account'
  BY DEF AccessInv, Account, Invited, OpenHasPassword, ActiveHasPassword, SessionsOfThisEra, Employee, Open
<1>7. LinksHold' /\ CodesHold'
  BY DEF AccessInv, LinksHold, UsedIsSpent, LinkWorksOnce, ClosedHasNoLinks,
         CodesHold, CodesLeft, CodeAcceptedOnce
<1> QED BY <1>4, <1>5, <1>6, <1>7 DEF AccessInv

\* The steps that read.
LEMMA ReadingSteps ==
  ASSUME AccessInv, NEW c \in Calls,
         \/ Login(c) \/ RequestRecovery(c) \/ RequestMagicLink(c) \/ Provision(c)
         \/ \E l \in Links : OpenReset(c, l) \/ OpenMagicLink(c, l)
         \/ \E s \in Sessions : ChangePassword(c, s) \/ Enrol(c, s) \/ DisableMfa(c, s)
  PROVE  AccessInv'
<1>0. Rows
  BY Types DEF AccessInv
<1>1. /\ Idle \in CallRecords /\ Idle.era = 0 /\ Seen \in CallRecords /\ Seen.era = era
      /\ {"login", "recover", "provision", "reset", "enter", "change", "enrol", "disable"} \subseteq Steps
  BY <1>0, IdleFields, SeenFields DEF Steps
<1>2. ASSUME Login(c) PROVE AccessInv'
  <2>1. PICK k \in ValidCodes :
          Reads(c, "login", [Seen EXCEPT !.code = k, !.secret = user.secret])
    BY <1>2 DEF Login
  <2>2. /\ k \in 0..MaxCounter + 1 /\ (k = 0 <=> user.secret = NoSecret)
        /\ user.secret \in Secrets \cup {NoSecret}
    BY <1>0, AccessAssumption DEF ValidCodes, Window, Rows, Users
  <2> DEFINE read == [Seen EXCEPT !.code = k, !.secret = user.secret]
  <2>3. read \in CallRecords /\ read.code = k /\ read.secret = user.secret /\ read.era = era
    BY <1>1, <2>2 DEF CallRecords
  <2>4. /\ Employee /\ user.password
        /\ UNCHANGED <<user, links, sessions, period, era, used, codes, confirmed>>
    BY <1>2 DEF Login
  <2> HIDE DEF read
  <2> QED BY <1>1, <2>1, <2>2, <2>3, <2>4, Reading DEF read
<1>3. ASSUME RequestRecovery(c) \/ RequestMagicLink(c) \/ Provision(c) PROVE AccessInv'
  <2>1. PICK step \in {"recover", "provision"} : Reads(c, step, Seen)
    BY <1>3 DEF RequestRecovery, RequestMagicLink, Provision
  <2>2. MayUseLink /\ UNCHANGED <<user, links, sessions, period, era, used, codes, confirmed>>
    BY <1>3 DEF RequestRecovery, RequestMagicLink, Provision, MayUseLink
  <2> QED BY <1>1, <2>1, <2>2, Reading DEF Signed
<1>4. ASSUME NEW l \in Links, OpenReset(c, l) PROVE AccessInv'
  <2> DEFINE read == [Idle EXCEPT !.link = l]
  <2>1. read \in CallRecords /\ read.era = 0
    BY <1>1 DEF CallRecords
  <2>2. /\ Reads(c, "reset", read)
        /\ UNCHANGED <<user, links, sessions, period, era, used, codes, confirmed>>
    BY <1>4 DEF OpenReset
  <2> HIDE DEF read
  <2> QED BY <1>1, <2>1, <2>2, Reading DEF Signed
<1>5. ASSUME NEW l \in Links, OpenMagicLink(c, l) PROVE AccessInv'
  <2> DEFINE read == [Seen EXCEPT !.link = l, !.invited = user.status = "INVITED"]
  <2>1. read \in CallRecords /\ read.era = era
    BY <1>1 DEF CallRecords
  <2>2. /\ Reads(c, "enter", read) /\ ~Employee
        /\ UNCHANGED <<user, links, sessions, period, era, used, codes, confirmed>>
    BY <1>5 DEF OpenMagicLink
  <2> HIDE DEF read
  <2> QED BY <1>1, <2>1, <2>2, Reading DEF Signed
<1>6. ASSUME NEW s \in Sessions, ChangePassword(c, s) \/ DisableMfa(c, s) PROVE AccessInv'
  <2>1. PICK step \in {"change", "disable"},
             read \in {Idle, [Idle EXCEPT !.session = s]} : Reads(c, step, read)
    BY <1>6 DEF ChangePassword, DisableMfa
  <2>2. read \in CallRecords /\ read.era = 0
    BY <1>1 DEF CallRecords
  <2>3. /\ Employee /\ user.password
        /\ UNCHANGED <<user, links, sessions, period, era, used, codes, confirmed>>
    BY <1>6 DEF ChangePassword, DisableMfa
  <2> QED BY <1>1, <2>1, <2>2, <2>3, Reading
<1>7. ASSUME NEW s \in Sessions, Enrol(c, s) PROVE AccessInv'
  <2>1. PICK x \in Secrets, k \in Window :
          Reads(c, "enrol", [Idle EXCEPT !.session = s, !.code = k, !.secret = x])
    BY <1>7 DEF Enrol
  <2> DEFINE read == [Idle EXCEPT !.session = s, !.code = k, !.secret = x]
  <2>2. k \in 0..MaxCounter + 1 /\ k # 0
    BY <1>0, AccessAssumption DEF Window, Rows
  <2>3. /\ read \in CallRecords /\ read.era = 0
        /\ read.session = s /\ read.code = k /\ read.secret = x
    BY <1>1, <2>2 DEF CallRecords
  <2>4. /\ Employee /\ user.password
        /\ UNCHANGED <<user, links, sessions, period, era, used, codes, confirmed>>
    BY <1>7 DEF Enrol, Usable, AccessInv, Account, OpenHasPassword
  <2> HIDE DEF read
  <2> QED BY <1>1, <2>1, <2>2, <2>3, <2>4, Reading DEF read
<1> QED BY <1>2, <1>3, <1>4, <1>5, <1>6, <1>7

LEMMA CallEnds ==
  ASSUME calls \in [Calls -> CallRecords], NEW c \in Calls, Ends(c)
  PROVE  /\ calls' \in [Calls -> CallRecords]
         /\ \A d \in Calls : calls'[d] = calls[d] \/ calls'[d] = Idle
  BY IdleFields DEF Ends

\* The rest of the steps: the calls go on or end, and the tables are as they should be.
LEMMA Writing ==
  ASSUME AccessInv, UNCHANGED calls \/ \E c \in Calls : Ends(c),
         user'.type = user.type, user.password => user'.password,
         \/ era' = era /\ (MayUseLink => MayUseLink')
         \/ era' = era + 1,
         Rows', Account', LinksHold', CodesHold'
  PROVE  AccessInv'
<1>1. Rows /\ calls \in [Calls -> CallRecords]
  BY Types DEF AccessInv
<1>2. /\ calls' \in [Calls -> CallRecords]
      /\ \A d \in Calls : calls'[d] = calls[d] \/ calls'[d] = Idle
  BY <1>1, CallEnds
<1>3. \A c \in Calls : CallKnows(c)'
  BY <1>1, <1>2, CallsKept DEF AccessInv
<1>4. TypeOK'
  BY <1>2, TypesNext
<1> QED BY <1>3, <1>4 DEF AccessInv

-----------------------------------------------------------------------------
(* Sessions and links                                                      *)

LEMMA Opened ==
  ASSUME AccessInv, NEW c \in Calls, NEW v \in BOOLEAN, Opens(c, v)
  PROVE  /\ sessions' \in [Sessions -> SessionRecords]
         /\ \A s \in Sessions : \/ sessions'[s] = sessions[s]
                             \/ sessions'[s].era = era \/ sessions'[s].late
<1>0. Rows /\ calls[c] \in CallRecords
  BY Types DEF AccessInv
<1>1. PICK s \in Sessions : sessions' = [sessions EXCEPT ![s] =
         [open |-> TRUE, verified |-> v, era |-> calls[c].era, late |-> Late(c)]]
  BY DEF Opens
<1>2. calls[c].era \in 0..MaxEras /\ Late(c) \in BOOLEAN /\ (calls[c].era = era \/ Late(c))
  BY <1>0 DEF Late, Outlived, CallRecords
<1> QED BY <1>0, <1>1, <1>2 DEF Rows, SessionRecords

LEMMA ClosedRows ==
  ASSUME Rows, NEW kept, era < MaxEras
  PROVE  /\ Closed(kept) \in [Sessions -> SessionRecords]
         /\ \A s \in Sessions : Closed(kept)[s].open => Open(s) /\ Closed(kept)[s].era = era + 1
<1>1. era + 1 \in 0..MaxEras /\ NoRow \in SessionRecords /\ ~NoRow.open
  BY AccessAssumption DEF Rows, NoRow, SessionRecords
<1>2. ASSUME NEW s \in Sessions
      PROVE  /\ [sessions[s] EXCEPT !.era = era + 1] \in SessionRecords
             /\ [sessions[s] EXCEPT !.era = era + 1].era = era + 1
             /\ [sessions[s] EXCEPT !.era = era + 1].open = sessions[s].open
  BY <1>1 DEF Rows, SessionRecords
<1> QED BY <1>1, <1>2 DEF Closed, Open, Rows

LEMMA Eras ==
  ASSUME Rows, NewEra
  PROVE  era < MaxEras /\ era' = era + 1 /\ era' \in 0..MaxEras
  BY AccessAssumption DEF Rows, NewEra

LEMMA SpendKeeps ==
  ASSUME Rows, NEW spent
  PROVE  /\ Spend(spent) \in [Links -> LinkStates]
         /\ \A l \in Links : Spend(spent)[l] = IF l \in spent THEN "spent" ELSE links[l]
  BY DEF Spend, Rows, LinkStates

\* A link issued was unissued, so nobody used it; it works only if the account is as it was.
LEMMA LinkIssued ==
  ASSUME AccessInv, NEW spent, NEW state \in {"late", "live"},
         \E l \in Links : /\ links[l] = "unissued"
                         /\ links' = [Spend(spent) EXCEPT ![l] = state],
         UNCHANGED used, state = "live" => user'.status \notin {"SUSPENDED", "DISABLED"},
         user'.status \in {"SUSPENDED", "DISABLED"} => user'.status = user.status
  PROVE  links' \in [Links -> LinkStates] /\ LinksHold'
<1>1. Rows /\ LinksHold
  BY Types DEF AccessInv
<1>2. PICK l \in Links : links[l] = "unissued" /\ links' = [Spend(spent) EXCEPT ![l] = state]
  OBVIOUS
<1>3. /\ Spend(spent) \in [Links -> LinkStates]
      /\ \A m \in Links : Spend(spent)[m] = IF m \in spent THEN "spent" ELSE links[m]
  BY <1>1, SpendKeeps
<1>4. /\ links' \in [Links -> LinkStates] /\ links'[l] = state
      /\ \A m \in Links \ {l} : links'[m] = IF m \in spent THEN "spent" ELSE links[m]
  BY <1>2, <1>3 DEF LinkStates
<1>5. UsedIsSpent' /\ LinkWorksOnce'
  BY <1>1, <1>2, <1>4 DEF LinksHold, UsedIsSpent, LinkWorksOnce
<1>6. ClosedHasNoLinks'
  BY <1>1, <1>4 DEF LinksHold, ClosedHasNoLinks
<1> QED BY <1>4, <1>5, <1>6 DEF LinksHold

-----------------------------------------------------------------------------
(* The steps that write                                                    *)

\* What Account is about, when the rows that say it change little.
LEMMA AccountKept ==
  ASSUME Account, user'.type = user.type, user'.status = user.status,
         user'.password = user.password,
         \A s \in Sessions : sessions'[s].open =>
           \/ Open(s) /\ sessions'[s] = sessions[s] /\ era' = era
           \/ (Employee => user.password) /\ (sessions'[s].era = era' \/ sessions'[s].late)
  PROVE  Account'
BY DEF Account, Invited, OpenHasPassword, ActiveHasPassword, SessionsOfThisEra, Employee, Open

LEMMA LinksKept ==
  ASSUME LinksHold, UNCHANGED <<links, used>>,
         user'.status \in {"SUSPENDED", "DISABLED"} => user'.status = user.status
  PROVE  LinksHold'
BY DEF LinksHold, UsedIsSpent, LinkWorksOnce, ClosedHasNoLinks

\* What CodesHold is about, when no code is accepted and the account's secret stays, with a
\* counter no lower, or goes.
LEMMA CodesKept ==
  ASSUME Rows, Rows', CodesHold, codes' = codes, confirmed' = confirmed, era' \in {era, era + 1},
         user'.secret \in {NoSecret, user.secret},
         user'.secret # NoSecret => user'.counter >= user.counter
  PROVE  CodesHold'
<1>1. CodeAcceptedOnce'
  BY DEF CodesHold, CodeAcceptedOnce
<1>2. user.counter \in Nat /\ user'.counter \in Nat /\ era \in Nat
  BY AccessAssumption DEF Rows, Users
<1>3. \A x \in Codes : x[1] \in Secrets /\ x[2] \in Nat
  BY AccessAssumption DEF Codes
<1>4. ASSUME NEW x \in Codes, x[1] = user'.secret, x[2] > user'.counter
      PROVE  codes'[x] < confirmed'[x[1]]
  <2>1. x[1] = user.secret /\ x[2] > user.counter
    BY <1>2, <1>3, <1>4, AccessAssumption
  <2> QED BY <2>1 DEF CodesHold, CodesLeft
<1>5. ASSUME NEW x \in Secrets PROVE confirmed'[x] <= era'
  BY <1>2 DEF CodesHold, CodesLeft, Rows
<1> QED BY <1>1, <1>4, <1>5 DEF CodesHold, CodesLeft

\* A call that is verified and has the password when it writes.
LEMMA FinishLoginStep ==
  ASSUME AccessInv, NEW c \in Calls, FinishLogin(c)
  PROVE  AccessInv'
<1> DEFINE k == calls[c].code
<1>1. /\ Rows /\ calls[c] \in CallRecords /\ CallKnows(c) /\ Account /\ LinksHold /\ CodesHold
      /\ k \in 0..MaxCounter + 1 /\ Employee /\ user.password
      /\ k = 0 <=> calls[c].secret = NoSecret
  BY Types DEF AccessInv, FinishLogin, At, CallKnows, Signed, CallRecords
<1>2. UNCHANGED <<links, period, era, used, confirmed>> /\ Ends(c)
  BY DEF FinishLogin
<1>3. CASE UNCHANGED <<user, sessions, codes>>
  <2>1. Rows'
    BY <1>1, <1>2, <1>3 DEF Rows
  <2>2. Account' /\ LinksHold'
    BY <1>1, <1>2, <1>3, LinksKept DEF Account, Invited, OpenHasPassword, ActiveHasPassword,
                                      SessionsOfThisEra, Employee, Open
  <2>3. CodesHold'
    BY <1>1, <1>2, <1>3 DEF CodesHold, CodesLeft, CodeAcceptedOnce
  <2> QED BY <1>2, <1>3, <2>1, <2>2, <2>3, Writing DEF MayUseLink
<1>4. CASE k = 0 /\ Opens(c, k # 0) /\ UNCHANGED <<user, codes>>
  <2>1. /\ sessions' \in [Sessions -> SessionRecords]
        /\ \A s \in Sessions : \/ sessions'[s] = sessions[s]
                            \/ sessions'[s].era = era \/ sessions'[s].late
    BY <1>4, Opened
  <2>2. Rows'
    BY <1>1, <1>2, <1>4, <2>1 DEF Rows
  <2>3. Account' /\ LinksHold'
    BY <1>1, <1>2, <1>4, <2>1, LinksKept, AccountKept DEF Open
  <2>4. CodesHold'
    BY <1>1, <1>2, <1>4 DEF CodesHold, CodesLeft, CodeAcceptedOnce
  <2> QED BY <1>2, <1>4, <2>2, <2>3, <2>4, Writing DEF MayUseLink
<1>5. CASE /\ k # 0 /\ Advances(k) /\ Opens(c, k # 0)
           /\ user' = [user EXCEPT !.counter = k]
           /\ codes' = IF calls[c].secret # user.secret THEN codes
                       ELSE [codes EXCEPT ![<<calls[c].secret, k>>] = @ + 1]
  <2>1. /\ sessions' \in [Sessions -> SessionRecords]
        /\ \A s \in Sessions : \/ sessions'[s] = sessions[s]
                            \/ sessions'[s].era = era \/ sessions'[s].late
    BY <1>5, Opened
  <2>2. /\ user' \in Users /\ user'.counter = k
        /\ user'.type = user.type /\ user'.status = user.status
        /\ user'.password = user.password /\ user'.secret = user.secret
       
    BY <1>1, <1>5 DEF Rows, Users
  <2>3. CASE calls[c].secret # user.secret \/ user.secret = NoSecret
    <3>1. codes' = codes
      BY <1>1, <1>5, <2>3
    <3>2. user.secret # NoSecret => user'.counter >= user.counter
      BY <1>1, <1>5, <2>2, AccessAssumption DEF Advances, Rows, Users
    <3>3. Rows'
      BY <1>1, <1>2, <1>5, <2>1, <2>2, <3>1 DEF Rows
    <3>4. CodesHold'
      BY <1>1, <1>2, <2>2, <3>1, <3>2, <3>3, CodesKept
    <3> QED BY <1>1, <1>2, <2>1, <2>2, <3>3, <3>4, LinksKept, AccountKept, Writing DEF Open, MayUseLink
  <2>4. CASE calls[c].secret = user.secret /\ user.secret # NoSecret
    <3> DEFINE x == <<user.secret, k>>
    <3>1. /\ x \in Codes /\ x[1] = user.secret /\ x[2] = k
          /\ codes' = [codes EXCEPT ![x] = codes[x] + 1]
      BY <1>1, <1>5, <2>4, AccessAssumption DEF Codes, Rows, Users
    <3>2. user.counter < k /\ k \in Nat /\ user.counter \in Nat
      BY <1>1, <1>5, <2>4, AccessAssumption DEF Advances, Rows, Users
    <3>3. codes[x] < confirmed[x[1]]
      BY <1>1, <3>1, <3>2 DEF CodesHold, CodesLeft
    <3>4. /\ codes[x] \in 0..MaxEras /\ confirmed[x[1]] \in 0..MaxEras
          /\ codes[x] + 1 \in 0..MaxEras
      BY <1>1, <2>4, <3>1, <3>3, AccessAssumption DEF Rows, Users
    <3> HIDE DEF x
    <3>5. /\ codes' \in [Codes -> 0..MaxEras] /\ codes'[x] <= confirmed[x[1]]
          /\ \A y \in Codes : y # x => codes'[y] = codes[y]
      BY <1>1, <3>1, <3>3, <3>4, AccessAssumption DEF Rows
    <3>6. \A y \in Codes : y[2] \in Nat
      BY AccessAssumption DEF Codes
    <3>7. CodeAcceptedOnce'
      BY <1>1, <1>2, <3>5 DEF CodesHold, CodeAcceptedOnce
    <3>8. \A y \in Codes : y[2] > k => y # x /\ y[2] > user.counter
      BY <3>1, <3>2, <3>6
    <3>9. CodesHold'
      BY <1>1, <1>2, <2>2, <3>5, <3>7, <3>8 DEF CodesHold, CodesLeft
    <3>10. Rows'
      BY <1>1, <1>2, <1>5, <2>1, <2>2, <3>5 DEF Rows
    <3> QED BY <1>1, <1>2, <2>1, <2>2, <3>9, <3>10, LinksKept, AccountKept, Writing
            DEF Open, MayUseLink
  <2> QED BY <2>3, <2>4
<1>6. \/ UNCHANGED <<user, sessions, codes>>
      \/ k = 0 /\ Opens(c, k # 0) /\ UNCHANGED <<user, codes>>
      \/ /\ k # 0 /\ Advances(k) /\ Opens(c, k # 0)
         /\ user' = [user EXCEPT !.counter = k]
         /\ codes' = IF calls[c].secret # user.secret THEN codes
                     ELSE [codes EXCEPT ![<<calls[c].secret, k>>] = @ + 1]
  BY DEF FinishLogin
<1> QED BY <1>3, <1>4, <1>5, <1>6

\* Links are issued, spent and lapse; the account is only read.
LEMMA IssueSteps ==
  ASSUME AccessInv,
         \/ \E c \in Calls : FinishRequestLink(c) \/ FinishProvision(c)
         \/ ResendInvitation \/ SendPasswordReset
         \/ \E l \in Links : LinkLapses(l)
  PROVE  AccessInv'
<1>1. Rows /\ Account /\ LinksHold /\ CodesHold
  BY Types DEF AccessInv
<1>2. UNCHANGED <<user, sessions, period, era, used, codes, confirmed>>
  BY DEF FinishRequestLink, FinishProvision, ResendInvitation, SendPasswordReset, LinkLapses
<1>3. UNCHANGED calls \/ \E c \in Calls : Ends(c)
  BY DEF FinishRequestLink, FinishProvision, ResendInvitation, SendPasswordReset, LinkLapses
<1>4. links' \in [Links -> LinkStates] /\ LinksHold'
  <2>1. ASSUME NEW c \in Calls, FinishRequestLink(c) \/ FinishProvision(c)
        PROVE  links' \in [Links -> LinkStates] /\ LinksHold'
    <3>1. PICK spent : Issues(c, spent)
      BY <2>1 DEF FinishRequestLink, FinishProvision
    <3>2. ~Outlived(c) => MayUseLink
      BY <2>1 DEF AccessInv, CallKnows, FinishRequestLink, FinishProvision, At, Outlived
    <3>3. PICK state \in {"late", "live"} :
            /\ \E l \in Links : /\ links[l] = "unissued"
                               /\ links' = [Spend(spent) EXCEPT ![l] = state]
            /\ state = "live" => ~Outlived(c)
      BY <3>1 DEF Issues
    <3> QED BY <1>2, <3>2, <3>3, LinkIssued DEF MayUseLink
  <2>2. ASSUME ResendInvitation \/ SendPasswordReset
        PROVE  links' \in [Links -> LinkStates] /\ LinksHold'
    <3>1. IssuesAnew /\ user.status \notin {"SUSPENDED", "DISABLED"}
      BY <2>2 DEF ResendInvitation, SendPasswordReset
    <3> QED BY <1>2, <3>1, LinkIssued DEF IssuesAnew
  <2>3. ASSUME NEW l \in Links, LinkLapses(l)
        PROVE  links' \in [Links -> LinkStates] /\ LinksHold'
    BY <1>1, <1>2, <2>3 DEF LinkLapses, LiveLinks, Rows, LinkStates, LinksHold, UsedIsSpent,
                           LinkWorksOnce, ClosedHasNoLinks
  <2> QED BY <2>1, <2>2, <2>3
<1>5. Rows'
  BY <1>1, <1>2, <1>4 DEF Rows
<1>6. Account' /\ CodesHold'
  BY <1>1, <1>2 DEF Account, Invited, OpenHasPassword, ActiveHasPassword, SessionsOfThisEra,
                    Employee, Open, CodesHold, CodesLeft, CodeAcceptedOnce
<1> QED BY <1>2, <1>3, <1>4, <1>5, <1>6, Writing DEF MayUseLink

\* A link that works is followed once more.
LEMMA LinkFollowed ==
  ASSUME Rows, LinksHold, NEW l \in LiveLinks, NEW spent, l \in spent,
         links' = Spend(spent), used' = [used EXCEPT ![l] = @ + 1],
         user'.status \in {"SUSPENDED", "DISABLED"} => user'.status = user.status
  PROVE  links' \in [Links -> LinkStates] /\ used' \in [Links -> 0..2] /\ LinksHold'
<1>1. /\ links' \in [Links -> LinkStates]
      /\ \A m \in Links : links'[m] = IF m \in spent THEN "spent" ELSE links[m]
  BY SpendKeeps
<1>2. l \in Links /\ used[l] = 0
  BY DEF LiveLinks, LinksHold, UsedIsSpent
<1>3. used' = [used EXCEPT ![l] = 1]
  BY <1>2
<1>4. used'[l] = 1 /\ \A m \in Links \ {l} : used'[m] = used[m]
  BY <1>2, <1>3 DEF Rows
<1>5. used' \in [Links -> 0..2]
  BY <1>2, <1>3 DEF Rows
<1>6. UsedIsSpent' /\ LinkWorksOnce'
  BY <1>1, <1>4 DEF LinksHold, UsedIsSpent, LinkWorksOnce
<1>7. ClosedHasNoLinks'
  BY <1>1 DEF LinksHold, ClosedHasNoLinks
<1> QED BY <1>1, <1>5, <1>6, <1>7 DEF LinksHold

\* Every link that works is spent.
LEMMA LinksClosed ==
  ASSUME Rows, LinksHold, links' = Spend(LiveLinks), UNCHANGED used
  PROVE  links' \in [Links -> LinkStates] /\ LinksHold'
<1>1. /\ links' \in [Links -> LinkStates]
      /\ \A m \in Links : links'[m] = IF m \in LiveLinks THEN "spent" ELSE links[m]
  BY SpendKeeps
<1> QED BY <1>1 DEF LinksHold, UsedIsSpent, LinkWorksOnce, ClosedHasNoLinks, LiveLinks

LEMMA FinishResetStep ==
  ASSUME AccessInv, NEW c \in Calls, FinishReset(c)
  PROVE  AccessInv'
<1> DEFINE l == calls[c].link
<1>1. Rows /\ Account /\ LinksHold /\ CodesHold
  BY Types DEF AccessInv
<1>2. UNCHANGED <<period, codes, confirmed>> /\ Ends(c)
  BY DEF FinishReset
<1>3. CASE UNCHANGED <<user, links, sessions, era, used>>
  <2>1. Rows'
    BY <1>1, <1>2, <1>3 DEF Rows
  <2>2. Account' /\ LinksHold' /\ CodesHold'
    BY <1>1, <1>2, <1>3, <2>1, AccountKept, LinksKept, CodesKept, AccessAssumption DEF Open, Rows, Users
  <2> QED BY <1>2, <1>3, <2>1, <2>2, Writing DEF MayUseLink
<1>4. CASE /\ StillLive(l) /\ links' = Spend(LiveLinks \cup {l})
           /\ user' = [user EXCEPT !.password = TRUE, !.status = "ACTIVE"]
           /\ sessions' = Closed({}) /\ NewEra
           /\ used' = [used EXCEPT ![l] = @ + 1]
  <2>1. era < MaxEras /\ era' = era + 1 /\ era' \in 0..MaxEras
    BY <1>1, <1>4, Eras
  <2>2. /\ sessions' \in [Sessions -> SessionRecords]
        /\ \A s \in Sessions : sessions'[s].open => sessions'[s].era = era'
    BY <1>1, <1>4, <2>1, ClosedRows
  <2>3. /\ user' \in Users /\ user'.password /\ user'.status = "ACTIVE" /\ user'.type = user.type
        /\ user'.secret = user.secret /\ user'.counter = user.counter
    BY <1>1, <1>4 DEF Rows, Users, Statuses
  <2>4. links' \in [Links -> LinkStates] /\ used' \in [Links -> 0..2] /\ LinksHold'
    BY <1>1, <1>4, <2>3, LinkFollowed DEF StillLive
  <2>5. Rows'
    BY <1>1, <1>2, <2>1, <2>2, <2>3, <2>4 DEF Rows
  <2>6. Account'
    BY <2>2, <2>3 DEF Account, Invited, OpenHasPassword, ActiveHasPassword, SessionsOfThisEra, Open
  <2>7. CodesHold'
    BY <1>1, <1>2, <2>1, <2>3, <2>5, CodesKept, AccessAssumption DEF Rows, Users
  <2> QED BY <1>2, <2>1, <2>3, <2>4, <2>5, <2>6, <2>7, Writing
<1> QED BY <1>3, <1>4 DEF FinishReset

LEMMA FinishMagicLinkStep ==
  ASSUME AccessInv, NEW c \in Calls, FinishMagicLink(c)
  PROVE  AccessInv'
<1> DEFINE l == calls[c].link
<1>1. Rows /\ Account /\ LinksHold /\ CodesHold /\ ~Employee
  BY Types DEF AccessInv, CallKnows, FinishMagicLink, At
<1>2. UNCHANGED <<period, era, codes, confirmed>> /\ Ends(c)
  BY DEF FinishMagicLink
<1>3. CASE UNCHANGED <<user, links, sessions, used>>
  <2>1. Rows'
    BY <1>1, <1>2, <1>3 DEF Rows
  <2>2. Account' /\ LinksHold' /\ CodesHold'
    BY <1>1, <1>2, <1>3, <2>1, AccountKept, LinksKept, CodesKept, AccessAssumption DEF Open, Rows, Users
  <2> QED BY <1>2, <1>3, <2>1, <2>2, Writing DEF MayUseLink
<1>4. CASE StillLive(l) /\ links' = Spend({l}) /\ UNCHANGED <<user, sessions, used>>
  <2>1. links' \in [Links -> LinkStates] /\ \A m \in Links : links'[m] \in {links[m], "spent"}
    BY <1>1, <1>4, SpendKeeps
  <2>2. Rows'
    BY <1>1, <1>2, <1>4, <2>1 DEF Rows
  <2>3. LinksHold'
    BY <1>1, <1>4, <2>1 DEF LinksHold, UsedIsSpent, LinkWorksOnce, ClosedHasNoLinks
  <2>4. Account'
    BY <1>1, <1>2, <1>4, AccountKept DEF Open
  <2>5. CodesHold'
    <3>1. codes' = codes /\ confirmed' = confirmed /\ era' = era /\ user' = user
      BY <1>2, <1>4
    <3>2. user'.counter >= user.counter
      BY <1>1, <3>1, AccessAssumption DEF Rows, Users
    <3> QED BY <1>1, <2>2, <3>1, <3>2, CodesKept
  <2> QED BY <1>2, <1>4, <2>2, <2>3, <2>4, <2>5, Writing DEF MayUseLink
<1>5. CASE /\ StillLive(l) /\ links' = Spend({l})
           /\ calls[c].invited => user.status = "INVITED"
           /\ user' = [user EXCEPT !.status = IF calls[c].invited THEN "ACTIVE" ELSE @]
           /\ Opens(c, TRUE)
           /\ used' = [used EXCEPT ![l] = @ + 1]
  <2>1. /\ sessions' \in [Sessions -> SessionRecords]
        /\ \A s \in Sessions : \/ sessions'[s] = sessions[s]
                            \/ sessions'[s].era = era \/ sessions'[s].late
    BY <1>5, Opened
  <2>2. /\ user' \in Users /\ user'.password = user.password /\ user'.type = user.type
        /\ user'.secret = user.secret /\ user'.counter = user.counter
        /\ user'.status \in {user.status, "ACTIVE"}
    BY <1>1, <1>5 DEF Rows, Users, Statuses
  <2>3. links' \in [Links -> LinkStates] /\ used' \in [Links -> 0..2] /\ LinksHold'
    BY <1>1, <1>5, <2>2, LinkFollowed DEF StillLive
  <2>4. Rows'
    BY <1>1, <1>2, <2>1, <2>2, <2>3 DEF Rows
  <2>5. Account'
    BY <1>1, <1>2, <2>1, <2>2 DEF Account, Invited, OpenHasPassword, ActiveHasPassword,
                                  SessionsOfThisEra, Employee, Open
  <2>6. CodesHold'
    BY <1>1, <1>2, <2>2, <2>4, CodesKept, AccessAssumption DEF Rows, Users
  <2> QED BY <1>2, <2>2, <2>3, <2>4, <2>5, <2>6, Writing DEF MayUseLink
<1> QED BY <1>3, <1>4, <1>5 DEF FinishMagicLink

LEMMA FinishChangeStep ==
  ASSUME AccessInv, NEW c \in Calls, FinishChange(c)
  PROVE  AccessInv'
<1>1. Rows /\ Account /\ LinksHold /\ CodesHold /\ Employee /\ user.password
  BY Types DEF AccessInv, CallKnows, FinishChange, At, Signed
<1>2. UNCHANGED <<period, used, codes, confirmed>> /\ Ends(c) /\ links' = Spend(LiveLinks) /\ NewEra
  BY DEF FinishChange
<1>3. era < MaxEras /\ era' = era + 1 /\ era' \in 0..MaxEras
  BY <1>1, <1>2, Eras
<1>4. /\ sessions' \in [Sessions -> SessionRecords]
      /\ \A s \in Sessions : sessions'[s].open => sessions'[s].era = era'
  BY <1>1, <1>3, ClosedRows DEF FinishChange
<1>5. user' = user
  BY <1>1 DEF FinishChange, Rows, Users
<1>6. links' \in [Links -> LinkStates] /\ LinksHold'
  BY <1>1, <1>2, LinksClosed
<1>7. Rows'
  BY <1>1, <1>2, <1>3, <1>4, <1>5, <1>6 DEF Rows
<1>8. Account'
  BY <1>1, <1>4, <1>5, AccountKept
<1>9. CodesHold'
  BY <1>1, <1>2, <1>3, <1>5, <1>7, CodesKept, AccessAssumption DEF Rows, Users
<1> QED BY <1>2, <1>3, <1>5, <1>6, <1>7, <1>8, <1>9, Writing

\* The account has no secret when it is read; nothing says it has none when it is written.
LEMMA EnrolReadStep ==
  ASSUME AccessInv, NEW c \in Calls, EnrolRead(c)
  PROVE  AccessInv'
<1>1. Rows /\ Account /\ LinksHold /\ CodesHold /\ calls \in [Calls -> CallRecords]
  BY Types DEF AccessInv
<1>2. UNCHANGED <<user, links, sessions, period, era, used, codes, confirmed>>
  BY DEF EnrolRead
<1>3. Rows' /\ Account' /\ LinksHold' /\ CodesHold'
  BY <1>1, <1>2 DEF Rows, Account, Invited, OpenHasPassword, ActiveHasPassword, SessionsOfThisEra,
                    Employee, Open, LinksHold, UsedIsSpent, LinkWorksOnce, ClosedHasNoLinks,
                    CodesHold, CodesLeft, CodeAcceptedOnce
<1>4. CASE Ends(c)
  BY <1>2, <1>3, <1>4, Writing DEF MayUseLink
<1>5. CASE calls' = [calls EXCEPT ![c].step = "enrolling"]
  <2> DEFINE call == [calls[c] EXCEPT !.step = "enrolling"]
  <2>1. /\ call \in CallRecords /\ call.step = "enrolling" /\ call.era = calls[c].era
        /\ call.session = calls[c].session /\ call.code = calls[c].code
        /\ call.secret = calls[c].secret
    BY <1>1 DEF CallRecords, Steps
  <2>2. calls' = [calls EXCEPT ![c] = call]
    BY <1>5
  <2> HIDE DEF call
  <2>3. /\ calls' \in [Calls -> CallRecords] /\ calls'[c] = call
        /\ \A d \in Calls \ {c} : calls'[d] = calls[d]
    BY <1>1, <2>1, <2>2
  <2>4. CallKnows(c)'
    BY <1>2, <2>1, <2>3 DEF AccessInv, CallKnows, EnrolRead, At, Signed, Employee
  <2>5. \A d \in Calls \ {c} : CallKnows(d)'
    BY <1>2, <2>3 DEF AccessInv, CallKnows, Employee, MayUseLink
  <2> QED BY <1>3, <2>3, <2>4, <2>5, TypesNext DEF AccessInv
<1> QED BY <1>4, <1>5 DEF EnrolRead

\* One more confirmation, and one more time for each code of the secret.
LEMMA FinishEnrolStep ==
  ASSUME AccessInv, NEW c \in Calls, FinishEnrol(c)
  PROVE  AccessInv'
<1> DEFINE s == calls[c].session
           k == calls[c].code
           x == calls[c].secret
           y == <<x, k>>
           closed == Closed({s})
<1>1. /\ Rows /\ Account /\ LinksHold /\ CodesHold /\ Employee /\ user.password
      /\ s \in Sessions /\ x \in Secrets /\ k \in 0..MaxCounter + 1 /\ k # 0
  BY Types DEF AccessInv, CallKnows, FinishEnrol, At, Signed, CallRecords
<1>2. /\ UNCHANGED <<links, period, used>> /\ Ends(c) /\ NewEra
      /\ user' = [user EXCEPT !.secret = x, !.counter = k]
      /\ sessions' = [closed EXCEPT ![s].verified = @ \/ Open(s)]
      /\ codes' = [codes EXCEPT ![y] = @ + 1]
      /\ confirmed' = [confirmed EXCEPT ![x] = @ + 1]
  BY DEF FinishEnrol
<1>3. era < MaxEras /\ era' = era + 1 /\ era' \in 0..MaxEras /\ era \in Nat
  BY <1>1, <1>2, Eras DEF Rows
<1>4. /\ closed \in [Sessions -> SessionRecords]
      /\ \A t \in Sessions : closed[t].open => closed[t].era = era'
  BY <1>1, <1>3, ClosedRows
<1>5. /\ sessions' \in [Sessions -> SessionRecords]
      /\ \A t \in Sessions : sessions'[t].open => sessions'[t].era = era'
  <2> DEFINE seen == closed[s].verified \/ Open(s)
             row == [closed[s] EXCEPT !.verified = seen]
  <2>1. sessions' = [closed EXCEPT ![s] = row]
    BY <1>2
  <2>2. seen \in BOOLEAN
    OBVIOUS
  <2> HIDE DEF closed, seen
  <2>3. row \in SessionRecords /\ row.open = closed[s].open /\ row.era = closed[s].era
    BY <1>1, <1>4, <2>2 DEF SessionRecords
  <2> HIDE DEF row
  <2> QED BY <1>1, <1>4, <2>1, <2>3
<1>6. /\ user' \in Users /\ user'.password = user.password /\ user'.type = user.type
      /\ user'.status = user.status /\ user'.secret = x /\ user'.counter = k
  <2> HIDE DEF k, x
  <2> QED BY <1>1, <1>2 DEF Rows, Users
<1>7. y \in Codes /\ y[1] = x /\ y[2] = k
  BY <1>1, AccessAssumption DEF Codes
<1> HIDE DEF y, x, k
<1>8. confirmed[x] <= era /\ codes[y] <= confirmed[x] /\ confirmed[x] \in Nat /\ codes[y] \in Nat
  BY <1>1, <1>7 DEF CodesHold, CodesLeft, CodeAcceptedOnce, Rows
<1>9. confirmed[x] + 1 \in 0..MaxEras /\ codes[y] + 1 \in 0..MaxEras
  BY <1>3, <1>8, AccessAssumption
<1>10. /\ confirmed' \in [Secrets -> 0..MaxEras] /\ confirmed'[x] = confirmed[x] + 1
       /\ \A z \in Secrets : z # x => confirmed'[z] = confirmed[z]
  BY <1>1, <1>2, <1>9 DEF Rows
<1>11. /\ codes' \in [Codes -> 0..MaxEras] /\ codes'[y] = codes[y] + 1
       /\ \A z \in Codes : z # y => codes'[z] = codes[z]
  BY <1>1, <1>2, <1>7, <1>9 DEF Rows
<1>12. Rows'
  BY <1>1, <1>2, <1>3, <1>5, <1>6, <1>10, <1>11 DEF Rows
<1>13. Account' /\ LinksHold'
  BY <1>1, <1>2, <1>5, <1>6, AccountKept, LinksKept
<1>14. CodesHold'
  <2>1. \A z \in Codes : /\ z[1] \in Secrets /\ z[2] \in Nat
                         /\ codes[z] \in Nat /\ codes[z] <= confirmed[z[1]]
    BY <1>1, AccessAssumption DEF Codes, CodesHold, CodeAcceptedOnce, Rows
  <2>2. CodeAcceptedOnce'
    <3> SUFFICES ASSUME NEW z \in Codes PROVE codes'[z] <= confirmed'[z[1]]
      BY DEF CodeAcceptedOnce
    <3>1. CASE z = y
      BY <1>7, <1>8, <1>10, <1>11, <3>1
    <3>2. CASE z # y
      BY <1>8, <1>10, <1>11, <2>1, <3>2
    <3> QED BY <3>1, <3>2
  <2>3. ASSUME NEW z \in Codes, z[1] = x, z[2] > k PROVE codes'[z] < confirmed'[z[1]]
    <3>1. z # y
      BY <1>1, <1>7, <2>1, <2>3
    <3> QED BY <1>8, <1>10, <1>11, <2>1, <2>3, <3>1
  <2>4. \A z \in Secrets : confirmed'[z] <= era'
    BY <1>1, <1>3, <1>8, <1>10 DEF CodesHold, CodesLeft, Rows
  <2> QED BY <1>6, <2>2, <2>3, <2>4 DEF CodesHold, CodesLeft
<1> QED BY <1>2, <1>3, <1>6, <1>12, <1>13, <1>14, Writing

\* Sessions end, one or all but those kept.
LEMMA SessionSteps ==
  ASSUME AccessInv,
         \/ \E s \in Sessions : Logout(s) \/ Revoke(s) \/ RevokeOthers(s) \/ SessionLapses(s)
         \/ TeamRevokes
  PROVE  AccessInv'
<1>1. Rows /\ Account /\ LinksHold /\ CodesHold
  BY Types DEF AccessInv
<1>2. UNCHANGED <<user, links, calls, period, used, codes, confirmed>>
  BY DEF Logout, Revoke, RevokeOthers, SessionLapses, TeamRevokes
<1>3. CASE \E s \in Sessions : sessions' = [sessions EXCEPT ![s] = NoRow] /\ UNCHANGED era
  <2>1. NoRow \in SessionRecords /\ ~NoRow.open
    BY AccessAssumption DEF NoRow, SessionRecords
  <2>2. Rows'
    BY <1>1, <1>2, <1>3, <2>1 DEF Rows
  <2>3. \A s \in Sessions : sessions'[s].open => sessions'[s] = sessions[s]
    BY <1>1, <1>3, <2>1 DEF Rows
  <2>4. Account' /\ LinksHold'
    BY <1>1, <1>2, <1>3, <2>3, AccountKept, LinksKept DEF Open
  <2>5. CodesHold'
    BY <1>1, <1>2, <1>3, <2>2, CodesKept, AccessAssumption DEF Rows, Users
  <2> QED BY <1>2, <1>3, <2>2, <2>4, <2>5, Writing DEF MayUseLink
<1>4. CASE \E s : sessions' = Closed(s) /\ NewEra
  <2>1. era < MaxEras /\ era' = era + 1 /\ era' \in 0..MaxEras
    BY <1>1, <1>4, Eras
  <2>2. /\ sessions' \in [Sessions -> SessionRecords]
        /\ \A s \in Sessions : sessions'[s].open => Open(s) /\ sessions'[s].era = era'
    BY <1>1, <1>4, <2>1, ClosedRows
  <2>3. Rows'
    BY <1>1, <1>2, <2>1, <2>2 DEF Rows
  <2>4. Account' /\ LinksHold'
    BY <1>1, <1>2, <2>2, AccountKept, LinksKept DEF Account, OpenHasPassword
  <2>5. CodesHold'
    BY <1>1, <1>2, <2>1, <2>3, CodesKept, AccessAssumption DEF Rows, Users
  <2> QED BY <1>2, <2>1, <2>3, <2>4, <2>5, Writing
<1> QED BY <1>3, <1>4 DEF Logout, Revoke, RevokeOthers, SessionLapses, TeamRevokes

LEMMA MfaEnds ==
  ASSUME AccessInv,
         (\E c \in Calls : FinishDisableMfa(c)) \/ TeamResetsMfa
  PROVE  AccessInv'
<1>1. Rows /\ Account /\ LinksHold /\ CodesHold
  BY Types DEF AccessInv
<1>2. /\ UNCHANGED <<links, sessions, period, era, used, codes, confirmed>>
      /\ user' = [user EXCEPT !.secret = NoSecret, !.counter = 0]
      /\ UNCHANGED calls \/ \E c \in Calls : Ends(c)
  BY DEF FinishDisableMfa, TeamResetsMfa
<1>3. /\ user' \in Users /\ user'.password = user.password /\ user'.type = user.type
      /\ user'.status = user.status /\ user'.secret = NoSecret
  <2>1. 0 \in 0..MaxCounter + 1
    BY AccessAssumption
  <2> QED BY <1>1, <1>2, <2>1 DEF Rows, Users
<1>4. Rows'
  BY <1>1, <1>2, <1>3 DEF Rows
<1>5. Account' /\ LinksHold'
  BY <1>1, <1>2, <1>3, AccountKept, LinksKept DEF Open
<1>6. CodesHold'
  BY <1>1, <1>2, <1>3, <1>4, CodesKept
<1> QED BY <1>2, <1>3, <1>4, <1>5, <1>6, Writing DEF MayUseLink

LEMMA StatusUsers ==
  ASSUME Rows, NEW status \in Statuses, user' = [user EXCEPT !.status = status]
  PROVE  /\ user' \in Users /\ user'.password = user.password /\ user'.type = user.type
         /\ user'.status = status /\ user'.secret = user.secret
         /\ user'.counter = user.counter /\ user.counter \in Nat
  BY AccessAssumption DEF Rows, Users

\* A suspended person had a password; an invited one has no session to close.
LEMMA SuspendSteps ==
  ASSUME AccessInv, Suspend \/ CancelInvitation
  PROVE  AccessInv'
<1>1. Rows /\ Account /\ LinksHold /\ CodesHold /\ Employee
  BY Types DEF AccessInv, Suspend, CancelInvitation
<1>2. UNCHANGED <<calls, period, used, codes, confirmed>> /\ links' = Spend(LiveLinks) /\ NewEra
  BY DEF Suspend, CancelInvitation
<1>3. era < MaxEras /\ era' = era + 1 /\ era' \in 0..MaxEras
  BY <1>1, <1>2, Eras
<1>4. PICK status \in {"SUSPENDED", "DISABLED"} :
        /\ user' = [user EXCEPT !.status = status]
        /\ status = "SUSPENDED" => user.status = "ACTIVE"
  BY DEF Suspend, CancelInvitation
<1>5. /\ user' \in Users /\ user'.password = user.password /\ user'.type = user.type
      /\ user'.status = status /\ user'.secret = user.secret
      /\ user'.counter = user.counter /\ user.counter \in Nat
  BY <1>1, <1>4, StatusUsers DEF Statuses
<1>6. /\ sessions' \in [Sessions -> SessionRecords]
      /\ \A s \in Sessions : sessions'[s].open => Open(s) /\ sessions'[s].era = era'
  <2>1. CASE Suspend
    BY <1>1, <1>3, <2>1, ClosedRows DEF Suspend
  <2>2. CASE CancelInvitation
    BY <1>1, <2>2 DEF CancelInvitation, Rows, Account, Invited, OpenHasPassword, Open
  <2> QED BY <2>1, <2>2
<1>7. links' \in [Links -> LinkStates] /\ LinksHold'
  BY <1>1, <1>2, LinksClosed
<1>8. Rows'
  BY <1>1, <1>2, <1>3, <1>5, <1>6, <1>7 DEF Rows
<1>9. Account'
  BY <1>1, <1>4, <1>5, <1>6 DEF Account, Invited, OpenHasPassword, ActiveHasPassword,
                                SessionsOfThisEra, Employee, Open
<1>10. CodesHold'
  BY <1>1, <1>2, <1>3, <1>5, <1>8, CodesKept
<1> QED BY <1>2, <1>3, <1>5, <1>7, <1>8, <1>9, <1>10, Writing

LEMMA ReactivateStep ==
  ASSUME AccessInv, Reactivate
  PROVE  AccessInv'
<1>1. Rows /\ Account /\ LinksHold /\ CodesHold /\ Employee /\ ~MayUseLink
  BY Types DEF AccessInv, Reactivate, MayUseLink
<1>2. UNCHANGED <<sessions, calls, period, era, used, codes, confirmed>>
  BY DEF Reactivate
<1>3. PICK status \in {"ACTIVE", "INVITED"} :
        /\ user' = [user EXCEPT !.status = status]
        /\ status = "ACTIVE" <=> user.password
        /\ status = "ACTIVE" => UNCHANGED links
        /\ status = "INVITED" => IssuesAnew
  BY DEF Reactivate, ReactivatedStatus
<1>4. /\ user' \in Users /\ user'.password = user.password /\ user'.type = user.type
      /\ user'.status = status /\ user'.secret = user.secret
      /\ user'.counter = user.counter /\ user.counter \in Nat
  BY <1>1, <1>3, StatusUsers DEF Statuses
<1>5. links' \in [Links -> LinkStates] /\ LinksHold'
  <2>1. CASE status = "ACTIVE"
    BY <1>1, <1>2, <1>3, <1>4, <2>1, LinksKept DEF Rows
  <2>2. CASE status = "INVITED"
    BY <1>2, <1>3, <1>4, <2>2, LinkIssued DEF IssuesAnew
  <2> QED BY <2>1, <2>2
<1>6. Rows'
  BY <1>1, <1>2, <1>4, <1>5 DEF Rows
<1>7. Account'
  BY <1>1, <1>2, <1>3, <1>4 DEF Account, Invited, OpenHasPassword, ActiveHasPassword,
                                SessionsOfThisEra, Employee, Open
<1>8. CodesHold'
  BY <1>1, <1>2, <1>4, <1>6, CodesKept
<1> QED BY <1>1, <1>2, <1>4, <1>5, <1>6, <1>7, <1>8, Writing

LEMMA QuietSteps ==
  ASSUME AccessInv, PeriodPasses \/ (\E c \in Calls : Abort(c)) \/ UNCHANGED vars
  PROVE  AccessInv'
<1>1. Rows /\ Account /\ LinksHold /\ CodesHold
  BY Types DEF AccessInv
<1>2. /\ UNCHANGED <<user, links, sessions, era, used, codes, confirmed>>
      /\ UNCHANGED calls \/ \E c \in Calls : Ends(c)
  BY DEF PeriodPasses, Abort, vars
<1>3. period' \in 1..MaxCounter
  BY <1>1, AccessAssumption DEF PeriodPasses, Abort, vars, Rows
<1>4. Rows'
  BY <1>1, <1>2, <1>3 DEF Rows
<1>5. Account' /\ LinksHold'
  BY <1>1, <1>2, AccountKept, LinksKept DEF Open
<1>6. CodesHold'
  BY <1>1, <1>2, <1>4, CodesKept, AccessAssumption DEF Rows, Users
<1> QED BY <1>2, <1>4, <1>5, <1>6, Writing DEF MayUseLink

-----------------------------------------------------------------------------
(* The theorems                                                            *)

LEMMA AccessInitial ==
  ASSUME Init PROVE AccessInv
<1>1. /\ user \in Users /\ user.secret = NoSecret
      /\ user.status = "INVITED" \/ user.status = "ACTIVE"
      /\ user.status = "INVITED" <=> ~user.password
  <2>1. 0 \in 0..MaxCounter + 1
    BY AccessAssumption
  <2>2. CASE user \in [type : {"EMPLOYEE", "CUSTOMER"}, status : {"INVITED"}, password : {FALSE},
                       secret : {NoSecret}, counter : {0}]
    BY <2>1, <2>2 DEF Users, Statuses
  <2>3. CASE user = [type |-> "EMPLOYEE", status |-> "ACTIVE", password |-> TRUE,
                     secret |-> NoSecret, counter |-> 0]
    BY <2>1, <2>3 DEF Users, Statuses
  <2> QED BY <2>2, <2>3 DEF Init
<1>2. NoRow \in SessionRecords /\ ~NoRow.open
  BY AccessAssumption DEF NoRow, SessionRecords
<1>3. /\ links \in [Links -> LinkStates]
      /\ sessions \in [Sessions -> SessionRecords] /\ \A s \in Sessions : ~Open(s)
      /\ used \in [Links -> 0..2] /\ \A l \in Links : used[l] = 0
      /\ codes \in [Codes -> 0..MaxEras] /\ \A x \in Codes : codes[x] = 0
      /\ confirmed \in [Secrets -> 0..MaxEras] /\ \A x \in Secrets : confirmed[x] = 0
      /\ period \in 1..MaxCounter /\ era \in 0..MaxEras /\ era = 0
  <2>1. links \in [Links -> LinkStates]
    BY DEF Init, LinkStates
  <2>2. 0 \in 0..MaxEras /\ 1 \in 1..MaxCounter
    BY AccessAssumption
  <2>3. codes = [x \in Codes |-> 0] /\ confirmed = [x \in Secrets |-> 0]
    BY DEF Init
  <2>4. /\ codes \in [Codes -> 0..MaxEras] /\ \A x \in Codes : codes[x] = 0
        /\ confirmed \in [Secrets -> 0..MaxEras] /\ \A x \in Secrets : confirmed[x] = 0
    BY <2>2, <2>3
  <2>5. /\ sessions \in [Sessions -> SessionRecords] /\ \A s \in Sessions : ~Open(s)
        /\ used \in [Links -> 0..2] /\ \A l \in Links : used[l] = 0
        /\ period \in 1..MaxCounter /\ era \in 0..MaxEras /\ era = 0
    BY <1>2, <2>2 DEF Init, Open
  <2> QED BY <2>1, <2>4, <2>5
<1>4. calls \in [Calls -> CallRecords] /\ \A c \in Calls : calls[c] = Idle
  BY IdleFields DEF Init
<1>5. TypeOK
  BY <1>1, <1>3, <1>4, Types DEF Rows
<1>6. \A c \in Calls : CallKnows(c)
  BY <1>3, <1>4, IdleFields DEF CallKnows, Signed
<1>7. Account
  BY <1>1, <1>3 DEF Account, Invited, OpenHasPassword, ActiveHasPassword, SessionsOfThisEra
<1>8. LinksHold
  BY <1>1, <1>3 DEF LinksHold, UsedIsSpent, LinkWorksOnce, ClosedHasNoLinks
<1>9. CodesHold
  BY <1>1, <1>3, AccessAssumption DEF CodesHold, CodesLeft, CodeAcceptedOnce, Codes
<1> QED BY <1>5, <1>6, <1>7, <1>8, <1>9 DEF AccessInv

LEMMA AccessStep ==
  ASSUME AccessInv, [Next]_vars PROVE AccessInv'
<1>1. ASSUME NEW c \in Calls, Entries(c) PROVE AccessInv'
  BY <1>1, ReadingSteps, FinishLoginStep, IssueSteps, FinishResetStep, FinishMagicLinkStep
     DEF Entries
<1>2. ASSUME NEW c \in Calls, OwnAccount(c) PROVE AccessInv'
  BY <1>2, ReadingSteps, FinishChangeStep, EnrolReadStep, FinishEnrolStep, MfaEnds DEF OwnAccount
<1>3. CASE Team
  BY <1>3, IssueSteps, SessionSteps, MfaEnds, SuspendSteps, ReactivateStep DEF Team
<1> QED BY <1>1, <1>2, <1>3, IssueSteps, SessionSteps, QuietSteps DEF Next

\* The inductive invariant holds of every behaviour.
THEOREM AccessInvariant == Spec => []AccessInv
<1>1. Init => AccessInv
  BY AccessInitial
<1>2. AccessInv /\ [Next]_vars => AccessInv'
  BY AccessStep
<1> QED BY <1>1, <1>2, PTL DEF Spec

\* The account, its links and sessions and the calls in flight keep their types; an enrolled
\* secret never goes without the counter of an accepted code (mfaLastAcceptedCounter).
THEOREM AccessTypeCorrect == Spec => []TypeOK
<1>1. AccessInv => TypeOK
  BY DEF AccessInv
<1> QED BY <1>1, AccessInvariant, PTL

\* Closing an account's sessions closes them all: only the one that asked for it, or one of a
\* login already accepted, is still open after a recovery, a change of password, an enrolment,
\* a revocation or a suspension.
THEOREM ClosingCloses == Spec => []SessionsOfThisEra
<1>1. AccessInv => SessionsOfThisEra
  BY DEF AccessInv, Account
<1> QED BY <1>1, AccessInvariant, PTL

\* A one-time code is accepted no more times than its secret was confirmed, by a confirmation or
\* by one of the logins that present it at once, however many confirmations overlap.
THEOREM CodesWorkOnce == Spec => []CodeAcceptedOnce
<1>1. AccessInv => CodeAcceptedOnce
  BY DEF AccessInv, CodesHold
<1> QED BY <1>1, AccessInvariant, PTL

\* A link sets one password or opens one session, however many calls follow it at once.
THEOREM LinksWorkOnce == Spec => []LinkWorksOnce
<1>1. AccessInv => LinkWorksOnce
  BY DEF AccessInv, LinksHold
<1> QED BY <1>1, AccessInvariant, PTL

\* A suspended or cancelled account has no working link but one that was being issued.
THEOREM ClosedAccountsHaveNoLinks == Spec => []ClosedHasNoLinks
<1>1. AccessInv => ClosedHasNoLinks
  BY DEF AccessInv, LinksHold
<1> QED BY <1>1, AccessInvariant, PTL

\* Nobody of the team is active, or was suspended, without having set a password.
THEOREM ActiveMembersHavePasswords == Spec => []ActiveHasPassword
<1>1. AccessInv => ActiveHasPassword
  BY DEF AccessInv, Account
<1> QED BY <1>1, AccessInvariant, PTL
=============================================================================
