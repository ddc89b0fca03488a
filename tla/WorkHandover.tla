---------------------------- MODULE WorkHandover ----------------------------
(***************************************************************************)
(* Who answers for what: the person a request is assigned to, the rows of  *)
(* request_assignments, the owner of its project, and the suspension of a  *)
(* member of the team, which hands their open work over.                   *)
(*                                                                         *)
(* The operations on one request lock its row, those on its project lock   *)
(* that; a suspension locks none: it lists the member's work, and then     *)
(* moves each piece by id.  What a transaction writes is seen when it      *)
(* commits, so it is one step then, and the locks it holds meanwhile       *)
(* follow from how far it is.  Any call may be aborted: by a deadlock,     *)
(* which these locks can reach, or by a lost connection.                   *)
(***************************************************************************)
EXTENDS Naturals, FiniteSets

CONSTANTS
  Members,   \* employees
  Requests,
  Calls,     \* server requests that may be in flight
  Nobody,    \* the null of currentAssigneeId and ownerId
  NoRequest

ASSUME HandoverAssumption == Nobody \notin Members /\ NoRequest \notin Requests

VARIABLES
  members,   \* users.status
  requests,  \* quote_requests.status
  assignee,  \* quote_requests.currentAssigneeId
  openRows,  \* per request and person, the assignment rows with unassignedAt null
  projects,  \* the handoff status of the project of each request
  owner,     \* projects.ownerId
  calls,     \* what each call is and how far it is
  todo,      \* per call, the requests a suspension listed and has not moved
  moved,     \* per call, those it has moved and not committed
  jobs,      \* per call, the projects it listed
  seen,      \* per call and request, the rows its UPDATE found open
  outrun,    \* history: per call, requests whose rows others wrote after it looked
  late,      \* history: per call, whether who receives was suspended meanwhile
  excused,   \* history: work given to somebody by a call that met their suspension, or
             \* reopened in their name after it
  crossed    \* history: requests a suspension moved with rows it had not seen

tables == <<members, requests, projects>>
holders == <<assignee, openRows, owner>>
plans == <<todo, moved, jobs>>
sights == <<seen, outrun, late>>
history == <<excused, crossed>>
vars == <<tables, holders, calls, plans, sights, history>>

\* EN_REVISION stands for every status before the acceptance.
RequestStates == {"EN_REVISION", "ACEPTADA", "RECHAZADA", "CONVERTIDA_EN_PROYECTO"}
HandoffStates == {"NINGUNO", "EN_TRANSICION", "COMPLETADO"}

\* OPEN_REQUEST_STATUSES: what still waits for the person it is assigned to. An accepted
\* request does, until it is converted.
UnansweredRequests == {"EN_REVISION"}
OpenRequests == {"EN_REVISION", "ACEPTADA"}

\* A piece of work: a request, or the project it became.
Ask(r) == <<"solicitud", r>>
Job(r) == <<"proyecto", r>>
Works == {"solicitud", "proyecto"} \X Requests
Holder(w) == IF w[1] = "solicitud" THEN assignee[w[2]] ELSE owner[w[2]]

People == Members \cup {Nobody}

\* A bag of rows, by person.
NoRows == [m \in Members |-> 0]
Plus(rows, p) == [m \in Members |-> IF m = p THEN rows[m] + 1 ELSE rows[m]]
Minus(rows, gone) == [m \in Members |-> IF rows[m] > gone[m] THEN rows[m] - gone[m] ELSE 0]

Kinds == {"libre", "suspend", "assign", "take", "convert", "owner"}
Steps == {"libre", "mark", "list", "close", "update", "commit", "lock"}

\* who is suspended, or receives; heir, of a suspension; the request at hand.
Call(kind, step, who, heir, r) ==
  [kind |-> kind, step |-> step, who |-> who, heir |-> heir, req |-> r]
Idle == Call("libre", "libre", Nobody, Nobody, NoRequest)

TypeOK ==
  /\ members \in [Members -> {"ACTIVE", "SUSPENDED"}]
  /\ requests \in [Requests -> RequestStates]
  /\ assignee \in [Requests -> People]
  /\ openRows \in [Requests -> [Members -> Nat]]
  /\ projects \in [Requests -> HandoffStates]
  /\ owner \in [Requests -> People]
  /\ calls \in [Calls -> [kind : Kinds, step : Steps, who : People, heir : People,
                          req : Requests \cup {NoRequest}]]
  /\ todo \in [Calls -> SUBSET Requests]
  /\ moved \in [Calls -> SUBSET Requests]
  /\ jobs \in [Calls -> SUBSET Requests]
  /\ seen \in [Calls -> [Requests -> [Members -> Nat]]]
  /\ outrun \in [Calls -> SUBSET Requests]
  /\ late \in [Calls -> BOOLEAN]
  /\ excused \subseteq Works
  /\ crossed \subseteq Requests

Active(m) == members[m] = "ACTIVE"
MayReceive(p) == p = Nobody \/ (p \in Members /\ Active(p))

At(c, kind, step) == calls[c].kind = kind /\ calls[c].step = step
Free(c) == calls[c].kind = "libre"
Starts(c, call) == calls' = [calls EXCEPT ![c] = call] /\ UNCHANGED <<plans, sights>>
Goes(c, step) == calls' = [calls EXCEPT ![c].step = step]
Forgets(c) ==
  /\ calls' = [calls EXCEPT ![c] = Idle]
  /\ todo' = [todo EXCEPT ![c] = {}]
  /\ moved' = [moved EXCEPT ![c] = {}]
  /\ jobs' = [jobs EXCEPT ![c] = {}]

-----------------------------------------------------------------------------
(* Locks and meetings                                                      *)

\* The row of quote_requests: taken FOR UPDATE at the start, or by the UPDATE of a suspension.
LocksRequest(d, r) ==
  \/ calls[d].kind = "assign" /\ calls[d].req = r
  \/ r \in moved[d]

RequestFree(r, others) == \A d \in others : ~LocksRequest(d, r)

\* The rows of request_assignments that an UPDATE has closed.
LocksRows(d, r) ==
  /\ seen[d][r] # NoRows
  /\ \/ r \in moved[d]
     \/ /\ calls[d].req = r
        /\ At(d, "assign", "commit") \/ At(d, "suspend", "update")

RowsFree(r, others) == \A d \in others : ~LocksRows(d, r)

\* The row of projects: setProjectOwner takes it FOR UPDATE at the start.
ProjectFree(r, others) == \A d \in others : ~(At(d, "owner", "commit") /\ calls[d].req = r)

\* A suspension of p that has already listed their requests, or their projects.
PastRequests == {"list", "close", "update", "commit"}
PastProjects == {"commit"}
Listed(p, steps, others) ==
  \E d \in others : calls[d].kind = "suspend" /\ calls[d].who = p /\ calls[d].step \in steps

\* Who receives the work of a call; whether their suspension did not or will not see it.
Receiver(call) == IF call.kind = "suspend" THEN call.heir ELSE call.who
Meets(c, steps) == late[c] \/ Listed(Receiver(calls[c]), steps, Calls \ {c})

Given(works, meets) == IF meets THEN excused \cup works ELSE excused \ works

\* Call c commits, having closed those rows of the requests rs, and p is suspended if it says
\* so: what others saw is no longer there to close, and who they give to may be gone.
Commits(c, rs, closed, p) ==
  /\ Forgets(c)
  /\ seen' = [d \in Calls |->
                [r \in Requests |-> IF d = c THEN NoRows
                                    ELSE IF r \in rs THEN Minus(seen[d][r], closed[r])
                                    ELSE seen[d][r]]]
  /\ outrun' = [d \in Calls |->
                 IF d = c THEN {}
                 ELSE outrun[d] \cup {r \in rs : calls[d].kind = "suspend" /\ calls[d].req = r}]
  /\ late' = [d \in Calls |->
                d # c /\ (late[d] \/ (p # Nobody /\ ~Free(d) /\ Receiver(calls[d]) = p))]

-----------------------------------------------------------------------------
(* suspendTeamMember                                                       *)

Suspend(c, m, h) ==
  /\ Free(c) /\ Active(m) /\ h # m /\ MayReceive(h)
  /\ Starts(c, Call("suspend", "mark", m, h, NoRequest))
  /\ UNCHANGED <<tables, holders, history>>

\* The user's row is written by id, whatever it has become; a second suspension waits here.
Mark(c) ==
  /\ At(c, "suspend", "mark")
  /\ ~Listed(calls[c].who, PastRequests, Calls \ {c})
  /\ Goes(c, "list")
  /\ todo' = [todo EXCEPT ![c] = {r \in Requests : /\ assignee[r] = calls[c].who
                                                   /\ requests[r] \in OpenRequests}]
  /\ UNCHANGED <<tables, holders, moved, jobs, sights, history>>

\* updateMany of the open rows: it looks now, and waits for the rows another call has closed.
CloseRows(c, r) ==
  /\ At(c, "suspend", "list") /\ r \in todo[c]
  /\ calls' = [calls EXCEPT ![c] = Call("suspend", "close", @.who, @.heir, r)]
  /\ seen' = [seen EXCEPT ![c][r] = openRows[r]]
  /\ UNCHANGED <<tables, holders, plans, outrun, late, history>>

RowsClosed(c) ==
  /\ At(c, "suspend", "close") /\ RowsFree(calls[c].req, Calls \ {c})
  /\ Goes(c, "update")
  /\ UNCHANGED <<tables, holders, plans, sights, history>>

\* The heir's row, and the request by id.
MoveRequest(c) ==
  LET r == calls[c].req IN
  /\ At(c, "suspend", "update") /\ RequestFree(r, Calls \ {c})
  /\ calls' = [calls EXCEPT ![c] = Call("suspend", "list", @.who, @.heir, NoRequest)]
  /\ todo' = [todo EXCEPT ![c] = @ \ {r}]
  /\ moved' = [moved EXCEPT ![c] = @ \cup {r}]
  /\ UNCHANGED <<tables, holders, jobs, sights, history>>

ListProjects(c) ==
  /\ At(c, "suspend", "list") /\ todo[c] = {}
  /\ Goes(c, "commit")
  /\ jobs' = [jobs EXCEPT ![c] = {r \in Requests : /\ owner[r] = calls[c].who
                                                   /\ projects[r] = "EN_TRANSICION"}]
  /\ UNCHANGED <<tables, holders, todo, moved, sights, history>>

\* Each project is written by id, once no call holds it.
FinishSuspend(c) ==
  LET heir == calls[c].heir
      asks == {Ask(r) : r \in moved[c]}
      handed == {Job(r) : r \in jobs[c]}
  IN
  /\ At(c, "suspend", "commit") /\ \A r \in jobs[c] : ProjectFree(r, Calls)
  /\ members' = [members EXCEPT ![calls[c].who] = "SUSPENDED"]
  /\ assignee' = [r \in Requests |-> IF r \in moved[c] THEN heir ELSE assignee[r]]
  /\ openRows' = [r \in Requests |-> IF r \in moved[c]
                                     THEN Plus(Minus(openRows[r], seen[c][r]), heir)
                                     ELSE openRows[r]]
  /\ owner' = [r \in Requests |-> IF r \in jobs[c] THEN heir ELSE owner[r]]
  /\ excused' = (excused \ (asks \cup handed))
                \cup (IF Meets(c, PastRequests) THEN asks ELSE {})
                \cup (IF Meets(c, PastProjects) THEN handed ELSE {})
  /\ crossed' = (crossed \ moved[c]) \cup (outrun[c] \cap moved[c])
  /\ Commits(c, moved[c], seen[c], calls[c].who)
  /\ UNCHANGED <<requests, projects>>

-----------------------------------------------------------------------------
(* assignQuoteRequest, takeQuoteRequest                                    *)

\* Whoever receives is read after the request is locked, and is not locked.
Assign(c, r, m) ==
  /\ Free(c) /\ RequestFree(r, Calls) /\ Active(m) /\ assignee[r] # m
  /\ Starts(c, Call("assign", "close", m, Nobody, r))
  /\ UNCHANGED <<tables, holders, history>>

CloseAssigned(c) ==
  LET r == calls[c].req IN
  /\ At(c, "assign", "close") /\ RowsFree(r, Calls \ {c})
  /\ Goes(c, "commit")
  /\ seen' = [seen EXCEPT ![c][r] = openRows[r]]
  /\ UNCHANGED <<tables, holders, plans, outrun, late, history>>

FinishAssign(c) ==
  LET r == calls[c].req
      m == calls[c].who
  IN
  /\ At(c, "assign", "commit")
  /\ openRows' = [openRows EXCEPT ![r] = Plus(Minus(@, seen[c][r]), m)]
  /\ assignee' = [assignee EXCEPT ![r] = m]
  /\ excused' = Given({Ask(r)}, Meets(c, PastRequests))
  /\ crossed' = crossed \ {r}
  /\ Commits(c, {r}, seen[c], Nobody)
  /\ UNCHANGED <<tables, owner>>

\* Whoever takes was active when their session was read.
Take(c, r, m) ==
  /\ Free(c) /\ Active(m)
  /\ Starts(c, Call("take", "lock", m, Nobody, r))
  /\ UNCHANGED <<tables, holders, history>>

TakenOrNot(r) == TRUE
Untaken(r) == assignee[r] = Nobody

FinishTake(c) ==
  LET r == calls[c].req
      m == calls[c].who
  IN
  /\ At(c, "take", "lock") /\ RequestFree(r, Calls) /\ Untaken(r)
  /\ openRows' = [openRows EXCEPT ![r] = Plus(@, m)]
  /\ assignee' = [assignee EXCEPT ![r] = m]
  /\ excused' = Given({Ask(r)}, Meets(c, PastRequests))
  /\ Commits(c, {r}, [q \in Requests |-> NoRows], Nobody)
  /\ UNCHANGED <<tables, owner, crossed>>

-----------------------------------------------------------------------------
(* The project                                                             *)

\* createProjectFromAcceptance: the owner is who the request is assigned to, if active, or
\* whom the caller names, who must be, or nobody. Nothing read here is locked.
Convert(c, r, p) ==
  /\ Free(c) /\ requests[r] = "ACEPTADA" /\ projects[r] = "NINGUNO" /\ MayReceive(p)
  /\ Starts(c, Call("convert", "lock", p, Nobody, r))
  /\ UNCHANGED <<tables, holders, history>>

FinishConvert(c) ==
  LET r == calls[c].req IN
  /\ At(c, "convert", "lock") /\ RequestFree(r, Calls) /\ projects[r] = "NINGUNO"
  /\ projects' = [projects EXCEPT ![r] = "EN_TRANSICION"]
  /\ owner' = [owner EXCEPT ![r] = calls[c].who]
  /\ requests' = [requests EXCEPT ![r] = "CONVERTIDA_EN_PROYECTO"]
  /\ excused' = Given({Job(r)}, Meets(c, PastProjects))
  /\ Commits(c, {}, [q \in Requests |-> NoRows], Nobody)
  /\ UNCHANGED <<members, assignee, openRows, crossed>>

\* setProjectOwner: whoever receives is read after the project is locked, and is not locked.
SetOwner(c, r, p) ==
  /\ Free(c) /\ projects[r] # "NINGUNO" /\ ProjectFree(r, Calls) /\ MayReceive(p)
  /\ Starts(c, Call("owner", "commit", p, Nobody, r))
  /\ UNCHANGED <<tables, holders, history>>

FinishOwner(c) ==
  LET r == calls[c].req IN
  /\ At(c, "owner", "commit")
  /\ owner' = [owner EXCEPT ![r] = calls[c].who]
  /\ excused' = Given({Job(r)}, Meets(c, PastProjects))
  /\ Commits(c, {}, [q \in Requests |-> NoRows], Nobody)
  /\ UNCHANGED <<tables, assignee, openRows, crossed>>

\* Reopening work does not look at whose it is.
Reopened(work, p, steps) ==
  IF ~MayReceive(p) \/ Listed(p, steps, Calls) THEN excused \cup {work} ELSE excused

SetHandoff(r, status) ==
  /\ projects[r] # "NINGUNO" /\ status \in {"EN_TRANSICION", "COMPLETADO"} \ {projects[r]}
  /\ ProjectFree(r, Calls)
  /\ projects' = [projects EXCEPT ![r] = status]
  /\ excused' = IF status = "EN_TRANSICION"
                THEN Reopened(Job(r), owner[r], PastProjects) ELSE excused
  /\ UNCHANGED <<members, requests, holders, calls, plans, sights, crossed>>

-----------------------------------------------------------------------------
(* The request's status, and the team                                      *)

\* The customer accepts.
Accept(r) ==
  /\ requests[r] = "EN_REVISION" /\ RequestFree(r, Calls)
  /\ requests' = [requests EXCEPT ![r] = "ACEPTADA"]
  /\ UNCHANGED <<members, projects, holders, calls, plans, sights, history>>

\* closeQuoteRequest.
Close(r) ==
  /\ requests[r] = "EN_REVISION" /\ RequestFree(r, Calls)
  /\ requests' = [requests EXCEPT ![r] = "RECHAZADA"]
  /\ UNCHANGED <<members, projects, holders, calls, plans, sights, history>>

\* reopenQuoteRequest: the assignee is who it was.
Reopen(r) ==
  /\ requests[r] = "RECHAZADA" /\ RequestFree(r, Calls)
  /\ requests' = [requests EXCEPT ![r] = "EN_REVISION"]
  /\ excused' = Reopened(Ask(r), assignee[r], PastRequests)
  /\ UNCHANGED <<members, projects, holders, calls, plans, sights, crossed>>

\* reactivateTeamMember, of somebody who has a password; a suspension under way holds the
\* user's row.
Reactivate(m) ==
  /\ members[m] = "SUSPENDED" /\ ~Listed(m, PastRequests, Calls)
  /\ members' = [members EXCEPT ![m] = "ACTIVE"]
  /\ excused' = {w \in excused : Holder(w) # m}
  /\ UNCHANGED <<requests, projects, holders, calls, plans, sights, crossed>>

\* A transaction ends without committing: refused, a deadlock's victim, or cut off.
Abort(c) ==
  /\ ~Free(c)
  /\ Forgets(c)
  /\ seen' = [seen EXCEPT ![c] = [r \in Requests |-> NoRows]]
  /\ outrun' = [outrun EXCEPT ![c] = {}]
  /\ late' = [late EXCEPT ![c] = FALSE]
  /\ UNCHANGED <<tables, holders, history>>

-----------------------------------------------------------------------------
Init ==
  /\ members = [m \in Members |-> "ACTIVE"]
  /\ requests = [r \in Requests |-> "EN_REVISION"]
  /\ assignee = [r \in Requests |-> Nobody]
  /\ openRows = [r \in Requests |-> NoRows]
  /\ projects = [r \in Requests |-> "NINGUNO"]
  /\ owner = [r \in Requests |-> Nobody]
  /\ calls = [c \in Calls |-> Idle]
  /\ todo = [c \in Calls |-> {}]
  /\ moved = [c \in Calls |-> {}]
  /\ jobs = [c \in Calls |-> {}]
  /\ seen = [c \in Calls |-> [r \in Requests |-> NoRows]]
  /\ outrun = [c \in Calls |-> {}]
  /\ late = [c \in Calls |-> FALSE]
  /\ excused = {} /\ crossed = {}

Suspension(c) ==
  \/ \E m \in Members, h \in People : Suspend(c, m, h)
  \/ Mark(c)
  \/ \E r \in Requests : CloseRows(c, r)
  \/ RowsClosed(c) \/ MoveRequest(c) \/ ListProjects(c) \/ FinishSuspend(c)

Assignment(c) ==
  \/ \E r \in Requests, m \in Members : Assign(c, r, m) \/ Take(c, r, m)
  \/ CloseAssigned(c) \/ FinishAssign(c) \/ FinishTake(c)

Ownership(c) ==
  \/ \E r \in Requests, p \in People : Convert(c, r, p) \/ SetOwner(c, r, p)
  \/ FinishConvert(c) \/ FinishOwner(c)

Desk(r) ==
  \/ \E status \in HandoffStates : SetHandoff(r, status)
  \/ Accept(r) \/ Close(r) \/ Reopen(r)

Next ==
  \/ \E c \in Calls : Suspension(c) \/ Assignment(c) \/ Ownership(c) \/ Abort(c)
  \/ \E r \in Requests : Desk(r)
  \/ \E m \in Members : Reactivate(m)

Spec == Init /\ [][Next]_vars

-----------------------------------------------------------------------------
(* Properties                                                              *)

\* Work that still waits for somebody waits for somebody who can sign in: suspending a
\* person leaves nothing open in their name. The code keeps this but for what a call gave
\* them while they were being suspended, and what was closed then and reopened later.
OpenWorkIsAttended ==
  \A r \in Requests :
    /\ requests[r] \in {"EN_REVISION", "ACEPTADA"} /\ Ask(r) \notin excused
       => MayReceive(assignee[r])
    /\ projects[r] = "EN_TRANSICION" /\ Job(r) \notin excused
       => MayReceive(owner[r])

\* The history of assignments says who a request is assigned to: the assignee has an open
\* row, and no other row is open unless a suspension closed the rows while another call
\* was writing them.
AssignmentsAgree ==
  \A r \in Requests :
    /\ assignee[r] # Nobody => openRows[r][assignee[r]] > 0
    /\ r \notin crossed => openRows[r] = Plus(NoRows, assignee[r])
=============================================================================
