------------------------ MODULE WorkHandover_proofs ------------------------
(***************************************************************************)
(* The theorems about the handover of work: nothing open is left with a    *)
(* suspended person but in the cases the model names, and the history of   *)
(* assignments agrees with the assignee.                                   *)
(*                                                                         *)
(* HandoverInv is inductive.  Most of it is said of one call at a time     *)
(* (CallInv), and what a call knows depends on its own plan and on the     *)
(* tables; so a step of one call that writes no table is shown once, by    *)
(* OwnMove, and a commit by what Commits leaves to the other calls.        *)
(***************************************************************************)
EXTENDS WorkHandover, TLAPS

CallRecords == [kind : Kinds, step : Steps, who : People, heir : People,
                req : Requests \cup {NoRequest}]

\* What a call is made of at each step.
Shaped(c) ==
  /\ calls[c].kind \in {"assign", "take", "convert", "owner"} => calls[c].req \in Requests
  /\ calls[c].kind \in {"assign", "take"} => calls[c].who \in Members
  /\ calls[c].kind = "assign" => calls[c].step \in {"close", "commit"}
  /\ calls[c].kind \in {"take", "convert"} => calls[c].step = "lock"
  /\ calls[c].kind = "owner" => calls[c].step = "commit"
  /\ calls[c].kind = "suspend" =>
       /\ calls[c].who \in Members /\ calls[c].who # calls[c].heir
       /\ calls[c].step \in {"close", "update"} => calls[c].req \in Requests
       /\ calls[c].step \in {"mark", "list", "commit"} => calls[c].req = NoRequest
  /\ moved[c] # {} => calls[c].kind = "suspend"

\* The rows a call will close are those that are open, unless they were written after it looked.
Closing(c, r) ==
  \/ calls[c].kind = "assign" /\ calls[c].step = "commit" /\ calls[c].req = r
  \/ calls[c].kind = "suspend" /\ calls[c].step \in {"close", "update"} /\ calls[c].req = r
     /\ r \notin outrun[c]
  \/ r \in moved[c] /\ r \notin outrun[c]
SeesRows(c) == \A r \in Requests : Closing(c, r) => seen[c][r] = openRows[r]

\* What a suspension listed is all the person has, but for what is excused.
HasRequest(p, r) ==
  assignee[r] = p /\ requests[r] \in OpenRequests /\ Ask(r) \notin excused
HasProject(p, r) ==
  owner[r] = p /\ projects[r] = "EN_TRANSICION" /\ Job(r) \notin excused
ListsWork(c) ==
  calls[c].kind = "suspend" =>
    /\ calls[c].step \in PastRequests =>
         \A r \in Requests : HasRequest(calls[c].who, r) => r \in todo[c] \/ r \in moved[c]
    /\ calls[c].step \in PastProjects =>
         /\ todo[c] = {}
         /\ \A r \in Requests : HasProject(calls[c].who, r) => r \in jobs[c]

\* Who receives may receive, unless suspended meanwhile.
ReceiverReady(c) == ~Free(c) /\ ~late[c] => MayReceive(Receiver(calls[c]))

CallInv(c) == Shaped(c) /\ SeesRows(c) /\ ListsWork(c) /\ ReceiverReady(c)

\* One call at a time writes a request.
LockedOnce ==
  \A r \in Requests : \A c, d \in Calls :
    LocksRequest(c, r) /\ LocksRequest(d, r) => c = d

HandoverInv ==
  /\ TypeOK
  /\ \A c \in Calls : CallInv(c)
  /\ LockedOnce
  /\ OpenWorkIsAttended
  /\ AssignmentsAgree

-----------------------------------------------------------------------------
\* The fields of a call.
LEMMA CallFields ==
  ASSUME NEW k \in Kinds, NEW s \in Steps, NEW p \in People, NEW h \in People,
         NEW r \in Requests \cup {NoRequest}
  PROVE  /\ Call(k, s, p, h, r) \in CallRecords
         /\ Call(k, s, p, h, r).kind = k
         /\ Call(k, s, p, h, r).step = s
         /\ Call(k, s, p, h, r).who = p
         /\ Call(k, s, p, h, r).heir = h
         /\ Call(k, s, p, h, r).req = r
BY DEF Call, CallRecords

LEMMA IdleFields ==
  /\ Idle \in CallRecords
  /\ Idle.kind = "libre"
  /\ Idle.step = "libre"
  /\ Idle.who = Nobody /\ Idle.heir = Nobody /\ Idle.req = NoRequest
BY CallFields DEF Idle, Kinds, Steps, People

\* A call that only goes on to another step.
LEMMA StepField ==
  ASSUME NEW call \in CallRecords, NEW s \in Steps
  PROVE  /\ [call EXCEPT !.step = s] \in CallRecords
         /\ [call EXCEPT !.step = s].step = s
         /\ [call EXCEPT !.step = s].kind = call.kind
         /\ [call EXCEPT !.step = s].who = call.who
         /\ [call EXCEPT !.step = s].heir = call.heir
         /\ [call EXCEPT !.step = s].req = call.req
BY DEF CallRecords

LEMMA GoesOn ==
  ASSUME TypeOK, NEW c \in Calls, NEW s \in Steps, Goes(c, s)
  PROVE  /\ calls' \in [Calls -> CallRecords]
         /\ calls'[c].step = s
         /\ calls'[c].kind = calls[c].kind
         /\ calls'[c].who = calls[c].who
         /\ calls'[c].heir = calls[c].heir
         /\ calls'[c].req = calls[c].req
         /\ \A d \in Calls \ {c} : calls'[d] = calls[d]
<1>1. calls \in [Calls -> CallRecords]
  BY DEF TypeOK, CallRecords
<1>2. calls' = [calls EXCEPT ![c] = [calls[c] EXCEPT !.step = s]]
  BY <1>1 DEF Goes
<1> QED BY <1>1, <1>2, StepField

\* Bags of rows.
LEMMA Bags ==
  /\ NoRows \in [Members -> Nat]
  /\ \A rows \in [Members -> Nat], p \in People : Plus(rows, p) \in [Members -> Nat]
  /\ \A rows, gone \in [Members -> Nat] : Minus(rows, gone) \in [Members -> Nat]
  /\ \A rows \in [Members -> Nat], m \in Members : Plus(rows, m)[m] > 0
  /\ \A rows \in [Members -> Nat] : Minus(rows, rows) = NoRows
  /\ Plus(NoRows, Nobody) = NoRows
<1>1. NoRows \in [Members -> Nat]
  BY DEF NoRows
<1>2. ASSUME NEW rows \in [Members -> Nat], NEW p \in People PROVE Plus(rows, p) \in [Members -> Nat]
  BY DEF Plus
<1>3. ASSUME NEW rows \in [Members -> Nat], NEW gone \in [Members -> Nat]
      PROVE  Minus(rows, gone) \in [Members -> Nat]
  BY DEF Minus
<1>4. ASSUME NEW rows \in [Members -> Nat], NEW m \in Members PROVE Plus(rows, m)[m] > 0
  BY DEF Plus
<1>5. ASSUME NEW rows \in [Members -> Nat] PROVE Minus(rows, rows) = NoRows
  BY DEF Minus, NoRows
<1>6. Plus(NoRows, Nobody) = NoRows
  BY HandoverAssumption DEF Plus, NoRows
<1> QED BY <1>1, <1>2, <1>3, <1>4, <1>5, <1>6

\* Requests and projects are different work.
LEMMA Pieces ==
  /\ \A r, q \in Requests : /\ Ask(r) = Ask(q) => r = q
                            /\ Job(r) = Job(q) => r = q
                            /\ Ask(r) # Job(q)
  /\ \A r \in Requests : Ask(r) \in Works /\ Job(r) \in Works
  /\ \A r \in Requests : Holder(Ask(r)) = assignee[r] /\ Holder(Job(r)) = owner[r]
BY DEF Ask, Job, Works, Holder

-----------------------------------------------------------------------------
(* A step of one call that writes no table                                 *)

Kept(d) ==
  /\ calls'[d] = calls[d] /\ todo'[d] = todo[d] /\ moved'[d] = moved[d] /\ jobs'[d] = jobs[d]
  /\ seen'[d] = seen[d] /\ outrun'[d] = outrun[d] /\ late'[d] = late[d]

\* What is known of a call depends on its entries and on the tables.
LEMMA KeptCall ==
  ASSUME NEW d \in Calls, CallInv(d), Kept(d), UNCHANGED <<tables, holders, excused>>
  PROVE  CallInv(d)'
<1> USE DEF Kept, CallInv, tables, holders
<1>1. Shaped(d)'
  BY DEF Shaped
<1>2. SeesRows(d)'
  BY DEF SeesRows, Closing
<1>3. ListsWork(d)'
  BY DEF ListsWork, HasRequest, HasProject
<1>4. ReceiverReady(d)'
  BY DEF ReceiverReady, Free, Receiver, MayReceive, Active
<1> QED BY <1>1, <1>2, <1>3, <1>4

LEMMA OwnMove ==
  ASSUME HandoverInv, NEW c \in Calls, TypeOK', UNCHANGED <<tables, holders, history>>,
         \A d \in Calls \ {c} : Kept(d),
         CallInv(c)',
         \A r \in Requests : LocksRequest(c, r)' =>
           LocksRequest(c, r) \/ RequestFree(r, Calls \ {c})
  PROVE  HandoverInv'
<1>1. \A d \in Calls : CallInv(d)'
  BY KeptCall DEF HandoverInv, history
<1>2. LockedOnce'
  <2> SUFFICES ASSUME NEW r \in Requests, NEW a \in Calls, NEW b \in Calls,
                      LocksRequest(a, r)', LocksRequest(b, r)', a # b
               PROVE  FALSE
    BY DEF LockedOnce
  <2>1. \A d \in Calls \ {c} : LocksRequest(d, r)' => LocksRequest(d, r)
    BY DEF LocksRequest, Kept
  <2> QED BY <2>1 DEF HandoverInv, LockedOnce, RequestFree
<1>3. OpenWorkIsAttended' /\ AssignmentsAgree'
  BY DEF HandoverInv, OpenWorkIsAttended, AssignmentsAgree, MayReceive, Active, tables, holders,
         history
<1> QED BY <1>1, <1>2, <1>3 DEF HandoverInv

\* A free call that becomes a call of some kind, knowing who receives.
LEMMA StartsCall ==
  ASSUME HandoverInv, NEW c \in Calls, NEW call \in CallRecords, Free(c), Starts(c, call),
         UNCHANGED <<tables, holders, history>>,
         call.kind # "libre",
         call.kind \in {"assign", "take", "convert", "owner"} => call.req \in Requests,
         call.kind \in {"assign", "take"} => call.who \in Members,
         call.kind = "assign" => call.step = "close" /\ RequestFree(call.req, Calls),
         call.kind \in {"take", "convert"} => call.step = "lock",
         call.kind = "owner" => call.step = "commit",
         call.kind = "suspend" => /\ call.who \in Members /\ call.who # call.heir
                                  /\ call.step = "mark" /\ call.req = NoRequest,
         MayReceive(Receiver(call))
  PROVE  HandoverInv'
<1> USE DEF plans, sights
<1>1. calls \in [Calls -> CallRecords]
  BY DEF HandoverInv, TypeOK, CallRecords
<1>2. calls' \in [Calls -> CallRecords] /\ calls'[c] = call /\ \A d \in Calls \ {c} : Kept(d)
  BY <1>1 DEF Starts, Kept
<1>3. TypeOK'
  BY <1>2 DEF HandoverInv, TypeOK, Starts, tables, holders, history, CallRecords
<1>4. moved[c] = {} /\ moved'[c] = {}
  BY DEF HandoverInv, CallInv, Shaped, Free, Starts
<1>5. CallInv(c)'
  <2>1. Shaped(c)'
    BY <1>2, <1>4 DEF Shaped
  <2>2. SeesRows(c)' /\ ListsWork(c)'
    BY <1>2, <1>4 DEF SeesRows, Closing, ListsWork, PastRequests, PastProjects
  <2>3. ReceiverReady(c)'
    BY <1>2 DEF ReceiverReady, Receiver, MayReceive, Active, tables
  <2> QED BY <2>1, <2>2, <2>3 DEF CallInv
<1>6. ASSUME NEW r \in Requests, LocksRequest(c, r)' PROVE RequestFree(r, Calls \ {c})
  BY <1>2, <1>4, <1>6 DEF LocksRequest, RequestFree
<1> QED BY <1>2, <1>3, <1>5, <1>6, OwnMove

LEMMA StartSteps ==
  ASSUME HandoverInv, NEW c \in Calls,
         \/ \E m \in Members, h \in People : Suspend(c, m, h)
         \/ \E r \in Requests, m \in Members : Assign(c, r, m) \/ Take(c, r, m)
         \/ \E r \in Requests, p \in People : Convert(c, r, p) \/ SetOwner(c, r, p)
  PROVE  HandoverInv'
<1>1. ASSUME NEW m \in Members, NEW h \in People, Suspend(c, m, h) PROVE HandoverInv'
  <2> DEFINE call == Call("suspend", "mark", m, h, NoRequest)
  <2>0. "suspend" \in Kinds /\ "mark" \in Steps /\ m \in People
    BY DEF Kinds, Steps, People
  <2>1. /\ call \in CallRecords
        /\ call.kind = "suspend" /\ call.step = "mark" /\ call.who = m /\ call.heir = h
        /\ call.req = NoRequest
    BY <2>0, CallFields
  <2>2. Free(c) /\ Starts(c, call) /\ h # m /\ MayReceive(h) /\ UNCHANGED <<tables, holders, history>>
    BY <1>1 DEF Suspend
  <2>3. Receiver(call) = h
    BY <2>1 DEF Receiver
  <2> HIDE DEF call
  <2> QED BY <2>1, <2>2, <2>3, StartsCall
<1>2. ASSUME NEW r \in Requests, NEW m \in Members, Assign(c, r, m) PROVE HandoverInv'
  <2> DEFINE call == Call("assign", "close", m, Nobody, r)
  <2>0. "assign" \in Kinds /\ "close" \in Steps /\ m \in People /\ Nobody \in People
    BY DEF Kinds, Steps, People
  <2>1. /\ call \in CallRecords
        /\ call.kind = "assign" /\ call.step = "close" /\ call.who = m /\ call.req = r
    BY <2>0, CallFields
  <2>2. /\ Free(c) /\ Starts(c, call) /\ RequestFree(r, Calls) /\ Active(m)
        /\ UNCHANGED <<tables, holders, history>>
    BY <1>2 DEF Assign
  <2>3. Receiver(call) = m
    BY <2>1 DEF Receiver
  <2> HIDE DEF call
  <2> QED BY <2>1, <2>2, <2>3, StartsCall DEF MayReceive
<1>3. ASSUME NEW r \in Requests, NEW m \in Members, Take(c, r, m) PROVE HandoverInv'
  <2> DEFINE call == Call("take", "lock", m, Nobody, r)
  <2>0. "take" \in Kinds /\ "lock" \in Steps /\ m \in People /\ Nobody \in People
    BY DEF Kinds, Steps, People
  <2>1. /\ call \in CallRecords
        /\ call.kind = "take" /\ call.step = "lock" /\ call.who = m /\ call.req = r
    BY <2>0, CallFields
  <2>2. Free(c) /\ Starts(c, call) /\ Active(m) /\ UNCHANGED <<tables, holders, history>>
    BY <1>3 DEF Take
  <2>3. Receiver(call) = m
    BY <2>1 DEF Receiver
  <2> HIDE DEF call
  <2> QED BY <2>1, <2>2, <2>3, StartsCall DEF MayReceive
<1>4. ASSUME NEW r \in Requests, NEW p \in People, Convert(c, r, p) PROVE HandoverInv'
  <2> DEFINE call == Call("convert", "lock", p, Nobody, r)
  <2>0. "convert" \in Kinds /\ "lock" \in Steps /\ Nobody \in People
    BY DEF Kinds, Steps, People
  <2>1. /\ call \in CallRecords
        /\ call.kind = "convert" /\ call.step = "lock" /\ call.who = p /\ call.req = r
    BY <2>0, CallFields
  <2>2. Free(c) /\ Starts(c, call) /\ MayReceive(p) /\ UNCHANGED <<tables, holders, history>>
    BY <1>4 DEF Convert
  <2>3. Receiver(call) = p
    BY <2>1 DEF Receiver
  <2> HIDE DEF call
  <2> QED BY <2>1, <2>2, <2>3, StartsCall
<1>5. ASSUME NEW r \in Requests, NEW p \in People, SetOwner(c, r, p) PROVE HandoverInv'
  <2> DEFINE call == Call("owner", "commit", p, Nobody, r)
  <2>0. "owner" \in Kinds /\ "commit" \in Steps /\ Nobody \in People
    BY DEF Kinds, Steps, People
  <2>1. /\ call \in CallRecords
        /\ call.kind = "owner" /\ call.step = "commit" /\ call.who = p /\ call.req = r
    BY <2>0, CallFields
  <2>2. Free(c) /\ Starts(c, call) /\ MayReceive(p) /\ UNCHANGED <<tables, holders, history>>
    BY <1>5 DEF SetOwner
  <2>3. Receiver(call) = p
    BY <2>1 DEF Receiver
  <2> HIDE DEF call
  <2> QED BY <2>1, <2>2, <2>3, StartsCall
<1> QED BY <1>1, <1>2, <1>3, <1>4, <1>5

LEMMA MarkStep ==
  ASSUME HandoverInv, NEW c \in Calls, Mark(c)
  PROVE  HandoverInv'
<1> USE DEF plans, sights
<1>1. /\ calls' \in [Calls -> CallRecords]
      /\ calls'[c].step = "list" /\ calls'[c].kind = calls[c].kind
      /\ calls'[c].who = calls[c].who /\ calls'[c].heir = calls[c].heir
      /\ calls'[c].req = calls[c].req
      /\ \A d \in Calls \ {c} : calls'[d] = calls[d]
  BY GoesOn DEF HandoverInv, Mark, Steps
<1>2. TypeOK'
  BY <1>1 DEF HandoverInv, TypeOK, Mark, tables, holders, history, CallRecords
<1>3. \A d \in Calls \ {c} : Kept(d)
  BY <1>1 DEF HandoverInv, TypeOK, Mark, Kept
<1>4. CallInv(c)'
  <2>1. Shaped(c)'
    BY <1>1 DEF HandoverInv, CallInv, Shaped, Mark, At
  <2>2. SeesRows(c)'
    BY <1>1 DEF HandoverInv, CallInv, SeesRows, Closing, Mark, At, holders
  <2>3. \A r \in Requests : HasRequest(calls[c].who, r)' => r \in todo'[c]
    BY <1>1 DEF HandoverInv, TypeOK, Mark, HasRequest, tables, holders
  <2>4. ListsWork(c)'
    BY <1>1, <2>3 DEF ListsWork, PastProjects
  <2>5. ReceiverReady(c)'
    BY <1>1 DEF HandoverInv, CallInv, ReceiverReady, Mark, At, Free, Receiver, MayReceive, Active,
                tables
  <2> QED BY <2>1, <2>2, <2>4, <2>5 DEF CallInv
<1>5. \A r \in Requests : LocksRequest(c, r)' => LocksRequest(c, r)
  BY <1>1 DEF LocksRequest, Mark
<1>6. UNCHANGED <<tables, holders, history>>
  BY DEF Mark
<1> QED BY <1>2, <1>3, <1>4, <1>5, <1>6, OwnMove

LEMMA CloseRowsStep ==
  ASSUME HandoverInv, NEW c \in Calls, NEW r \in Requests, CloseRows(c, r)
  PROVE  HandoverInv'
<1> USE DEF plans, sights
<1>1. calls \in [Calls -> CallRecords] /\ calls[c].who \in People /\ calls[c].heir \in People
  BY DEF HandoverInv, TypeOK, CallRecords
<1>2. calls' = [calls EXCEPT ![c] = Call("suspend", "close", calls[c].who, calls[c].heir, r)]
  BY <1>1 DEF CloseRows
<1>3. /\ calls' \in [Calls -> CallRecords]
      /\ calls'[c].step = "close" /\ calls'[c].kind = "suspend"
      /\ calls'[c].who = calls[c].who /\ calls'[c].heir = calls[c].heir /\ calls'[c].req = r
      /\ \A d \in Calls \ {c} : calls'[d] = calls[d]
  BY <1>1, <1>2, CallFields DEF Kinds, Steps
<1>4. /\ seen' \in [Calls -> [Requests -> [Members -> Nat]]]
      /\ seen'[c][r] = openRows[r] /\ \A q \in Requests \ {r} : seen'[c][q] = seen[c][q]
      /\ \A d \in Calls \ {c} : seen'[d] = seen[d]
  BY DEF HandoverInv, TypeOK, CloseRows
<1>5. TypeOK'
  BY <1>3, <1>4 DEF HandoverInv, TypeOK, CloseRows, tables, holders, history, CallRecords
<1>6. \A d \in Calls \ {c} : Kept(d)
  BY <1>3, <1>4 DEF CloseRows, Kept
<1>7. CallInv(c)'
  <2>1. Shaped(c)'
    BY <1>3 DEF HandoverInv, CallInv, Shaped, CloseRows, At
  <2>2. SeesRows(c)'
    BY <1>3, <1>4 DEF HandoverInv, CallInv, SeesRows, Closing, CloseRows, holders
  <2>4. ListsWork(c)'
    BY <1>3 DEF HandoverInv, CallInv, ListsWork, PastRequests, PastProjects, HasRequest, HasProject,
                CloseRows, At, tables, holders, history
  <2>5. ReceiverReady(c)'
    BY <1>3 DEF HandoverInv, CallInv, ReceiverReady, CloseRows, At, Free, Receiver, MayReceive,
                Active, tables
  <2> QED BY <2>1, <2>2, <2>4, <2>5 DEF CallInv
<1>8. \A q \in Requests : LocksRequest(c, q)' => LocksRequest(c, q)
  BY <1>3 DEF LocksRequest, CloseRows
<1>9. UNCHANGED <<tables, holders, history>>
  BY DEF CloseRows
<1> QED BY <1>5, <1>6, <1>7, <1>8, <1>9, OwnMove

LEMMA RowsClosedStep ==
  ASSUME HandoverInv, NEW c \in Calls, RowsClosed(c)
  PROVE  HandoverInv'
<1> USE DEF plans, sights
<1>1. /\ calls' \in [Calls -> CallRecords]
      /\ calls'[c].step = "update" /\ calls'[c].kind = calls[c].kind
      /\ calls'[c].who = calls[c].who /\ calls'[c].heir = calls[c].heir
      /\ calls'[c].req = calls[c].req
      /\ \A d \in Calls \ {c} : calls'[d] = calls[d]
  BY GoesOn DEF HandoverInv, RowsClosed, Steps
<1>2. TypeOK'
  BY <1>1 DEF HandoverInv, TypeOK, RowsClosed, tables, holders, history, CallRecords
<1>3. \A d \in Calls \ {c} : Kept(d)
  BY <1>1 DEF RowsClosed, Kept
<1>4. CallInv(c)'
  <2>1. Shaped(c)'
    BY <1>1 DEF HandoverInv, CallInv, Shaped, RowsClosed, At
  <2>2. SeesRows(c)'
    BY <1>1 DEF HandoverInv, CallInv, SeesRows, Closing, RowsClosed, At, holders
  <2>3. ListsWork(c)'
    BY <1>1 DEF HandoverInv, CallInv, ListsWork, PastRequests, PastProjects, HasRequest, HasProject,
                RowsClosed, At, tables, holders, history
  <2>4. ReceiverReady(c)'
    BY <1>1 DEF HandoverInv, CallInv, ReceiverReady, RowsClosed, At, Free, Receiver, MayReceive,
                Active, tables
  <2> QED BY <2>1, <2>2, <2>3, <2>4 DEF CallInv
<1>5. \A r \in Requests : LocksRequest(c, r)' => LocksRequest(c, r)
  BY <1>1 DEF LocksRequest, RowsClosed
<1>6. UNCHANGED <<tables, holders, history>>
  BY DEF RowsClosed
<1> QED BY <1>2, <1>3, <1>4, <1>5, <1>6, OwnMove

LEMMA MoveRequestStep ==
  ASSUME HandoverInv, NEW c \in Calls, MoveRequest(c)
  PROVE  HandoverInv'
<1> USE DEF plans, sights
<1> DEFINE r == calls[c].req
<1>0. /\ calls \in [Calls -> CallRecords] /\ calls[c].who \in People /\ calls[c].heir \in People
      /\ r \in Requests
  BY DEF HandoverInv, TypeOK, CallRecords, CallInv, Shaped, MoveRequest, At
<1>1. calls' = [calls EXCEPT ![c] = Call("suspend", "list", calls[c].who, calls[c].heir, NoRequest)]
  BY <1>0 DEF MoveRequest
<1>2. /\ calls' \in [Calls -> CallRecords]
      /\ calls'[c].step = "list" /\ calls'[c].kind = "suspend"
      /\ calls'[c].who = calls[c].who /\ calls'[c].heir = calls[c].heir
      /\ calls'[c].req = NoRequest
      /\ \A d \in Calls \ {c} : calls'[d] = calls[d]
  BY <1>0, <1>1, CallFields DEF Kinds, Steps
<1>3. /\ todo' \in [Calls -> SUBSET Requests] /\ moved' \in [Calls -> SUBSET Requests]
      /\ todo'[c] = todo[c] \ {r} /\ moved'[c] = moved[c] \cup {r}
      /\ \A d \in Calls \ {c} : todo'[d] = todo[d] /\ moved'[d] = moved[d]
  BY <1>0 DEF HandoverInv, TypeOK, MoveRequest
<1>4. TypeOK'
  BY <1>2, <1>3 DEF HandoverInv, TypeOK, MoveRequest, tables, holders, history, CallRecords
<1>5. \A d \in Calls \ {c} : Kept(d)
  BY <1>2, <1>3 DEF MoveRequest, Kept
<1>6. CallInv(c)'
  <2>1. Shaped(c)'
    BY <1>2 DEF HandoverInv, CallInv, Shaped, MoveRequest, At
  <2>2. SeesRows(c)'
    BY <1>2, <1>3 DEF HandoverInv, CallInv, SeesRows, Closing, MoveRequest, At, holders
  <2>3. ListsWork(c)'
    BY <1>2, <1>3 DEF HandoverInv, CallInv, ListsWork, PastRequests, PastProjects, HasRequest,
                      HasProject, MoveRequest, At, tables, holders, history
  <2>4. ReceiverReady(c)'
    BY <1>2 DEF HandoverInv, CallInv, ReceiverReady, MoveRequest, At, Free, Receiver, MayReceive,
                Active, tables
  <2> QED BY <2>1, <2>2, <2>3, <2>4 DEF CallInv
<1>7. ASSUME NEW q \in Requests, LocksRequest(c, q)'
      PROVE  LocksRequest(c, q) \/ RequestFree(q, Calls \ {c})
  BY <1>2, <1>3, <1>7 DEF LocksRequest, MoveRequest
<1>8. UNCHANGED <<tables, holders, history>>
  BY DEF MoveRequest
<1> HIDE DEF r
<1> QED BY <1>4, <1>5, <1>6, <1>7, <1>8, OwnMove

LEMMA ListProjectsStep ==
  ASSUME HandoverInv, NEW c \in Calls, ListProjects(c)
  PROVE  HandoverInv'
<1> USE DEF plans, sights
<1>1. /\ calls' \in [Calls -> CallRecords]
      /\ calls'[c].step = "commit" /\ calls'[c].kind = calls[c].kind
      /\ calls'[c].who = calls[c].who /\ calls'[c].heir = calls[c].heir
      /\ calls'[c].req = calls[c].req
      /\ \A d \in Calls \ {c} : calls'[d] = calls[d]
  BY GoesOn DEF HandoverInv, ListProjects, Steps
<1>2. TypeOK'
  BY <1>1 DEF HandoverInv, TypeOK, ListProjects, tables, holders, history, CallRecords
<1>3. \A d \in Calls \ {c} : Kept(d)
  BY <1>1 DEF HandoverInv, TypeOK, ListProjects, Kept
<1>4. CallInv(c)'
  <2>1. Shaped(c)'
    BY <1>1 DEF HandoverInv, CallInv, Shaped, ListProjects, At
  <2>2. SeesRows(c)'
    BY <1>1 DEF HandoverInv, CallInv, SeesRows, Closing, ListProjects, At, holders
  <2>3. \A r \in Requests : HasProject(calls[c].who, r)' => r \in jobs'[c]
    BY <1>1 DEF HandoverInv, TypeOK, ListProjects, HasProject, tables, holders
  <2>4. ListsWork(c)'
    BY <1>1, <2>3 DEF HandoverInv, CallInv, ListsWork, PastRequests, HasRequest, ListProjects, At,
                      tables, holders, history
  <2>5. ReceiverReady(c)'
    BY <1>1 DEF HandoverInv, CallInv, ReceiverReady, ListProjects, At, Free, Receiver, MayReceive,
                Active, tables
  <2> QED BY <2>1, <2>2, <2>4, <2>5 DEF CallInv
<1>5. \A r \in Requests : LocksRequest(c, r)' => LocksRequest(c, r)
  BY <1>1 DEF LocksRequest, ListProjects
<1>6. UNCHANGED <<tables, holders, history>>
  BY DEF ListProjects
<1> QED BY <1>2, <1>3, <1>4, <1>5, <1>6, OwnMove

LEMMA CloseAssignedStep ==
  ASSUME HandoverInv, NEW c \in Calls, CloseAssigned(c)
  PROVE  HandoverInv'
<1> USE DEF plans, sights
<1>0. calls[c].req \in Requests /\ moved[c] = {}
  BY DEF HandoverInv, CallInv, Shaped, CloseAssigned, At
<1>1. /\ calls' \in [Calls -> CallRecords]
      /\ calls'[c].step = "commit" /\ calls'[c].kind = calls[c].kind
      /\ calls'[c].who = calls[c].who /\ calls'[c].heir = calls[c].heir
      /\ calls'[c].req = calls[c].req
      /\ \A d \in Calls \ {c} : calls'[d] = calls[d]
  BY GoesOn DEF HandoverInv, CloseAssigned, Steps
<1>2. /\ seen' \in [Calls -> [Requests -> [Members -> Nat]]]
      /\ seen'[c][calls[c].req] = openRows[calls[c].req]
      /\ \A d \in Calls \ {c} : seen'[d] = seen[d]
  BY <1>0 DEF HandoverInv, TypeOK, CloseAssigned
<1>3. TypeOK'
  BY <1>1, <1>2 DEF HandoverInv, TypeOK, CloseAssigned, tables, holders, history, CallRecords
<1>4. \A d \in Calls \ {c} : Kept(d)
  BY <1>1, <1>2 DEF CloseAssigned, Kept
<1>5. CallInv(c)'
  <2>1. Shaped(c)'
    BY <1>0, <1>1 DEF HandoverInv, CallInv, Shaped, CloseAssigned, At
  <2>2. SeesRows(c)'
    BY <1>0, <1>1, <1>2 DEF SeesRows, Closing, CloseAssigned, At, holders
  <2>3. ListsWork(c)'
    BY <1>1 DEF ListsWork, CloseAssigned, At
  <2>4. ReceiverReady(c)'
    BY <1>1 DEF HandoverInv, CallInv, ReceiverReady, CloseAssigned, At, Free, Receiver, MayReceive,
                Active, tables
  <2> QED BY <2>1, <2>2, <2>3, <2>4 DEF CallInv
<1>6. \A r \in Requests : LocksRequest(c, r)' => LocksRequest(c, r)
  BY <1>1 DEF LocksRequest, CloseAssigned
<1>7. UNCHANGED <<tables, holders, history>>
  BY DEF CloseAssigned
<1> QED BY <1>3, <1>4, <1>5, <1>6, <1>7, OwnMove

LEMMA AbortStep ==
  ASSUME HandoverInv, NEW c \in Calls, Abort(c)
  PROVE  HandoverInv'
<1>1. /\ calls' \in [Calls -> CallRecords] /\ calls'[c] = Idle
      /\ \A d \in Calls \ {c} : calls'[d] = calls[d]
  BY IdleFields DEF HandoverInv, TypeOK, CallRecords, Abort, Forgets
<1>2. /\ todo' \in [Calls -> SUBSET Requests] /\ moved' \in [Calls -> SUBSET Requests]
      /\ jobs' \in [Calls -> SUBSET Requests] /\ outrun' \in [Calls -> SUBSET Requests]
      /\ late' \in [Calls -> BOOLEAN]
      /\ moved'[c] = {}
      /\ \A d \in Calls \ {c} : /\ todo'[d] = todo[d] /\ moved'[d] = moved[d] /\ jobs'[d] = jobs[d]
                                /\ outrun'[d] = outrun[d] /\ late'[d] = late[d]
  BY DEF HandoverInv, TypeOK, Abort, Forgets
<1>3. /\ seen' \in [Calls -> [Requests -> [Members -> Nat]]]
      /\ \A d \in Calls \ {c} : seen'[d] = seen[d]
  BY Bags DEF HandoverInv, TypeOK, Abort
<1>4. TypeOK'
  BY <1>1, <1>2, <1>3 DEF HandoverInv, TypeOK, Abort, tables, holders, history, CallRecords
<1>5. \A d \in Calls \ {c} : Kept(d)
  BY <1>1, <1>2, <1>3 DEF Kept
<1>6. CallInv(c)'
  <2>1. calls'[c].kind = "libre"
    BY <1>1, IdleFields
  <2>2. Shaped(c)' /\ SeesRows(c)'
    BY <1>2, <2>1 DEF Shaped, SeesRows, Closing
  <2>3. ListsWork(c)' /\ ReceiverReady(c)'
    BY <2>1 DEF ListsWork, ReceiverReady, Free
  <2> QED BY <2>2, <2>3 DEF CallInv
<1>7. \A r \in Requests : ~LocksRequest(c, r)'
  BY <1>1, <1>2, IdleFields DEF LocksRequest
<1>8. UNCHANGED <<tables, holders, history>>
  BY DEF Abort
<1> QED BY <1>4, <1>5, <1>6, <1>7, <1>8, OwnMove

-----------------------------------------------------------------------------
(* The steps that touch no call                                            *)

\* The tables may change so long as nobody listed is given more, and nobody is suspended.
LEMMA DeskMove ==
  ASSUME HandoverInv, TypeOK', UNCHANGED <<assignee, openRows, calls, plans, sights, crossed>>,
         \A m \in Members : Active(m) => Active(m)',
         \A d \in Calls, r \in Requests :
           calls[d].kind = "suspend" =>
             /\ calls[d].step \in PastRequests /\ HasRequest(calls[d].who, r)'
                => HasRequest(calls[d].who, r)
             /\ calls[d].step \in PastProjects /\ HasProject(calls[d].who, r)'
                => HasProject(calls[d].who, r),
         OpenWorkIsAttended'
  PROVE  HandoverInv'
<1> USE DEF plans, sights
<1>1. ASSUME NEW d \in Calls PROVE CallInv(d)'
  <2>1. Shaped(d)'
    BY DEF HandoverInv, CallInv, Shaped
  <2>2. SeesRows(d)'
    BY DEF HandoverInv, CallInv, SeesRows, Closing
  <2>3. CallInv(d)
    BY DEF HandoverInv
  <2>4. calls'[d] = calls[d] /\ todo'[d] = todo[d] /\ moved'[d] = moved[d] /\ jobs'[d] = jobs[d]
    OBVIOUS
  <2>5. ASSUME calls[d].kind = "suspend", calls[d].step \in PastRequests,
               NEW r \in Requests, HasRequest(calls[d].who, r)'
        PROVE  r \in todo'[d] \/ r \in moved'[d]
    BY <2>3, <2>4, <2>5 DEF CallInv, ListsWork, HasRequest
  <2>6. ASSUME calls[d].kind = "suspend", calls[d].step \in PastProjects,
               NEW r \in Requests, HasProject(calls[d].who, r)'
        PROVE  r \in jobs'[d]
    BY <2>3, <2>4, <2>6 DEF CallInv, ListsWork, HasProject
  <2>7. ListsWork(d)'
    BY <2>3, <2>4, <2>5, <2>6 DEF CallInv, ListsWork
  <2>8. ReceiverReady(d)'
    BY <2>3 DEF CallInv, ReceiverReady, Free, Receiver, MayReceive
  <2> QED BY <2>1, <2>2, <2>7, <2>8 DEF CallInv
<1>2. LockedOnce'
  BY DEF HandoverInv, LockedOnce, LocksRequest
<1>3. AssignmentsAgree'
  BY DEF HandoverInv, AssignmentsAgree
<1> QED BY <1>1, <1>2, <1>3 DEF HandoverInv

LEMMA AcceptStep ==
  ASSUME HandoverInv, NEW r \in Requests, Accept(r) \/ Close(r)
  PROVE  HandoverInv'
<1> USE DEF tables, holders, plans, sights, history
<1>0. PICK to \in {"ACEPTADA", "RECHAZADA"} : requests' = [requests EXCEPT ![r] = to]
  BY DEF Accept, Close
<1>1. TypeOK' /\ requests[r] = "EN_REVISION" /\ \A q \in Requests \ {r} : requests'[q] = requests[q]
  <2>1. requests \in [Requests -> RequestStates] /\ to \in RequestStates
    BY DEF HandoverInv, TypeOK, RequestStates
  <2>2. requests' \in [Requests -> RequestStates]
    BY <1>0, <2>1
  <2>3. TypeOK'
    BY <2>2 DEF HandoverInv, TypeOK, Accept, Close
  <2>4. requests[r] = "EN_REVISION"
    BY DEF Accept, Close
  <2> QED BY <1>0, <2>1, <2>3, <2>4
<1>2. UNCHANGED <<members, projects, holders, calls, plans, sights, history>>
  BY DEF Accept, Close
<1>3. \A q \in Requests, m \in Members : HasRequest(m, q)' => HasRequest(m, q)
  BY <1>1, <1>2 DEF HasRequest, OpenRequests
<1>4. \A q \in Requests, m \in Members : HasProject(m, q)' => HasProject(m, q)
  BY <1>2 DEF HasProject
<1>5. OpenWorkIsAttended'
  BY <1>1, <1>2 DEF HandoverInv, OpenWorkIsAttended, MayReceive, Active
<1>6. \A d \in Calls : calls[d].kind = "suspend" => calls[d].who \in Members
  BY DEF HandoverInv, CallInv, Shaped
<1>7. \A m \in Members : Active(m) => Active(m)'
  BY <1>2 DEF Active
<1> QED BY <1>1, <1>2, <1>3, <1>4, <1>5, <1>6, <1>7, DeskMove

LEMMA ReopenStep ==
  ASSUME HandoverInv, NEW r \in Requests, Reopen(r)
  PROVE  HandoverInv'
<1> USE DEF tables, holders, plans, sights, history
<1>1. /\ UNCHANGED <<members, projects, holders, calls, plans, sights, crossed>>
      /\ excused' = Reopened(Ask(r), assignee[r], PastRequests)
      /\ requests' = [requests EXCEPT ![r] = "EN_REVISION"]
  BY DEF Reopen
<1>2. excused \subseteq excused' /\ excused' \subseteq excused \cup {Ask(r)}
  BY <1>1 DEF Reopened
<1>3. TypeOK' /\ \A q \in Requests \ {r} : requests'[q] = requests[q]
  BY <1>1, <1>2, Pieces DEF HandoverInv, TypeOK, RequestStates
<1>4. ~MayReceive(assignee[r]) \/ Listed(assignee[r], PastRequests, Calls) => Ask(r) \in excused'
  BY <1>1 DEF Reopened
<1>5. ASSUME NEW d \in Calls, calls[d].kind = "suspend", calls[d].step \in PastRequests,
             NEW q \in Requests, HasRequest(calls[d].who, q)'
      PROVE  HasRequest(calls[d].who, q)
  <2>1. CASE q = r
    <3>1. assignee[r] = calls[d].who /\ Ask(r) \notin excused'
      BY <1>1, <1>5, <2>1 DEF HasRequest
    <3> QED BY <1>4, <1>5, <3>1 DEF Listed
  <2>2. CASE q # r
    BY <1>1, <1>2, <1>3, <1>5, <2>2 DEF HasRequest
  <2> QED BY <2>1, <2>2
<1>6. \A q \in Requests, m \in Members : HasProject(m, q)' => HasProject(m, q)
  BY <1>1, <1>2 DEF HasProject
<1>7. OpenWorkIsAttended'
  BY <1>1, <1>2, <1>3, <1>4 DEF HandoverInv, OpenWorkIsAttended, MayReceive, Active
<1>8. \A d \in Calls : calls[d].kind = "suspend" => calls[d].who \in Members
  BY DEF HandoverInv, CallInv, Shaped
<1>9. \A m \in Members : Active(m) => Active(m)'
  BY <1>1 DEF Active
<1> QED BY <1>1, <1>3, <1>5, <1>6, <1>7, <1>8, <1>9, DeskMove

LEMMA HandoffStep ==
  ASSUME HandoverInv, NEW r \in Requests, NEW status \in HandoffStates, SetHandoff(r, status)
  PROVE  HandoverInv'
<1> USE DEF tables, holders, plans, sights, history
<1>1. /\ UNCHANGED <<members, requests, holders, calls, plans, sights, crossed>>
      /\ excused' = IF status = "EN_TRANSICION"
                    THEN Reopened(Job(r), owner[r], PastProjects) ELSE excused
      /\ projects' = [projects EXCEPT ![r] = status]
      /\ status \in {"EN_TRANSICION", "COMPLETADO"}
  BY DEF SetHandoff
<1>2. excused \subseteq excused' /\ excused' \subseteq excused \cup {Job(r)}
  BY <1>1 DEF Reopened
<1>3. TypeOK' /\ projects'[r] = status /\ \A q \in Requests \ {r} : projects'[q] = projects[q]
  BY <1>1, <1>2, Pieces DEF HandoverInv, TypeOK
<1>4. status = "EN_TRANSICION" /\ (~MayReceive(owner[r]) \/ Listed(owner[r], PastProjects, Calls))
      => Job(r) \in excused'
  BY <1>1 DEF Reopened
<1>5. ASSUME NEW d \in Calls, calls[d].kind = "suspend", calls[d].step \in PastProjects,
             NEW q \in Requests, HasProject(calls[d].who, q)'
      PROVE  HasProject(calls[d].who, q)
  <2>1. CASE q = r
    <3>1. owner[r] = calls[d].who /\ Job(r) \notin excused' /\ status = "EN_TRANSICION"
      BY <1>1, <1>3, <1>5, <2>1 DEF HasProject
    <3> QED BY <1>4, <1>5, <3>1 DEF Listed
  <2>2. CASE q # r
    BY <1>1, <1>2, <1>3, <1>5, <2>2 DEF HasProject
  <2> QED BY <2>1, <2>2
<1>6. \A q \in Requests, m \in Members : HasRequest(m, q)' => HasRequest(m, q)
  BY <1>1, <1>2 DEF HasRequest
<1>7. OpenWorkIsAttended'
  BY <1>1, <1>2, <1>3, <1>4 DEF HandoverInv, OpenWorkIsAttended, MayReceive, Active
<1>8. \A d \in Calls : calls[d].kind = "suspend" => calls[d].who \in Members
  BY DEF HandoverInv, CallInv, Shaped
<1>9. \A m \in Members : Active(m) => Active(m)'
  BY <1>1 DEF Active
<1> QED BY <1>1, <1>3, <1>5, <1>6, <1>7, <1>8, <1>9, DeskMove

LEMMA ReactivateStep ==
  ASSUME HandoverInv, NEW m \in Members, Reactivate(m)
  PROVE  HandoverInv'
<1> USE DEF tables, holders, plans, sights, history
<1>1. /\ UNCHANGED <<requests, projects, holders, calls, plans, sights, crossed>>
      /\ excused' = {w \in excused : Holder(w) # m}
      /\ members' = [members EXCEPT ![m] = "ACTIVE"]
      /\ ~Listed(m, PastRequests, Calls)
  BY DEF Reactivate
<1>2. TypeOK' /\ members'[m] = "ACTIVE" /\ \A q \in Members \ {m} : members'[q] = members[q]
  BY <1>1 DEF HandoverInv, TypeOK
<1>3. \A q \in Members : Active(q) => Active(q)'
  BY <1>2 DEF Active
<1>4. \A r \in Requests : /\ Ask(r) \notin excused' => Ask(r) \notin excused \/ assignee[r] = m
                          /\ Job(r) \notin excused' => Job(r) \notin excused \/ owner[r] = m
  BY <1>1, Pieces
<1>5. \A d \in Calls : calls[d].kind = "suspend" /\ calls[d].step \in PastRequests
                       => calls[d].who # m
  BY <1>1 DEF Listed
<1>6. \A d \in Calls : calls[d].kind = "suspend" /\ calls[d].step \in PastProjects
                       => calls[d].who # m
  BY <1>5 DEF PastRequests, PastProjects
<1>7. \A r \in Requests, q \in Members :
        q # m => /\ HasRequest(q, r)' => HasRequest(q, r)
                 /\ HasProject(q, r)' => HasProject(q, r)
  BY <1>1, <1>4 DEF HasRequest, HasProject
<1>8. OpenWorkIsAttended'
  BY <1>1, <1>2, <1>4 DEF HandoverInv, OpenWorkIsAttended, MayReceive, Active
<1>9. \A d \in Calls : calls[d].kind = "suspend" => calls[d].who \in Members
  BY DEF HandoverInv, CallInv, Shaped
<1> QED BY <1>1, <1>2, <1>3, <1>5, <1>6, <1>7, <1>8, <1>9, DeskMove

-----------------------------------------------------------------------------
(* The commits                                                             *)

\* What a commit leaves in the entries of the calls.
LeavesOthers(c, rs, p) ==
  \A d \in Calls \ {c} :
    /\ calls'[d] = calls[d] /\ todo'[d] = todo[d] /\ moved'[d] = moved[d]
    /\ jobs'[d] = jobs[d]
    /\ outrun[d] \subseteq outrun'[d]
    /\ \A r \in rs : calls[d].kind = "suspend" /\ calls[d].req = r => r \in outrun'[d]
    /\ \A r \in Requests \ rs : seen'[d][r] = seen[d][r]
    /\ late[d] => late'[d]
    /\ p # Nobody /\ ~Free(d) /\ Receiver(calls[d]) = p => late'[d]

LEMMA CommitTypes ==
  ASSUME TypeOK, NEW c \in Calls, NEW rs \in SUBSET Requests,
         NEW closed \in [Requests -> [Members -> Nat]], NEW p, Commits(c, rs, closed, p)
  PROVE  /\ calls' \in [Calls -> CallRecords] /\ calls'[c] = Idle /\ moved'[c] = {}
         /\ todo' \in [Calls -> SUBSET Requests] /\ moved' \in [Calls -> SUBSET Requests]
         /\ jobs' \in [Calls -> SUBSET Requests] /\ outrun' \in [Calls -> SUBSET Requests]
         /\ late' \in [Calls -> BOOLEAN]
         /\ seen' \in [Calls -> [Requests -> [Members -> Nat]]]
         /\ LeavesOthers(c, rs, p)
<1>1. /\ calls' \in [Calls -> CallRecords] /\ calls'[c] = Idle
      /\ \A d \in Calls \ {c} : calls'[d] = calls[d]
  BY IdleFields DEF TypeOK, CallRecords, Commits, Forgets
<1>2. /\ todo' \in [Calls -> SUBSET Requests] /\ moved' \in [Calls -> SUBSET Requests]
      /\ jobs' \in [Calls -> SUBSET Requests] /\ moved'[c] = {}
      /\ \A d \in Calls \ {c} : todo'[d] = todo[d] /\ moved'[d] = moved[d] /\ jobs'[d] = jobs[d]
  BY DEF TypeOK, Commits, Forgets
<1>3. /\ outrun' \in [Calls -> SUBSET Requests]
      /\ \A d \in Calls \ {c} :
           /\ outrun[d] \subseteq outrun'[d]
           /\ \A r \in rs : calls[d].kind = "suspend" /\ calls[d].req = r => r \in outrun'[d]
  BY DEF TypeOK, Commits
<1>4. /\ late' \in [Calls -> BOOLEAN]
      /\ \A d \in Calls \ {c} :
           /\ late[d] => late'[d]
           /\ p # Nobody /\ ~Free(d) /\ Receiver(calls[d]) = p => late'[d]
  <2>1. /\ late' = [d \in Calls |-> d # c /\ (late[d] \/ (p # Nobody /\ ~Free(d)
                                                        /\ Receiver(calls[d]) = p))]
        /\ late \in [Calls -> BOOLEAN]
    BY DEF TypeOK, Commits
  <2>2. \A d \in Calls : late'[d] \in BOOLEAN
    BY <2>1
  <2> QED BY <2>1, <2>2
<1>5. /\ seen' \in [Calls -> [Requests -> [Members -> Nat]]]
      /\ \A d \in Calls \ {c} : \A r \in Requests \ rs : seen'[d][r] = seen[d][r]
  <2>1. seen' = [d \in Calls |->
                  [r \in Requests |-> IF d = c THEN NoRows
                                      ELSE IF r \in rs THEN Minus(seen[d][r], closed[r])
                                      ELSE seen[d][r]]]
    BY DEF Commits
  <2>2. \A d \in Calls, r \in Requests : /\ seen[d][r] \in [Members -> Nat]
                                       /\ Minus(seen[d][r], closed[r]) \in [Members -> Nat]
    <3>1. \A d \in Calls, r \in Requests : seen[d][r] \in [Members -> Nat]
      BY DEF TypeOK
    <3>2. \A r \in Requests : closed[r] \in [Members -> Nat]
      OBVIOUS
    <3> QED BY <3>1, <3>2, Bags
  <2> QED BY <2>1, <2>2, Bags
<1>6. LeavesOthers(c, rs, p)
  BY <1>1, <1>2, <1>3, <1>4, <1>5 DEF LeavesOthers
<1> QED BY <1>1, <1>2, <1>3, <1>4, <1>5, <1>6

\* Nobody another suspension listed has more work than before.
NothingGiven(c) ==
  \A d \in Calls \ {c}, r \in Requests :
    calls[d].kind = "suspend" =>
      /\ calls[d].step \in PastRequests /\ HasRequest(calls[d].who, r)'
         => HasRequest(calls[d].who, r)
      /\ calls[d].step \in PastProjects /\ HasProject(calls[d].who, r)'
         => HasProject(calls[d].who, r)

\* A commit keeps what is known of the others, if it wrote only the rows of requests nobody
\* else holds, gave nothing to a person another suspension listed, and what it says of who is
\* suspended is true.
LEMMA Committed ==
  ASSUME HandoverInv, NEW c \in Calls, NEW rs \in SUBSET Requests,
         NEW closed \in [Requests -> [Members -> Nat]], NEW p, Commits(c, rs, closed, p),
         TypeOK',
         \A r \in Requests \ rs : openRows'[r] = openRows[r],
         \A r \in rs : RequestFree(r, Calls \ {c}),
         NothingGiven(c),
         \A m \in Members : Active(m) => Active(m)' \/ m = p,
         OpenWorkIsAttended', AssignmentsAgree'
  PROVE  HandoverInv'
<1>0. TypeOK
  BY DEF HandoverInv
<1>1. /\ calls'[c] = Idle /\ moved'[c] = {}
      /\ LeavesOthers(c, rs, p)
  BY <1>0, CommitTypes
<1>2. CallInv(c)'
  <2>1. calls'[c].kind = "libre"
    BY <1>1, IdleFields
  <2>2. Shaped(c)' /\ SeesRows(c)'
    BY <1>1, <2>1 DEF Shaped, SeesRows, Closing
  <2>3. ListsWork(c)' /\ ReceiverReady(c)'
    BY <2>1 DEF ListsWork, ReceiverReady, Free
  <2> QED BY <2>2, <2>3 DEF CallInv
<1>3. ASSUME NEW d \in Calls \ {c} PROVE CallInv(d)'
  <2>0. /\ CallInv(d)
        /\ calls'[d] = calls[d] /\ todo'[d] = todo[d] /\ moved'[d] = moved[d]
        /\ jobs'[d] = jobs[d]
    BY <1>1 DEF HandoverInv, LeavesOthers
  <2>1. Shaped(d)'
    BY <2>0 DEF CallInv, Shaped
  <2>2. ASSUME NEW r \in Requests, Closing(d, r)' PROVE seen'[d][r] = openRows'[r]
    <3>1. Closing(d, r)
      BY <1>1, <2>0, <2>2 DEF Closing, LeavesOthers
    <3>2. CASE r \in rs
      <4>1. ~LocksRequest(d, r)
        BY <3>2 DEF RequestFree
      <4>2. calls[d].kind = "suspend" /\ calls[d].req = r /\ r \notin outrun'[d]
        BY <2>0, <2>2, <4>1 DEF Closing, LocksRequest
      <4> QED BY <1>1, <3>2, <4>2 DEF LeavesOthers
    <3>3. CASE r \notin rs
      BY <1>1, <2>0, <3>1, <3>3 DEF CallInv, SeesRows, LeavesOthers
    <3> QED BY <3>2, <3>3
  <2>3. SeesRows(d)'
    BY <2>2 DEF SeesRows
  <2>4. ASSUME calls[d].kind = "suspend", calls[d].step \in PastRequests,
               NEW r \in Requests, HasRequest(calls[d].who, r)'
        PROVE  r \in todo'[d] \/ r \in moved'[d]
    <3>1. HasRequest(calls[d].who, r)
      BY <2>0, <2>4 DEF NothingGiven
    <3> QED BY <2>0, <2>4, <3>1 DEF CallInv, ListsWork
  <2>5. ASSUME calls[d].kind = "suspend", calls[d].step \in PastProjects,
               NEW r \in Requests, HasProject(calls[d].who, r)'
        PROVE  r \in jobs'[d]
    <3>1. HasProject(calls[d].who, r)
      BY <2>0, <2>5 DEF NothingGiven
    <3> QED BY <2>0, <2>5, <3>1 DEF CallInv, ListsWork
  <2>6. ListsWork(d)'
    BY <2>0, <2>4, <2>5 DEF CallInv, ListsWork
  <2>7. ReceiverReady(d)'
    BY <1>1, <2>0, HandoverAssumption DEF CallInv, ReceiverReady, Free, MayReceive, Receiver,
                                                   LeavesOthers
  <2> QED BY <2>1, <2>3, <2>6, <2>7 DEF CallInv
<1>4. LockedOnce'
  <2>1. \A r \in Requests : ~LocksRequest(c, r)'
    BY <1>1, IdleFields DEF LocksRequest
  <2>2. \A d \in Calls \ {c}, r \in Requests : LocksRequest(d, r)' => LocksRequest(d, r)
    BY <1>1 DEF LocksRequest, LeavesOthers
  <2> QED BY <2>1, <2>2 DEF HandoverInv, LockedOnce
<1> QED BY <1>2, <1>3, <1>4 DEF HandoverInv

\* Where work was given: excused if the person met their suspension, and only then.
LEMMA GivenFacts ==
  ASSUME NEW work \in Works, NEW meets, TypeOK
  PROVE  /\ Given({work}, meets) \subseteq Works
         /\ meets => work \in Given({work}, meets)
         /\ \A w : w # work => (w \in Given({work}, meets) <=> w \in excused)
BY DEF Given, TypeOK

\* The parts of a commit that types follow from.
LEMMA CommitKeepsTypes ==
  ASSUME TypeOK, NEW c \in Calls, NEW rs \in SUBSET Requests,
         NEW closed \in [Requests -> [Members -> Nat]], NEW p, Commits(c, rs, closed, p),
         members' \in [Members -> {"ACTIVE", "SUSPENDED"}],
         requests' \in [Requests -> RequestStates],
         projects' \in [Requests -> HandoffStates],
         assignee' \in [Requests -> People], owner' \in [Requests -> People],
         openRows' \in [Requests -> [Members -> Nat]],
         excused' \subseteq Works, crossed' \subseteq Requests
  PROVE  TypeOK'
<1>1. /\ calls' \in [Calls -> CallRecords]
      /\ todo' \in [Calls -> SUBSET Requests] /\ moved' \in [Calls -> SUBSET Requests]
      /\ jobs' \in [Calls -> SUBSET Requests] /\ outrun' \in [Calls -> SUBSET Requests]
      /\ late' \in [Calls -> BOOLEAN]
      /\ seen' \in [Calls -> [Requests -> [Members -> Nat]]]
  BY CommitTypes
<1> QED BY <1>1 DEF TypeOK, CallRecords

\* Whoever gave a request to p while a suspension of p had listed their requests met it.
LEMMA MeetsListed ==
  ASSUME NEW c \in Calls, NEW d \in Calls \ {c}, NEW steps, calls[d].kind = "suspend",
         calls[d].step \in steps, calls[d].who = Receiver(calls[c])
  PROVE  Meets(c, steps)
BY DEF Meets, Listed

LEMMA FinishAssignStep ==
  ASSUME HandoverInv, NEW c \in Calls, FinishAssign(c)
  PROVE  HandoverInv'
<1> DEFINE r == calls[c].req
           m == calls[c].who
<1>1. /\ TypeOK /\ CallInv(c) /\ At(c, "assign", "commit")
      /\ r \in Requests /\ m \in Members /\ Receiver(calls[c]) = m
      /\ m # Nobody /\ m \in People
  BY HandoverAssumption DEF HandoverInv, CallInv, Shaped, FinishAssign, At, Receiver, People
<1>2. /\ openRows' = [openRows EXCEPT ![r] = Plus(Minus(openRows[r], seen[c][r]), m)]
      /\ assignee' = [assignee EXCEPT ![r] = m]
      /\ excused' = Given({Ask(r)}, Meets(c, PastRequests))
      /\ crossed' = crossed \ {r}
      /\ Commits(c, {r}, seen[c], Nobody)
      /\ UNCHANGED <<members, requests, projects, owner>>
  BY DEF FinishAssign, tables, TypeOK
<1>3. openRows[r] \in [Members -> Nat] /\ seen[c] \in [Requests -> [Members -> Nat]]
      /\ seen[c][r] = openRows[r]
  BY <1>1 DEF TypeOK, CallInv, SeesRows, Closing, At
<1> HIDE DEF r, m
<1>4. openRows'[r] = Plus(NoRows, m) /\ openRows'[r][m] > 0 /\ openRows'[r] \in [Members -> Nat]
  BY <1>1, <1>2, <1>3, Bags DEF TypeOK
<1>5. /\ excused' \subseteq Works
      /\ Meets(c, PastRequests) => Ask(r) \in excused'
      /\ \A w : w # Ask(r) => (w \in excused' <=> w \in excused)
  BY <1>1, <1>2, GivenFacts, Pieces
<1>6. TypeOK'
  <2>1. /\ members' \in [Members -> {"ACTIVE", "SUSPENDED"}]
        /\ requests' \in [Requests -> RequestStates] /\ projects' \in [Requests -> HandoffStates]
        /\ assignee' \in [Requests -> People] /\ owner' \in [Requests -> People]
        /\ crossed' \subseteq Requests
    BY <1>1, <1>2 DEF TypeOK
  <2>2. openRows' \in [Requests -> [Members -> Nat]]
    BY <1>1, <1>2, <1>3, Bags DEF TypeOK
  <2> QED BY <1>1, <1>2, <1>3, <1>5, <2>1, <2>2, CommitKeepsTypes
<1>7. \A q \in Requests \ {r} : openRows'[q] = openRows[q] /\ assignee'[q] = assignee[q]
  BY <1>1, <1>2 DEF TypeOK
<1>8. assignee'[r] = m
  BY <1>1, <1>2 DEF TypeOK
<1>9. RequestFree(r, Calls \ {c})
  BY <1>1 DEF HandoverInv, LockedOnce, LocksRequest, RequestFree, At, r
<1>10. NothingGiven(c)
  <2> SUFFICES ASSUME NEW d \in Calls \ {c}, NEW q \in Requests, calls[d].kind = "suspend"
               PROVE  /\ calls[d].step \in PastRequests /\ HasRequest(calls[d].who, q)'
                         => HasRequest(calls[d].who, q)
                      /\ calls[d].step \in PastProjects /\ HasProject(calls[d].who, q)'
                         => HasProject(calls[d].who, q)
    BY DEF NothingGiven
  <2>1. d \in Calls /\ calls'[d] = calls[d]
    BY <1>1, <1>2 DEF Commits, Forgets, TypeOK
  <2>2. ASSUME calls[d].step \in PastRequests, HasRequest(calls[d].who, q)'
        PROVE  HasRequest(calls[d].who, q)
    <3>1. CASE q = r
      <4>1. calls[d].who = m /\ Ask(r) \notin excused'
        BY <1>8, <2>1, <2>2, <3>1 DEF HasRequest
      <4> QED BY <1>1, <1>5, <2>2, <4>1, MeetsListed
    <3>2. CASE q # r
      BY <1>2, <1>5, <1>7, <2>1, <2>2, <3>2, Pieces, <1>1 DEF HasRequest
    <3> QED BY <3>1, <3>2
  <2>3. HasProject(calls[d].who, q)' => HasProject(calls[d].who, q)
    BY <1>1, <1>2, <1>5, <2>1, Pieces DEF HasProject
  <2> QED BY <2>2, <2>3
<1>11. OpenWorkIsAttended'
  <2>1. Ask(r) \notin excused' => MayReceive(m)
    BY <1>1, <1>5 DEF CallInv, ReceiverReady, Meets, Free, At
  <2>2. \A q \in Requests : /\ q # r => (Ask(q) \in excused' <=> Ask(q) \in excused)
                            /\ Job(q) \in excused' <=> Job(q) \in excused
    BY <1>1, <1>5, Pieces
  <2>3. \A q \in People : MayReceive(q)' <=> MayReceive(q)
    BY <1>2 DEF MayReceive, Active
  <2> QED BY <1>1, <1>2, <1>7, <1>8, <2>1, <2>2, <2>3
          DEF HandoverInv, TypeOK, OpenWorkIsAttended
<1>12. AssignmentsAgree'
  BY <1>1, <1>2, <1>4, <1>7, <1>8 DEF HandoverInv, AssignmentsAgree
<1>13. \A q \in Members : Active(q) => Active(q)'
  BY <1>2 DEF Active
<1>14. /\ {r} \in SUBSET Requests /\ \A q \in {r} : RequestFree(q, Calls \ {c})
       /\ \A q \in Requests \ {r} : openRows'[q] = openRows[q]
       /\ seen[c] \in [Requests -> [Members -> Nat]] /\ Commits(c, {r}, seen[c], Nobody)
  BY <1>1, <1>2, <1>3, <1>7, <1>9
<1> QED BY <1>6, <1>10, <1>11, <1>12, <1>13, <1>14, Committed

LEMMA FinishTakeStep ==
  ASSUME HandoverInv, NEW c \in Calls, FinishTake(c)
  PROVE  HandoverInv'
<1> DEFINE r == calls[c].req
           m == calls[c].who
           none == [q \in Requests |-> NoRows]
<1>1. /\ TypeOK /\ CallInv(c) /\ At(c, "take", "lock")
      /\ r \in Requests /\ m \in Members /\ Receiver(calls[c]) = m
      /\ m # Nobody /\ m \in People /\ assignee[r] = Nobody
  BY HandoverAssumption DEF HandoverInv, CallInv, Shaped, FinishTake, At, Receiver, People, Untaken
<1>2. /\ openRows' = [openRows EXCEPT ![r] = Plus(openRows[r], m)]
      /\ assignee' = [assignee EXCEPT ![r] = m]
      /\ excused' = Given({Ask(r)}, Meets(c, PastRequests))
      /\ Commits(c, {r}, none, Nobody)
      /\ UNCHANGED <<members, requests, projects, owner, crossed>>
      /\ RequestFree(r, Calls \ {c})
  BY DEF FinishTake, tables, TypeOK, RequestFree
<1>3. openRows[r] \in [Members -> Nat] /\ none \in [Requests -> [Members -> Nat]]
  BY <1>1, Bags DEF TypeOK
<1> HIDE DEF r, m, none
<1>4. r \notin crossed => openRows[r] = NoRows
  BY <1>1, Bags DEF HandoverInv, AssignmentsAgree
<1>5. /\ openRows'[r][m] > 0 /\ openRows'[r] \in [Members -> Nat]
      /\ r \notin crossed => openRows'[r] = Plus(NoRows, m)
  BY <1>1, <1>2, <1>3, <1>4, Bags DEF TypeOK
<1>6. /\ excused' \subseteq Works
      /\ Meets(c, PastRequests) => Ask(r) \in excused'
      /\ \A w : w # Ask(r) => (w \in excused' <=> w \in excused)
  BY <1>1, <1>2, GivenFacts, Pieces
<1>7. TypeOK'
  <2>1. /\ members' \in [Members -> {"ACTIVE", "SUSPENDED"}]
        /\ requests' \in [Requests -> RequestStates] /\ projects' \in [Requests -> HandoffStates]
        /\ assignee' \in [Requests -> People] /\ owner' \in [Requests -> People]
        /\ crossed' \subseteq Requests
    BY <1>1, <1>2 DEF TypeOK
  <2>2. openRows' \in [Requests -> [Members -> Nat]]
    BY <1>1, <1>2, <1>3, Bags DEF TypeOK
  <2>3. Commits(c, {r}, none, Nobody) /\ {r} \in SUBSET Requests /\ TypeOK
    BY <1>1, <1>2
  <2>4. excused' \subseteq Works
    BY <1>6
  <2> QED BY <1>3, <2>1, <2>2, <2>3, <2>4, CommitKeepsTypes
<1>8. \A q \in Requests \ {r} : openRows'[q] = openRows[q] /\ assignee'[q] = assignee[q]
  BY <1>1, <1>2 DEF TypeOK
<1>9. assignee'[r] = m
  BY <1>1, <1>2 DEF TypeOK
<1>10. NothingGiven(c)
  <2> SUFFICES ASSUME NEW d \in Calls \ {c}, NEW q \in Requests, calls[d].kind = "suspend"
               PROVE  /\ calls[d].step \in PastRequests /\ HasRequest(calls[d].who, q)'
                         => HasRequest(calls[d].who, q)
                      /\ calls[d].step \in PastProjects /\ HasProject(calls[d].who, q)'
                         => HasProject(calls[d].who, q)
    BY DEF NothingGiven
  <2>1. d \in Calls /\ calls'[d] = calls[d]
    BY <1>1, <1>2 DEF Commits, Forgets, TypeOK
  <2>2. ASSUME calls[d].step \in PastRequests, HasRequest(calls[d].who, q)'
        PROVE  HasRequest(calls[d].who, q)
    <3>1. CASE q = r
      <4>1. calls[d].who = m /\ Ask(r) \notin excused'
        BY <1>9, <2>1, <2>2, <3>1 DEF HasRequest
      <4> QED BY <1>1, <1>6, <2>2, <4>1, MeetsListed
    <3>2. CASE q # r
      BY <1>1, <1>2, <1>6, <1>8, <2>1, <2>2, <3>2, Pieces DEF HasRequest
    <3> QED BY <3>1, <3>2
  <2>3. HasProject(calls[d].who, q)' => HasProject(calls[d].who, q)
    BY <1>1, <1>2, <1>6, <2>1, Pieces DEF HasProject
  <2> QED BY <2>2, <2>3
<1>11. OpenWorkIsAttended'
  <2>1. Ask(r) \notin excused' => MayReceive(m)
    BY <1>1, <1>6 DEF CallInv, ReceiverReady, Meets, Free, At
  <2>2. \A q \in Requests : /\ q # r => (Ask(q) \in excused' <=> Ask(q) \in excused)
                            /\ Job(q) \in excused' <=> Job(q) \in excused
    BY <1>1, <1>6, Pieces
  <2>3. \A q \in People : MayReceive(q)' <=> MayReceive(q)
    BY <1>2 DEF MayReceive, Active
  <2> QED BY <1>1, <1>2, <1>8, <1>9, <2>1, <2>2, <2>3
          DEF HandoverInv, TypeOK, OpenWorkIsAttended
<1>12. AssignmentsAgree'
  BY <1>1, <1>2, <1>5, <1>8, <1>9 DEF HandoverInv, AssignmentsAgree
<1>13. \A q \in Members : Active(q) => Active(q)'
  BY <1>2 DEF Active
<1>14. /\ {r} \in SUBSET Requests /\ \A q \in {r} : RequestFree(q, Calls \ {c})
       /\ \A q \in Requests \ {r} : openRows'[q] = openRows[q]
  BY <1>1, <1>2, <1>8
<1> QED BY <1>2, <1>3, <1>7, <1>10, <1>11, <1>12, <1>13, <1>14, Committed

LEMMA FinishConvertStep ==
  ASSUME HandoverInv, NEW c \in Calls, FinishConvert(c)
  PROVE  HandoverInv'
<1> DEFINE r == calls[c].req
           p == calls[c].who
           none == [q \in Requests |-> NoRows]
<1>1. /\ TypeOK /\ CallInv(c) /\ At(c, "convert", "lock")
      /\ r \in Requests /\ p \in People /\ Receiver(calls[c]) = p
  BY DEF HandoverInv, TypeOK, CallInv, Shaped, FinishConvert, At, Receiver
<1>2. /\ projects' = [projects EXCEPT ![r] = "EN_TRANSICION"]
      /\ owner' = [owner EXCEPT ![r] = p]
      /\ requests' = [requests EXCEPT ![r] = "CONVERTIDA_EN_PROYECTO"]
      /\ excused' = Given({Job(r)}, Meets(c, PastProjects))
      /\ Commits(c, {}, none, Nobody)
      /\ UNCHANGED <<members, assignee, openRows, crossed>>
  BY DEF FinishConvert
<1>3. none \in [Requests -> [Members -> Nat]]
  BY Bags
<1> HIDE DEF r, p, none
<1>4. /\ excused' \subseteq Works
      /\ Meets(c, PastProjects) => Job(r) \in excused'
      /\ \A w : w # Job(r) => (w \in excused' <=> w \in excused)
  BY <1>1, <1>2, GivenFacts, Pieces
<1>5. TypeOK'
  <2>1. /\ members' \in [Members -> {"ACTIVE", "SUSPENDED"}]
        /\ requests' \in [Requests -> RequestStates] /\ projects' \in [Requests -> HandoffStates]
        /\ assignee' \in [Requests -> People] /\ owner' \in [Requests -> People]
        /\ openRows' \in [Requests -> [Members -> Nat]] /\ crossed' \subseteq Requests
    BY <1>1, <1>2 DEF TypeOK, RequestStates, HandoffStates
  <2> QED BY <1>1, <1>2, <1>3, <1>4, <2>1, CommitKeepsTypes
<1>6. /\ owner'[r] = p /\ requests'[r] = "CONVERTIDA_EN_PROYECTO"
      /\ \A q \in Requests \ {r} : /\ owner'[q] = owner[q] /\ projects'[q] = projects[q]
                                   /\ requests'[q] = requests[q]
  BY <1>1, <1>2 DEF TypeOK
<1>7. \A q \in Requests : /\ q # r => (Job(q) \in excused' <=> Job(q) \in excused)
                          /\ Ask(q) \in excused' <=> Ask(q) \in excused
  BY <1>1, <1>4, Pieces
<1>8. NothingGiven(c)
  <2> SUFFICES ASSUME NEW d \in Calls \ {c}, NEW q \in Requests, calls[d].kind = "suspend"
               PROVE  /\ calls[d].step \in PastRequests /\ HasRequest(calls[d].who, q)'
                         => HasRequest(calls[d].who, q)
                      /\ calls[d].step \in PastProjects /\ HasProject(calls[d].who, q)'
                         => HasProject(calls[d].who, q)
    BY DEF NothingGiven
  <2>1. d \in Calls /\ calls'[d] = calls[d]
    BY <1>1, <1>2 DEF Commits, Forgets, TypeOK
  <2>2. HasRequest(calls[d].who, q)' => HasRequest(calls[d].who, q)
    BY <1>1, <1>2, <1>6, <1>7, <2>1 DEF HasRequest, OpenRequests
  <2>3. ASSUME calls[d].step \in PastProjects, HasProject(calls[d].who, q)'
        PROVE  HasProject(calls[d].who, q)
    <3>1. CASE q = r
      <4>1. calls[d].who = p /\ Job(r) \notin excused'
        BY <1>6, <2>1, <2>3, <3>1 DEF HasProject
      <4> QED BY <1>1, <1>4, <2>3, <4>1, MeetsListed
    <3>2. CASE q # r
      BY <1>6, <1>7, <2>1, <2>3, <3>2 DEF HasProject
    <3> QED BY <3>1, <3>2
  <2> QED BY <2>2, <2>3
<1>9. OpenWorkIsAttended'
  <2>1. Job(r) \notin excused' => MayReceive(p)
    BY <1>1, <1>4 DEF CallInv, ReceiverReady, Meets, Free, At
  <2>2. \A q \in People : MayReceive(q)' <=> MayReceive(q)
    BY <1>2 DEF MayReceive, Active
  <2> QED BY <1>1, <1>2, <1>6, <1>7, <2>1, <2>2 DEF HandoverInv, TypeOK, OpenWorkIsAttended
<1>10. AssignmentsAgree'
  BY <1>2 DEF HandoverInv, AssignmentsAgree
<1>11. \A q \in Members : Active(q) => Active(q)'
  BY <1>2 DEF Active
<1>12. /\ {} \in SUBSET Requests /\ \A q \in {} : RequestFree(q, Calls \ {c})
       /\ \A q \in Requests \ {} : openRows'[q] = openRows[q]
  BY <1>2
<1> QED BY <1>2, <1>3, <1>5, <1>8, <1>9, <1>10, <1>11, <1>12, Committed

LEMMA FinishOwnerStep ==
  ASSUME HandoverInv, NEW c \in Calls, FinishOwner(c)
  PROVE  HandoverInv'
<1> DEFINE r == calls[c].req
           p == calls[c].who
           none == [q \in Requests |-> NoRows]
<1>1. /\ TypeOK /\ CallInv(c) /\ At(c, "owner", "commit")
      /\ r \in Requests /\ p \in People /\ Receiver(calls[c]) = p
  BY DEF HandoverInv, TypeOK, CallInv, Shaped, FinishOwner, At, Receiver
<1>2. /\ owner' = [owner EXCEPT ![r] = p]
      /\ excused' = Given({Job(r)}, Meets(c, PastProjects))
      /\ Commits(c, {}, none, Nobody)
      /\ UNCHANGED <<members, requests, projects, assignee, openRows, crossed>>
  BY DEF FinishOwner, tables
<1>3. none \in [Requests -> [Members -> Nat]]
  BY Bags
<1> HIDE DEF r, p, none
<1>4. /\ excused' \subseteq Works
      /\ Meets(c, PastProjects) => Job(r) \in excused'
      /\ \A w : w # Job(r) => (w \in excused' <=> w \in excused)
  BY <1>1, <1>2, GivenFacts, Pieces
<1>5. TypeOK'
  <2>1. /\ members' \in [Members -> {"ACTIVE", "SUSPENDED"}]
        /\ requests' \in [Requests -> RequestStates] /\ projects' \in [Requests -> HandoffStates]
        /\ assignee' \in [Requests -> People] /\ owner' \in [Requests -> People]
        /\ openRows' \in [Requests -> [Members -> Nat]] /\ crossed' \subseteq Requests
    BY <1>1, <1>2 DEF TypeOK, RequestStates, HandoffStates
  <2> QED BY <1>1, <1>2, <1>3, <1>4, <2>1, CommitKeepsTypes
<1>6. owner'[r] = p /\ \A q \in Requests \ {r} : owner'[q] = owner[q]
  BY <1>1, <1>2 DEF TypeOK
<1>7. \A q \in Requests : /\ q # r => (Job(q) \in excused' <=> Job(q) \in excused)
                          /\ Ask(q) \in excused' <=> Ask(q) \in excused
  BY <1>1, <1>4, Pieces
<1>8. NothingGiven(c)
  <2> SUFFICES ASSUME NEW d \in Calls \ {c}, NEW q \in Requests, calls[d].kind = "suspend"
               PROVE  /\ calls[d].step \in PastRequests /\ HasRequest(calls[d].who, q)'
                         => HasRequest(calls[d].who, q)
                      /\ calls[d].step \in PastProjects /\ HasProject(calls[d].who, q)'
                         => HasProject(calls[d].who, q)
    BY DEF NothingGiven
  <2>1. d \in Calls /\ calls'[d] = calls[d]
    BY <1>1, <1>2 DEF Commits, Forgets, TypeOK
  <2>2. HasRequest(calls[d].who, q)' => HasRequest(calls[d].who, q)
    BY <1>1, <1>2, <1>6, <1>7, <2>1 DEF HasRequest, OpenRequests
  <2>3. ASSUME calls[d].step \in PastProjects, HasProject(calls[d].who, q)'
        PROVE  HasProject(calls[d].who, q)
    <3>1. CASE q = r
      <4>1. calls[d].who = p /\ Job(r) \notin excused'
        BY <1>6, <2>1, <2>3, <3>1 DEF HasProject
      <4> QED BY <1>1, <1>4, <2>3, <4>1, MeetsListed
    <3>2. CASE q # r
      BY <1>2, <1>6, <1>7, <2>1, <2>3, <3>2 DEF HasProject
    <3> QED BY <3>1, <3>2
  <2> QED BY <2>2, <2>3
<1>9. OpenWorkIsAttended'
  <2>1. Job(r) \notin excused' => MayReceive(p)
    BY <1>1, <1>4 DEF CallInv, ReceiverReady, Meets, Free, At
  <2>2. \A q \in People : MayReceive(q)' <=> MayReceive(q)
    BY <1>2 DEF MayReceive, Active
  <2> QED BY <1>1, <1>2, <1>6, <1>7, <2>1, <2>2 DEF HandoverInv, TypeOK, OpenWorkIsAttended
<1>10. AssignmentsAgree'
  BY <1>2 DEF HandoverInv, AssignmentsAgree
<1>11. \A q \in Members : Active(q) => Active(q)'
  BY <1>2 DEF Active
<1>12. /\ {} \in SUBSET Requests /\ \A q \in {} : RequestFree(q, Calls \ {c})
       /\ \A q \in Requests \ {} : openRows'[q] = openRows[q]
  BY <1>2
<1> QED BY <1>2, <1>3, <1>5, <1>8, <1>9, <1>10, <1>11, <1>12, Committed

LEMMA FinishSuspendStep ==
  ASSUME HandoverInv, NEW c \in Calls, FinishSuspend(c)
  PROVE  HandoverInv'
<1> DEFINE who == calls[c].who
           heir == calls[c].heir
           asks == {Ask(r) : r \in moved[c]}
           handed == {Job(r) : r \in jobs[c]}
<1>1. /\ TypeOK /\ CallInv(c) /\ At(c, "suspend", "commit")
      /\ who \in Members /\ heir \in People /\ who # heir /\ Receiver(calls[c]) = heir
      /\ moved[c] \in SUBSET Requests /\ jobs[c] \in SUBSET Requests
      /\ seen[c] \in [Requests -> [Members -> Nat]]
  BY DEF HandoverInv, TypeOK, CallInv, Shaped, FinishSuspend, At, Receiver
<1>2. /\ members' = [members EXCEPT ![who] = "SUSPENDED"]
      /\ assignee' = [r \in Requests |-> IF r \in moved[c] THEN heir ELSE assignee[r]]
      /\ openRows' = [r \in Requests |-> IF r \in moved[c]
                                         THEN Plus(Minus(openRows[r], seen[c][r]), heir)
                                         ELSE openRows[r]]
      /\ owner' = [r \in Requests |-> IF r \in jobs[c] THEN heir ELSE owner[r]]
      /\ excused' = (excused \ (asks \cup handed))
                    \cup (IF Meets(c, PastRequests) THEN asks ELSE {})
                    \cup (IF Meets(c, PastProjects) THEN handed ELSE {})
      /\ crossed' = (crossed \ moved[c]) \cup (outrun[c] \cap moved[c])
      /\ Commits(c, moved[c], seen[c], who)
      /\ UNCHANGED <<requests, projects>>
  BY DEF FinishSuspend
<1> HIDE DEF who, heir
<1>3. ASSUME NEW r \in Requests
      PROVE  /\ r \in moved[c] /\ Meets(c, PastRequests) => Ask(r) \in excused'
             /\ r \notin moved[c] => (Ask(r) \in excused' <=> Ask(r) \in excused)
             /\ r \in jobs[c] /\ Meets(c, PastProjects) => Job(r) \in excused'
             /\ r \notin jobs[c] => (Job(r) \in excused' <=> Job(r) \in excused)
  <2>1. /\ Ask(r) \in asks <=> r \in moved[c]
        /\ Ask(r) \notin handed
        /\ Job(r) \in handed <=> r \in jobs[c]
        /\ Job(r) \notin asks
    BY <1>1, Pieces
  <2> HIDE DEF asks, handed
  <2> QED BY <1>2, <2>1
<1>4. excused' \subseteq Works
  <2>1. asks \subseteq Works /\ handed \subseteq Works
    BY <1>1, Pieces
  <2> HIDE DEF asks, handed
  <2> QED BY <1>1, <1>2, <2>1 DEF TypeOK
<1> HIDE DEF asks, handed
<1>5. ASSUME NEW r \in Requests
      PROVE  /\ Plus(Minus(openRows[r], seen[c][r]), heir) \in [Members -> Nat]
             /\ heir # Nobody => Plus(Minus(openRows[r], seen[c][r]), heir)[heir] > 0
  <2>1. openRows[r] \in [Members -> Nat] /\ seen[c][r] \in [Members -> Nat]
    BY <1>1 DEF TypeOK
  <2>2. Minus(openRows[r], seen[c][r]) \in [Members -> Nat]
    BY <2>1, Bags
  <2>3. heir # Nobody => heir \in Members
    BY <1>1 DEF People
  <2> QED BY <1>1, <2>2, <2>3, Bags
<1>6. TypeOK'
  <2>1. /\ members' \in [Members -> {"ACTIVE", "SUSPENDED"}]
        /\ requests' \in [Requests -> RequestStates] /\ projects' \in [Requests -> HandoffStates]
        /\ crossed' \subseteq Requests
    BY <1>1, <1>2 DEF TypeOK
  <2>2. assignee' \in [Requests -> People] /\ owner' \in [Requests -> People]
    BY <1>1, <1>2 DEF TypeOK
  <2>3. openRows' \in [Requests -> [Members -> Nat]]
    BY <1>1, <1>2, <1>5 DEF TypeOK
  <2> QED BY <1>1, <1>2, <1>4, <2>1, <2>2, <2>3, CommitKeepsTypes
<1>7. \A r \in moved[c] : RequestFree(r, Calls \ {c})
  BY <1>1 DEF HandoverInv, LockedOnce, LocksRequest, RequestFree
<1>8. NothingGiven(c)
  <2> SUFFICES ASSUME NEW d \in Calls \ {c}, NEW q \in Requests, calls[d].kind = "suspend"
               PROVE  /\ calls[d].step \in PastRequests /\ HasRequest(calls[d].who, q)'
                         => HasRequest(calls[d].who, q)
                      /\ calls[d].step \in PastProjects /\ HasProject(calls[d].who, q)'
                         => HasProject(calls[d].who, q)
    BY DEF NothingGiven
  <2>1. d \in Calls /\ calls'[d] = calls[d]
    BY <1>1, <1>2 DEF Commits, Forgets, TypeOK
  <2>2. ASSUME calls[d].step \in PastRequests, HasRequest(calls[d].who, q)'
        PROVE  HasRequest(calls[d].who, q)
    <3>1. CASE q \in moved[c]
      <4>1. calls[d].who = heir /\ Ask(q) \notin excused'
        BY <1>2, <2>1, <2>2, <3>1 DEF HasRequest
      <4> QED BY <1>1, <1>3, <2>2, <3>1, <4>1, MeetsListed
    <3>2. CASE q \notin moved[c]
      BY <1>2, <1>3, <2>1, <2>2, <3>2 DEF HasRequest
    <3> QED BY <3>1, <3>2
  <2>3. ASSUME calls[d].step \in PastProjects, HasProject(calls[d].who, q)'
        PROVE  HasProject(calls[d].who, q)
    <3>1. CASE q \in jobs[c]
      <4>1. calls[d].who = heir /\ Job(q) \notin excused'
        BY <1>2, <2>1, <2>3, <3>1 DEF HasProject
      <4> QED BY <1>1, <1>3, <2>3, <3>1, <4>1, MeetsListed
    <3>2. CASE q \notin jobs[c]
      BY <1>2, <1>3, <2>1, <2>3, <3>2 DEF HasProject
    <3> QED BY <3>1, <3>2
  <2> QED BY <2>2, <2>3
<1>9. OpenWorkIsAttended'
  <2> SUFFICES ASSUME NEW r \in Requests
               PROVE  /\ requests'[r] \in OpenRequests /\ Ask(r) \notin excused'
                         => MayReceive(assignee[r])'
                      /\ projects'[r] = "EN_TRANSICION" /\ Job(r) \notin excused'
                         => MayReceive(owner[r])'
    BY DEF OpenWorkIsAttended, OpenRequests
  <2>1. \A q \in People \ {who} :
          MayReceive(q) => q = Nobody \/ (q \in Members /\ members'[q] = "ACTIVE")
    BY <1>1, <1>2 DEF MayReceive, Active, TypeOK
  <2>2. ~late[c] => MayReceive(heir)
    BY <1>1 DEF CallInv, ReceiverReady, Free, At
  <2>3. /\ \A q \in Requests : HasRequest(who, q) => q \in moved[c]
        /\ \A q \in Requests : HasProject(who, q) => q \in jobs[c]
    BY <1>1 DEF CallInv, ListsWork, At, PastRequests, PastProjects, who
  <2>4. ASSUME requests'[r] \in OpenRequests, Ask(r) \notin excused' PROVE MayReceive(assignee[r])'
    <3>1. CASE r \in moved[c]
      <4>1. assignee'[r] = heir /\ ~late[c]
        BY <1>2, <1>3, <2>4, <3>1 DEF Meets
      <4>2. heir = Nobody \/ (heir \in Members /\ members'[heir] = "ACTIVE")
        BY <1>1, <2>1, <2>2, <4>1
      <4> QED BY <4>1, <4>2 DEF MayReceive, Active
    <3>2. CASE r \notin moved[c]
      <4>1. assignee'[r] = assignee[r] /\ requests[r] \in OpenRequests /\ Ask(r) \notin excused
        BY <1>2, <1>3, <2>4, <3>2
      <4>2. assignee[r] # who /\ MayReceive(assignee[r]) /\ assignee[r] \in People
        BY <2>3, <3>2, <4>1 DEF HasRequest, HandoverInv, TypeOK, OpenWorkIsAttended, OpenRequests
      <4> QED BY <1>2, <2>1, <4>1, <4>2 DEF MayReceive, Active, TypeOK
    <3> QED BY <3>1, <3>2
  <2>5. ASSUME projects'[r] = "EN_TRANSICION", Job(r) \notin excused' PROVE MayReceive(owner[r])'
    <3>1. CASE r \in jobs[c]
      <4>1. owner'[r] = heir /\ ~late[c]
        BY <1>2, <1>3, <2>5, <3>1 DEF Meets
      <4>2. heir = Nobody \/ (heir \in Members /\ members'[heir] = "ACTIVE")
        BY <1>1, <2>1, <2>2, <4>1
      <4> QED BY <4>1, <4>2 DEF MayReceive, Active
    <3>2. CASE r \notin jobs[c]
      <4>1. owner'[r] = owner[r] /\ projects[r] = "EN_TRANSICION" /\ Job(r) \notin excused
        BY <1>2, <1>3, <2>5, <3>2
      <4>2. owner[r] # who /\ MayReceive(owner[r]) /\ owner[r] \in People
        BY <2>3, <3>2, <4>1 DEF HasProject, HandoverInv, TypeOK, OpenWorkIsAttended
      <4> QED BY <1>2, <2>1, <4>1, <4>2 DEF MayReceive, Active, TypeOK
    <3> QED BY <3>1, <3>2
  <2> QED BY <2>4, <2>5
<1>10. AssignmentsAgree'
  <2> SUFFICES ASSUME NEW r \in Requests
               PROVE  /\ assignee'[r] # Nobody => openRows'[r][assignee'[r]] > 0
                      /\ r \notin crossed' => openRows'[r] = Plus(NoRows, assignee'[r])
    BY DEF AssignmentsAgree
  <2>1. CASE r \in moved[c]
    <3>1. /\ assignee'[r] = heir
          /\ openRows'[r] = Plus(Minus(openRows[r], seen[c][r]), heir)
      BY <1>2, <2>1
    <3>2. r \notin crossed' => Minus(openRows[r], seen[c][r]) = NoRows
      <4>1. r \notin crossed' => seen[c][r] = openRows[r]
        BY <1>1, <1>2, <2>1 DEF CallInv, SeesRows, Closing
      <4>2. openRows[r] \in [Members -> Nat]
        BY <1>1 DEF TypeOK
      <4> QED BY <4>1, <4>2, Bags
    <3> QED BY <1>5, <3>1, <3>2
  <2>2. CASE r \notin moved[c]
    BY <1>2, <2>2 DEF HandoverInv, AssignmentsAgree
  <2> QED BY <2>1, <2>2
<1>11. \A q \in Members : Active(q) => Active(q)' \/ q = who
  BY <1>1, <1>2 DEF Active, TypeOK
<1>12. \A q \in Requests \ moved[c] : openRows'[q] = openRows[q]
  BY <1>2
<1> QED BY <1>1, <1>2, <1>6, <1>7, <1>8, <1>9, <1>10, <1>11, <1>12, Committed

-----------------------------------------------------------------------------
(* The theorems                                                            *)

LEMMA Start ==
  ASSUME Init
  PROVE  HandoverInv
<1>1. \A c \in Calls : calls[c] = Idle /\ moved[c] = {}
  BY DEF Init
<1>2. TypeOK
  <2>1. calls \in [Calls -> CallRecords]
    BY <1>1, IdleFields DEF Init
  <2>2. Nobody \in People
    BY DEF People
  <2> QED BY <2>1, <2>2, Bags DEF Init, TypeOK, CallRecords, RequestStates, HandoffStates
<1>3. ASSUME NEW c \in Calls PROVE CallInv(c)
  BY <1>1, IdleFields DEF CallInv, Shaped, SeesRows, Closing, ListsWork, ReceiverReady, Free
<1>4. LockedOnce
  BY <1>1, IdleFields DEF LockedOnce, LocksRequest
<1>5. OpenWorkIsAttended /\ AssignmentsAgree
  BY Bags DEF Init, OpenWorkIsAttended, AssignmentsAgree, MayReceive
<1> QED BY <1>2, <1>3, <1>4, <1>5 DEF HandoverInv

LEMMA Stutter ==
  ASSUME HandoverInv, UNCHANGED vars
  PROVE  HandoverInv'
<1> USE DEF vars, plans, sights, tables, holders, history
<1>1. TypeOK'
  BY DEF HandoverInv, TypeOK
<1>2. \A c \in Calls : CallInv(c)'
  BY KeptCall DEF HandoverInv, Kept
<1>3. LockedOnce'
  BY DEF HandoverInv, LockedOnce, LocksRequest
<1>4. OpenWorkIsAttended' /\ AssignmentsAgree'
  BY DEF HandoverInv, OpenWorkIsAttended, AssignmentsAgree, MayReceive, Active
<1> QED BY <1>1, <1>2, <1>3, <1>4 DEF HandoverInv

LEMMA EveryStep ==
  ASSUME HandoverInv, [Next]_vars
  PROVE  HandoverInv'
<1>1. ASSUME NEW c \in Calls, Suspension(c) PROVE HandoverInv'
  BY <1>1, StartSteps, MarkStep, CloseRowsStep, RowsClosedStep, MoveRequestStep, ListProjectsStep,
     FinishSuspendStep DEF Suspension
<1>2. ASSUME NEW c \in Calls, Assignment(c) PROVE HandoverInv'
  BY <1>2, StartSteps, CloseAssignedStep, FinishAssignStep, FinishTakeStep DEF Assignment
<1>3. ASSUME NEW c \in Calls, Ownership(c) PROVE HandoverInv'
  BY <1>3, StartSteps, FinishConvertStep, FinishOwnerStep DEF Ownership
<1>4. ASSUME NEW r \in Requests, Desk(r) PROVE HandoverInv'
  BY <1>4, HandoffStep, AcceptStep, ReopenStep DEF Desk
<1> QED BY <1>1, <1>2, <1>3, <1>4, AbortStep, ReactivateStep, Stutter DEF Next

\* What the module types is what its variables hold, however many calls overlap.
THEOREM HandoverTypeCorrect == Spec => []TypeOK
<1>1. Init => HandoverInv
  BY Start
<1>2. HandoverInv /\ [Next]_vars => HandoverInv'
  BY EveryStep
<1>3. HandoverInv => TypeOK
  BY DEF HandoverInv
<1> QED BY <1>1, <1>2, <1>3, PTL DEF Spec

\* Nothing open is left in the name of a suspended person, but what a call gave them while
\* they were being suspended or what was reopened in their name: for any team, any requests
\* and any number of suspensions, assignments, conversions and changes of owner at once.
THEOREM OpenWorkAttended == Spec => []OpenWorkIsAttended
<1>1. Init => HandoverInv
  BY Start
<1>2. HandoverInv /\ [Next]_vars => HandoverInv'
  BY EveryStep
<1>3. HandoverInv => OpenWorkIsAttended
  BY DEF HandoverInv
<1> QED BY <1>1, <1>2, <1>3, PTL DEF Spec

\* The assignee of a request has an open row, and is the only one with any unless a
\* suspension closed its rows while another call wrote them.
THEOREM AssignmentsTell == Spec => []AssignmentsAgree
<1>1. Init => HandoverInv
  BY Start
<1>2. HandoverInv /\ [Next]_vars => HandoverInv'
  BY EveryStep
<1>3. HandoverInv => AssignmentsAgree
  BY DEF HandoverInv
<1> QED BY <1>1, <1>2, <1>3, PTL DEF Spec

\* Two calls never hold the row of a request at once: an assignment, and the suspensions
\* that have moved it.
THEOREM OneWriterPerRequest == Spec => []LockedOnce
<1>1. Init => HandoverInv
  BY Start
<1>2. HandoverInv /\ [Next]_vars => HandoverInv'
  BY EveryStep
<1>3. HandoverInv => LockedOnce
  BY DEF HandoverInv
<1> QED BY <1>1, <1>2, <1>3, PTL DEF Spec
=============================================================================
