------------------------ MODULE PrivateFiles_proofs ------------------------
(***************************************************************************)
(* The theorems about the attachments.  One invariant, FilesInv, is        *)
(* inductive and yields every safety property: what is offered depends on  *)
(* what each call in flight has read, so no part of it stands alone.       *)
(***************************************************************************)
EXTENDS PrivateFiles, TLAPS

\* At most one call is between the two halves of a transaction that locks the request.
Exclusive ==
  \A c, d \in Calls : /\ calls[c].step \in {"confirm", "remove"}
                      /\ calls[d].step \in {"confirm", "remove"}
                      => c = d

\* A file was announced at most once, never before it left PENDING_SCAN, and never while a call
\* holds a confirmation of it.
Announced ==
  /\ \A f \in Files : /\ events[f] <= 1
                      /\ events[f] = 1 => rows[f].status \notin {"NINGUNO", "PENDING_SCAN"}
                      /\ rows[f].status = "AVAILABLE" => rows[f].sha256 \in Sound /\ events[f] = 1
  /\ \A c \in Calls : calls[c].step = "confirm" => events[calls[c].file] = 0

\* Whoever writes DELETED marks the row as deleted.
Marked == \A f \in Files : rows[f].status = "DELETED" => rows[f].deleted

\* Such a file is not offered and never will be, or it was refused.
Lost(f) == rows[f].deleted \/ f \in refused \/ rows[f].status = "REJECTED"

\* Under the request's lock only markRejected can have rejected the row a call is confirming.
StillOpen ==
  \A c \in Calls : /\ calls[c].step = "confirm" /\ rows[calls[c].file].status = "REJECTED"
                   => calls[c].file \in refused

\* Only the bytes of a lost file are deleted.
ErasesLost == \A c \in Calls : calls[c].step = "erase" => Lost(calls[c].file)

\* A call that has read the bytes finds them there when it confirms, or the file was lost.
ScannedThere ==
  \A c \in Calls : calls[c].step \in {"scanned", "confirm"}
                     => store[calls[c].file] # Nothing \/ Lost(calls[c].file)

\* The bytes a scan passed, or one whose result is yet to be written, are those in the store, or
\* they are gone, or they were replaced.
SameBytes ==
  /\ \A f \in Files : rows[f].scan = "PASSED"
                       => store[f] \in {rows[f].sha256, Nothing} \/ f \in replaced
  /\ \A c \in Calls : calls[c].got # Nothing
                       => \/ store[calls[c].file] \in {calls[c].got, Nothing}
                          \/ calls[c].file \in replaced

\* The inductive invariant.
FilesInv ==
  /\ TypeOK /\ Exclusive /\ Announced /\ Marked /\ ErasesLost /\ ScannedThere
  /\ StillOpen /\ SameBytes
  /\ OfferedHasBytes /\ NothingLeftBehind

-----------------------------------------------------------------------------
\* A call that is not idle works on a file that has a row.
LEMMA InFlight ==
  ASSUME TypeOK, NEW c \in Calls
  PROVE  /\ calls[c] \in [step : Steps, file : Files \cup {NoFile}, got : Contents \cup {Nothing}]
         /\ calls[c] = [step |-> calls[c].step, file |-> calls[c].file, got |-> calls[c].got]
         /\ calls[c].got = Nothing <=> calls[c].step \notin {"scanned", "confirm"}
         /\ calls[c].step \in Steps
         /\ calls[c].file = NoFile <=> calls[c].step = "libre"
         /\ calls[c].step # "libre" => /\ calls[c].file \in Files
                                       /\ rows[calls[c].file] # NoRow
<1>1. calls[c] \in [step : Steps, file : Files \cup {NoFile}, got : Contents \cup {Nothing}]
  BY DEF TypeOK
<1>2. \A d \in Calls : /\ calls[d].file = NoFile <=> calls[d].step = "libre"
                       /\ calls[d].step # "libre" => rows[calls[d].file] # NoRow
                       /\ calls[d].got = Nothing <=> calls[d].step \notin {"scanned", "confirm"}
  BY DEF TypeOK
<1> QED
  BY <1>1, <1>2

\* A call that goes on keeps its file and what it has read.
LEMMA GoesOn ==
  ASSUME TypeOK, NEW c \in Calls, NEW s \in Steps, Goes(c, s)
  PROVE  calls' = [calls EXCEPT ![c] = [step |-> s, file |-> calls[c].file, got |-> calls[c].got]]
<1>1. \A a, b, g : [[step |-> a, file |-> b, got |-> g] EXCEPT !.step = s]
                     = [step |-> s, file |-> b, got |-> g]
  OBVIOUS
<1>2. calls[c] = [step |-> calls[c].step, file |-> calls[c].file, got |-> calls[c].got]
  BY InFlight
<1>3. [calls[c] EXCEPT !.step = s] = [step |-> s, file |-> calls[c].file, got |-> calls[c].got]
  BY <1>1, <1>2
<1> QED
  BY <1>3 DEF Goes

\* Nothing is reserved at the start.
LEMMA InitFiles == Init => FilesInv
<1> SUFFICES ASSUME Init PROVE FilesInv
  OBVIOUS
<1> USE PrivateFilesAssumption
<1>1. TypeOK
  BY DEF Init, TypeOK, NoRow, Idle, Call, Row, Steps, Statuses, ScanStatuses
<1>2. /\ Exclusive /\ Announced /\ Marked /\ ErasesLost /\ ScannedThere
      /\ StillOpen /\ SameBytes
  BY DEF Init, Exclusive, Announced, Marked, ErasesLost, ScannedThere, StillOpen, SameBytes, NoRow,
       Idle, Call
<1>3. OfferedHasBytes /\ NothingLeftBehind
  BY DEF Init, OfferedHasBytes, Offered, NothingLeftBehind, NoRow
<1> QED
  BY <1>1, <1>2, <1>3 DEF FilesInv

\* The browser's steps: no call moves.
LEMMA BrowserKeepsFiles ==
  ASSUME FilesInv, NEW f \in Files, Browser(f)
  PROVE FilesInv'
<1> USE DEF FilesInv
<1>1. CASE Reserve(f)
  <2>0. /\ UNCHANGED <<store, calls, events, refused, littered, replaced>>
        /\ links' \in SUBSET Files
        /\ \/ rows' = rows
           \/ rows[f] = NoRow /\ rows' = [rows EXCEPT ![f] = Reservation]
    <3>1. links \subseteq Files
      BY DEF TypeOK
    <3>2. \/ rows' = rows
          \/ rows[f] = NoRow /\ rows' = [rows EXCEPT ![f] = Reservation]
      BY <1>1, Zenon DEF Reserve
    <3>3. links' = links \/ links' = links \cup {f}
      BY <1>1, Zenon DEF Reserve
    <3>4. UNCHANGED <<store, calls, events, refused, littered, replaced>>
      BY <1>1 DEF Reserve, history
    <3>5. links' \in SUBSET Files
      BY <3>1, <3>3
    <3> QED BY <3>2, <3>4, <3>5, Zenon
  <2> USE <2>0
  <2>6. /\ \A g \in Files : g # f => rows'[g] = rows[g]
        /\ \/ rows'[f] = rows[f]
           \/ /\ rows[f].status = "NINGUNO" /\ rows[f].scan = "PENDING" /\ rows[f].deleted = FALSE
              /\ rows'[f].status = "PENDING_SCAN" /\ rows'[f].scan = "PENDING"
              /\ rows'[f].deleted = FALSE
    <3>1. /\ Reservation.status = "PENDING_SCAN" /\ Reservation.scan = "PENDING"
          /\ Reservation.deleted = FALSE
          /\ NoRow.status = "NINGUNO" /\ NoRow.scan = "PENDING" /\ NoRow.deleted = FALSE
      BY DEF NoRow, Reservation
    <3> QED BY <3>1 DEF TypeOK
  <2>1. TypeOK'
    <3>1. rows' \in [Files -> Row]
      <4>1. Reservation \in Row
        BY DEF Reservation, NoRow, Row, Statuses, ScanStatuses
      <4> QED BY <4>1 DEF TypeOK
    <3>2. \A g \in Files : rows[g] # NoRow => rows'[g] # NoRow
      BY DEF TypeOK, Row, NoRow, Reservation
    <3>3. \A d \in Calls : calls[d].step # "libre" => rows'[calls[d].file] # NoRow
      BY <3>2, InFlight
    <3> QED BY <3>1, <3>3 DEF TypeOK
  <2>2. (Exclusive /\ Announced /\ Marked)'
    BY <2>6, InFlight DEF Exclusive, Announced, Marked
  <2>3. (ErasesLost /\ ScannedThere)'
    BY <2>6, InFlight DEF ErasesLost, ScannedThere, Lost
  <2>5. (StillOpen /\ SameBytes)'
    BY <2>6, InFlight DEF StillOpen, SameBytes
  <2>4. (OfferedHasBytes /\ NothingLeftBehind)'
    BY <2>6 DEF OfferedHasBytes, Offered, NothingLeftBehind, Reservable, At, FileOf
  <2> QED BY <2>1, <2>2, <2>3, <2>4, <2>5
<1>2. CASE Upload(f)
  <2>0. PICK bytes \in Contents :
          /\ store' = [store EXCEPT ![f] = bytes]
          /\ littered' = IF Reservable(f) THEN littered ELSE littered \cup {f}
          /\ replaced' = IF Scanned(f) THEN replaced \cup {f} ELSE replaced
          /\ UNCHANGED <<rows, links, calls, events, refused>>
    BY <1>2 DEF Upload
  <2>1. TypeOK'
    BY <2>0 DEF TypeOK
  <2>2. bytes # Nothing
    BY DEF Contents, Sound, Nothing
  <2>3. (Exclusive /\ Announced /\ Marked /\ ErasesLost /\ ScannedThere /\ StillOpen)'
    BY <2>0, <2>2, InFlight DEF TypeOK, Exclusive, Announced, Marked, ErasesLost, ScannedThere,
         Lost, StillOpen
  <2>4. SameBytes'
    BY <2>0 DEF TypeOK, SameBytes, Scanned, FileOf
  <2>5. (OfferedHasBytes /\ NothingLeftBehind)'
    BY <2>0, <2>2 DEF TypeOK, OfferedHasBytes, Offered, NothingLeftBehind, Reservable, At, FileOf
  <2> QED BY <2>1, <2>3, <2>4, <2>5
<1>3. CASE LinkLapses(f)
  BY <1>3 DEF LinkLapses, TypeOK, Exclusive, Announced, Marked, ErasesLost, ScannedThere, Lost,
       StillOpen, SameBytes, OfferedHasBytes, Offered, NothingLeftBehind, Reservable, At, FileOf, history
<1>4. CASE ReservationLapses(f)
  <2> USE <1>4 DEF ReservationLapses
  <2>6. /\ rows' \in [Files -> Row]
        /\ \A g \in Files : rows[g] # NoRow => rows'[g] # NoRow
    <3>1. rows[f].reserved /\ rows[f] \in Row
      BY DEF TypeOK
    <3>2. [rows[f] EXCEPT !.expired = TRUE] \in Row
      BY <3>1 DEF Row
    <3>3. [rows[f] EXCEPT !.expired = TRUE].reserved
      BY <3>1 DEF Row
    <3> QED BY <3>2, <3>3 DEF TypeOK, NoRow
  <2>1. TypeOK'
    BY <2>6, InFlight DEF TypeOK, history
  <2>2. (Exclusive /\ Announced /\ Marked)'
    BY DEF TypeOK, Exclusive, Announced, Marked
  <2>3. (ErasesLost /\ ScannedThere)'
    BY DEF TypeOK, ErasesLost, ScannedThere, Lost, history
  <2>5. (StillOpen /\ SameBytes)'
    BY DEF TypeOK, StillOpen, SameBytes, history
  <2>4. (OfferedHasBytes /\ NothingLeftBehind)'
    BY DEF TypeOK, OfferedHasBytes, Offered, NothingLeftBehind, Reservable, At, FileOf, history
  <2> QED BY <2>1, <2>2, <2>3, <2>4, <2>5
<1> QED
  BY <1>1, <1>2, <1>3, <1>4 DEF Browser

\* What every step of a call that writes no row and no object has to show: it moves to a step
\* whose promise already holds.
LEMMA CallMoves ==
  ASSUME FilesInv, NEW c \in Calls,
         UNCHANGED <<rows, store, links, events, refused, replaced>>,
         littered' \in SUBSET Files, littered \subseteq littered',
         NEW s \in Steps, NEW f \in Files \cup {NoFile}, NEW g \in Contents \cup {Nothing},
         calls' = [calls EXCEPT ![c] = [step |-> s, file |-> f, got |-> g]],
         g = Nothing <=> s \notin {"scanned", "confirm"},
         g # Nothing => store[f] \in {g, Nothing} \/ f \in replaced,
         f = NoFile <=> s = "libre",
         f # NoFile => rows[f] # NoRow,
         s \in {"confirm", "remove"} => ~RequestLocked,
         s = "confirm" => rows[f].status = "PENDING_SCAN",
         s = "erase" => Lost(f),
         s \in {"scanned", "confirm"} => store[f] # Nothing \/ Lost(f),
         calls[c].step = "erase" => s = "erase" \/ calls[c].file \in littered' \/ store[calls[c].file] = Nothing,
         calls[c].step = "erase" /\ s = "erase" => calls[c].file = f
  PROVE FilesInv'
<1> USE DEF FilesInv
<1>1. TypeOK'
  BY DEF TypeOK
<1>2. Exclusive'
  BY DEF TypeOK, Exclusive, RequestLocked
<1>3. (Announced /\ Marked)'
  BY DEF TypeOK, Announced, Marked
<1>4. (ErasesLost /\ ScannedThere)'
  BY DEF TypeOK, ErasesLost, ScannedThere, Lost
<1>6. (StillOpen /\ SameBytes)'
  BY DEF TypeOK, StillOpen, SameBytes
<1>5. (OfferedHasBytes /\ NothingLeftBehind)'
  BY DEF TypeOK, OfferedHasBytes, Offered, NothingLeftBehind, Reservable, At, FileOf
<1> QED
  BY <1>1, <1>2, <1>3, <1>4, <1>5, <1>6

\* The steps of a call that only read, the first of each call, and those that end one.
LEMMA ReadingKeepsFiles ==
  ASSUME FilesInv, NEW c \in Calls,
         \/ \E f \in Files : Complete(c, f) \/ RemoveRead(c, f) \/ SweepRead(c, f)
         \/ Head(c) \/ Read(c) \/ ConfirmRead(c) \/ RejectRead(c) \/ Abort(c)
  PROVE FilesInv'
<1> USE PrivateFilesAssumption
<1>0. /\ TypeOK /\ calls[c].step \in Steps /\ calls[c].file \in Files \cup {NoFile}
      /\ calls[c].got \in Contents \cup {Nothing} /\ Nothing \in Contents \cup {Nothing}
  BY DEF FilesInv, TypeOK
<1>1. ASSUME NEW s \in Steps, Goes(c, s)
      PROVE calls' = [calls EXCEPT ![c] = [step |-> s, file |-> calls[c].file, got |-> calls[c].got]]
  BY <1>0, <1>1, GoesOn
<1>2. CASE \E f \in Files : Complete(c, f) \/ RemoveRead(c, f) \/ SweepRead(c, f)
  <2>1. PICK f \in Files : Complete(c, f) \/ RemoveRead(c, f) \/ SweepRead(c, f)
    BY <1>2
  <2>2. rows[f] # NoRow /\ calls[c].step = "libre" /\ UNCHANGED <<rows, store, links, events, refused, littered, replaced>>
    BY <2>1 DEF Complete, RemoveRead, SweepRead, Live, Sweepable, Starts, At, NoRow, history
  <2>3. \/ \E s \in {"expire", "head", "sweep"} :
             calls' = [calls EXCEPT ![c] = [step |-> s, file |-> f, got |-> Nothing]]
        \/ /\ ~RequestLocked
           /\ calls' = [calls EXCEPT ![c] = [step |-> "remove", file |-> f, got |-> Nothing]]
    BY <2>1 DEF Complete, RemoveRead, SweepRead, Starts, Call
  <2>4. littered' \in SUBSET Files
    BY <1>0, <2>2 DEF TypeOK
  <2>5. CASE /\ ~RequestLocked
             /\ calls' = [calls EXCEPT ![c] = [step |-> "remove", file |-> f, got |-> Nothing]]
    <3> DEFINE t == "remove"
    <3>1. t \in Steps BY DEF Steps
    <3> QED BY <1>0, <2>2, <2>4, <2>5, <3>1, CallMoves
  <2>6. ASSUME NEW s \in {"expire", "head", "sweep"},
               calls' = [calls EXCEPT ![c] = [step |-> s, file |-> f, got |-> Nothing]]
        PROVE FilesInv'
    <3>1. s \in Steps BY DEF Steps
    <3> QED BY <1>0, <2>2, <2>4, <2>6, <3>1, CallMoves
  <2> QED BY <2>3, <2>5, <2>6
<1>3. CASE Head(c) \/ Read(c)
  <2> DEFINE f == calls[c].file
  <2>1. /\ UNCHANGED <<rows, store, links, events, refused, littered, replaced>>
        /\ calls[c].step \in {"head", "read"} /\ f \in Files /\ rows[f] # NoRow
        /\ calls[c].got = Nothing
    BY <1>0, <1>3, InFlight DEF Head, Read, At, history
  <2>2. CASE \E s \in {"read", "reject"} : Goes(c, s)
    <3>1. PICK s \in {"read", "reject"} : Goes(c, s)
      BY <2>2
    <3>2. s \in Steps BY DEF Steps
    <3>3. calls' = [calls EXCEPT ![c] = [step |-> s, file |-> f, got |-> Nothing]]
      BY <1>1, <2>1, <3>1, <3>2
    <3>4. littered' \in SUBSET Files /\ f \in Files \cup {NoFile}
      BY <1>0, <2>1 DEF TypeOK
    <3>5. s # "erase" /\ s # "libre" /\ s # "confirm" /\ s # "remove" /\ s # "scanned"
      OBVIOUS
    <3>6. calls[c].step # "erase" /\ f # NoFile
      BY <2>1
    <3> HIDE DEF f
    <3> QED BY <1>0, <2>1, <3>1, <3>2, <3>3, <3>4, <3>5, <3>6, CallMoves
  <2>3. CASE /\ store[f] # Nothing
             /\ calls' = [calls EXCEPT ![c] = [step |-> "scanned", file |-> f, got |-> store[f]]]
    <3> DEFINE s == "scanned"  g == store[f]
    <3>1. s \in Steps BY DEF Steps
    <3>2. calls' = [calls EXCEPT ![c] = [step |-> s, file |-> f, got |-> g]]
      BY <2>3
    <3>3. littered' \in SUBSET Files /\ f \in Files \cup {NoFile} /\ g \in Contents \cup {Nothing}
      BY <1>0, <2>1 DEF TypeOK
    <3>4. s # "erase" /\ s # "libre" /\ s # "confirm" /\ s # "remove" /\ s \in {"scanned", "confirm"}
      OBVIOUS
    <3>5. calls[c].step # "erase" /\ f # NoFile /\ g # Nothing /\ g = store[f]
      BY <2>1, <2>3
    <3> HIDE DEF f, s, g
    <3> QED BY <2>1, <3>1, <3>2, <3>3, <3>4, <3>5, CallMoves
  <2> QED
    BY <1>3, <2>2, <2>3 DEF Head, Read, FileOf
<1>4. CASE ConfirmRead(c)
  <2> DEFINE f == calls[c].file  g == calls[c].got
  <2>1. /\ UNCHANGED <<rows, store, links, events, refused, littered, replaced>>
        /\ calls[c].step = "scanned" /\ f \in Files /\ rows[f] # NoRow /\ ~RequestLocked
        /\ g # Nothing /\ (store[f] \in {g, Nothing} \/ f \in replaced)
    BY <1>0, <1>4, InFlight DEF ConfirmRead, At, history, FilesInv, SameBytes
  <2>2. littered' \in SUBSET Files
    BY <1>0, <2>1 DEF TypeOK
  <2>3. CASE rows[f].status = "PENDING_SCAN"
    <3> DEFINE s == "confirm"
    <3>1. s \in Steps BY DEF Steps
    <3>2. calls' = [calls EXCEPT ![c] = [step |-> s, file |-> f, got |-> g]]
      BY <1>1, <1>4, <2>3, <3>1 DEF ConfirmRead, FileOf
    <3>3. store[f] # Nothing \/ Lost(f)
      BY <2>1 DEF FilesInv, ScannedThere
    <3>4. s # "erase" /\ s # "libre" /\ s \in {"scanned", "confirm"} /\ f # NoFile
      BY <2>1
    <3>5. f \in Files \cup {NoFile} /\ g \in Contents \cup {Nothing}
      BY <1>0, <2>1
    <3>6. calls[c].step # "erase"
      BY <2>1
    <3> HIDE DEF s, f, g
    <3> QED BY <1>0, <2>1, <2>2, <2>3, <3>1, <3>2, <3>3, <3>4, <3>5, <3>6, CallMoves
  <2>4. CASE rows[f].status # "PENDING_SCAN"
    <3> DEFINE s == "libre"
    <3>1. s \in Steps BY DEF Steps
    <3>2. calls' = [calls EXCEPT ![c] = [step |-> s, file |-> NoFile, got |-> Nothing]]
      BY <1>4, <2>4 DEF ConfirmRead, FileOf, Ends, Idle, Call
    <3> QED BY <1>0, <2>1, <2>2, <3>1, <3>2, CallMoves
  <2> QED BY <2>3, <2>4
<1>5. CASE RejectRead(c)
  <2> DEFINE f == calls[c].file
  <2>1. /\ UNCHANGED <<rows, store, links, events, refused, littered, replaced>>
        /\ calls[c].step = "reject" /\ f \in Files /\ rows[f] # NoRow /\ calls[c].got = Nothing
    BY <1>0, <1>5, InFlight DEF RejectRead, At, history
  <2>2. PICK s \in {"erase", "rejecting"} : Goes(c, s) /\ (s = "erase" => rows[f].status = "DELETED")
    BY <1>5 DEF RejectRead, FileOf
  <2>3. s = "erase" => Lost(f)
    BY <2>1, <2>2 DEF FilesInv, Marked, Lost
  <2>4. s \in Steps BY DEF Steps
  <2>5. calls' = [calls EXCEPT ![c] = [step |-> s, file |-> f, got |-> Nothing]]
    BY <1>1, <2>1, <2>2, <2>4
  <2>6. littered' \in SUBSET Files /\ f \in Files \cup {NoFile}
    BY <1>0, <2>1 DEF TypeOK
  <2>7. s # "libre" /\ s # "confirm" /\ s # "remove" /\ s # "scanned" /\ f # NoFile
    BY <2>1
  <2>8. calls[c].step # "erase"
    BY <2>1
  <2> HIDE DEF f
  <2> QED BY <1>0, <2>1, <2>3, <2>4, <2>5, <2>6, <2>7, <2>8, CallMoves
<1>6. CASE Abort(c)
  <2> DEFINE s == "libre"
  <2>1. s \in Steps BY DEF Steps
  <2>2. calls' = [calls EXCEPT ![c] = [step |-> s, file |-> NoFile, got |-> Nothing]]
    BY <1>6 DEF Abort, Ends, Idle, Call
  <2>3. /\ UNCHANGED <<rows, store, links, events, refused, replaced>>
        /\ littered' \in SUBSET Files /\ littered \subseteq littered'
        /\ calls[c].step = "erase" => calls[c].file \in littered'
    BY <1>0, <1>6, InFlight DEF Abort, At, FileOf, TypeOK
  <2> QED BY <1>0, <2>1, <2>2, <2>3, CallMoves
<1> QED
  BY <1>2, <1>3, <1>4, <1>5, <1>6

\* What a write of some of its columns makes of a row.
LEMMA Deleted ==
  ASSUME rows \in [Files -> Row], NEW f \in Files,
         rows' = [rows EXCEPT ![f].status = "DELETED", ![f].deleted = TRUE]
  PROVE  /\ rows' \in [Files -> Row] /\ rows'[f] # NoRow
         /\ rows'[f].status = "DELETED" /\ rows'[f].deleted
         /\ rows'[f].scan = rows[f].scan /\ rows'[f].sha256 = rows[f].sha256
         /\ \A g \in Files : g # f => rows'[g] = rows[g]
<1> DEFINE W(r) == [r EXCEPT !.status = "DELETED", !.deleted = TRUE]
<1>1. /\ rows[f] \in Row /\ rows'[f] = W(rows[f])
      /\ \A g \in Files : g # f => rows'[g] = rows[g]
      /\ rows' \in [Files -> {rows[g] : g \in Files} \cup {rows'[f]}]
  OBVIOUS
<1>2. ASSUME NEW r \in Row
      PROVE  /\ W(r) \in Row /\ W(r) # NoRow /\ W(r).status = "DELETED" /\ W(r).deleted
             /\ W(r).scan = r.scan /\ W(r).sha256 = r.sha256
  BY DEF Row, Statuses, NoRow
<1> HIDE DEF W
<1> QED
  BY <1>1, <1>2

LEMMA Confirmed ==
  ASSUME rows \in [Files -> Row], NEW f \in Files, NEW v \in {"PASSED", "REJECTED"},
         NEW t \in {"AVAILABLE", "REJECTED"}, NEW b \in Contents,
         rows' = [rows EXCEPT ![f].scan = v, ![f].sha256 = b, ![f].reserved = FALSE,
                              ![f].expired = FALSE, ![f].status = t]
  PROVE  /\ rows' \in [Files -> Row] /\ rows'[f] # NoRow
         /\ rows'[f].status = t /\ rows'[f].scan = v
         /\ rows'[f].sha256 = b /\ rows'[f].deleted = rows[f].deleted
         /\ \A g \in Files : g # f => rows'[g] = rows[g]
<1> DEFINE W(r) == [r EXCEPT !.scan = v, !.sha256 = b, !.reserved = FALSE, !.expired = FALSE,
                             !.status = t]
<1>1. /\ rows[f] \in Row /\ rows'[f] = W(rows[f])
      /\ \A g \in Files : g # f => rows'[g] = rows[g]
      /\ rows' \in [Files -> {rows[g] : g \in Files} \cup {rows'[f]}]
  OBVIOUS
<1>2. ASSUME NEW r \in Row
      PROVE  /\ W(r) \in Row /\ W(r) # NoRow /\ W(r).status = t /\ W(r).scan = v
             /\ W(r).sha256 = b /\ W(r).deleted = r.deleted
  BY DEF Row, Statuses, ScanStatuses, NoRow
<1> HIDE DEF W
<1> QED
  BY <1>1, <1>2

LEMMA RowRejected ==
  ASSUME rows \in [Files -> Row], NEW f \in Files,
         rows' = [rows EXCEPT ![f].status = "REJECTED", ![f].scan = "REJECTED"]
  PROVE  /\ rows' \in [Files -> Row] /\ rows'[f] # NoRow
         /\ rows'[f].status = "REJECTED" /\ rows'[f].scan = "REJECTED"
         /\ rows'[f].deleted = rows[f].deleted
         /\ \A g \in Files : g # f => rows'[g] = rows[g]
<1> DEFINE W(r) == [r EXCEPT !.status = "REJECTED", !.scan = "REJECTED"]
<1>1. /\ rows[f] \in Row /\ rows'[f] = W(rows[f])
      /\ \A g \in Files : g # f => rows'[g] = rows[g]
      /\ rows' \in [Files -> {rows[g] : g \in Files} \cup {rows'[f]}]
  OBVIOUS
<1>2. ASSUME NEW r \in Row
      PROVE  /\ W(r) \in Row /\ W(r) # NoRow /\ W(r).status = "REJECTED" /\ W(r).scan = "REJECTED"
             /\ W(r).deleted = r.deleted
  BY DEF Row, Statuses, ScanStatuses, NoRow
<1> HIDE DEF W
<1> QED
  BY <1>1, <1>2

\* The three writes that delete a row and go on to delete its object.
LEMMA DeletionKeepsFiles ==
  ASSUME FilesInv, NEW c \in Calls, ExpireWrite(c) \/ RemoveWrite(c) \/ SweepWrite(c)
  PROVE FilesInv'
<1> DEFINE f == calls[c].file
<1> USE PrivateFilesAssumption DEF FilesInv
<1>0. /\ rows' = [rows EXCEPT ![f].status = "DELETED", ![f].deleted = TRUE]
      /\ calls' = [calls EXCEPT ![c].step = "erase"]
  BY DEF ExpireWrite, RemoveWrite, SweepWrite, FileOf, Goes
<1>1. /\ f \in Files /\ rows[f] # NoRow
      /\ calls[c].step \in {"expire", "remove", "sweep"} /\ calls[c].got = Nothing
      /\ UNCHANGED <<store, links, events, refused, littered, replaced>>
  BY InFlight DEF ExpireWrite, RemoveWrite, SweepWrite, At, FileOf, Goes, history
<1>8. /\ rows' \in [Files -> Row] /\ rows'[f] # NoRow /\ rows'[f].status = "DELETED" /\ rows'[f].deleted
      /\ rows'[f].scan = rows[f].scan /\ rows'[f].sha256 = rows[f].sha256
      /\ \A g \in Files : g # f => rows'[g] = rows[g]
  BY <1>0, <1>1, Deleted DEF TypeOK
<1>9. /\ calls'[c].step = "erase" /\ calls'[c].file = f /\ calls'[c].got = Nothing
      /\ calls' \in [Calls -> [step : Steps, file : Files \cup {NoFile}, got : Contents \cup {Nothing}]]
      /\ \A d \in Calls : d # c => calls'[d] = calls[d]
  BY <1>0, <1>1 DEF TypeOK, Steps
<1>2. TypeOK'
  <2>1. \A g \in Files : rows[g] # NoRow => rows'[g] # NoRow
    BY <1>1, <1>8
  <2>2. \A d \in Calls : /\ calls'[d].file = NoFile <=> calls'[d].step = "libre"
                         /\ calls'[d].step # "libre" => rows'[calls'[d].file] # NoRow
                         /\ calls'[d].got = Nothing <=> calls'[d].step \notin {"scanned", "confirm"}
    BY <1>1, <1>9, <2>1, InFlight
  <2> QED BY <1>1, <1>8, <1>9, <2>2 DEF TypeOK
<1>3. (Exclusive /\ Marked /\ Announced)'
  <2>1. Exclusive'
    BY <1>1, <1>8, <1>9, InFlight DEF Exclusive
  <2>2. Marked'
    BY <1>1, <1>8, <1>9, InFlight DEF Marked
  <2>3. Announced'
    BY <1>1, <1>8, <1>9, InFlight DEF Announced, Exclusive
  <2> QED BY <2>1, <2>2, <2>3
<1>6. Lost(f)' /\ \A g \in Files : Lost(g) => Lost(g)'
  BY <1>1, <1>8, <1>9 DEF Lost
<1>4. (ErasesLost /\ ScannedThere)'
  BY <1>1, <1>6, <1>9, InFlight DEF ErasesLost, ScannedThere
<1>7. (StillOpen /\ SameBytes)'
  <2>1. StillOpen'
    BY <1>1, <1>8, <1>9, InFlight DEF StillOpen, Exclusive
  <2>2. SameBytes'
    <3>1. \A g \in Files : rows'[g].scan = rows[g].scan /\ rows'[g].sha256 = rows[g].sha256
      BY <1>1, <1>8
    <3>2. \A d \in Calls : calls'[d].got # Nothing => d # c /\ calls'[d] = calls[d]
      BY <1>9
    <3> QED BY <1>1, <3>1, <3>2 DEF SameBytes
  <2> QED BY <2>1, <2>2
<1>5. (OfferedHasBytes /\ NothingLeftBehind)'
  <2>1. OfferedHasBytes'
    BY <1>1, <1>8, <1>9, InFlight DEF OfferedHasBytes, Offered
  <2>2. NothingLeftBehind'
    <3> SUFFICES ASSUME NEW g \in Files, store[g] # Nothing
                 PROVE  Reservable(g)' \/ g \in littered \/ \E d \in Calls : FileOf(d)' = g /\ At(d, "erase")'
      BY <1>1 DEF NothingLeftBehind
    <3>1. CASE g = f
      BY <1>1, <1>8, <1>9, <3>1 DEF Reservable, At, FileOf
    <3>2. CASE g # f
      <4>1. Reservable(g)' <=> Reservable(g)
        BY <1>1, <1>8, <1>9, <3>2 DEF Reservable
      <4>2. \A d \in Calls : FileOf(d) = g => d # c /\ calls'[d] = calls[d]
        BY <1>1, <1>8, <1>9, <3>2 DEF FileOf
      <4> QED BY <4>1, <4>2 DEF NothingLeftBehind, At, FileOf
    <3> QED BY <3>1, <3>2
  <2> QED BY <2>1, <2>2
<1> QED
  BY <1>2, <1>3, <1>4, <1>5, <1>7

\* Only a call that holds the request confirms, so the file was not announced yet.
LEMMA ConfirmationKeepsFiles ==
  ASSUME FilesInv, NEW c \in Calls, ConfirmWrite(c)
  PROVE FilesInv'
<1> DEFINE f == calls[c].file  bytes == calls[c].got
<1> USE PrivateFilesAssumption DEF FilesInv
<1>1. /\ f \in Files /\ rows[f] # NoRow /\ calls[c].step = "confirm" /\ events[f] = 0
      /\ UNCHANGED <<store, links, refused, littered, replaced>>
      /\ store[f] # Nothing \/ Lost(f)
      /\ rows[f].status = "REJECTED" => f \in refused
      /\ bytes \in Contents /\ (store[f] \in {bytes, Nothing} \/ f \in replaced)
  BY InFlight DEF ConfirmWrite, At, FileOf, history, Announced, ScannedThere, StillOpen, SameBytes
<1>2. CASE bytes \in Sound
  <2>1. /\ rows' = [rows EXCEPT ![f].scan = "PASSED", ![f].sha256 = bytes, ![f].reserved = FALSE,
                                ![f].expired = FALSE, ![f].status = "AVAILABLE"]
        /\ events' = [events EXCEPT ![f] = 1]
        /\ calls' = [calls EXCEPT ![c] = Idle]
    BY <1>1, <1>2 DEF ConfirmWrite, FileOf, Verdict, Ends, TypeOK
  <2>8. /\ rows' \in [Files -> Row] /\ rows'[f] # NoRow /\ rows'[f].status = "AVAILABLE" /\ rows'[f].scan = "PASSED"
        /\ rows'[f].sha256 = bytes /\ rows'[f].deleted = rows[f].deleted
        /\ \A g \in Files : g # f => rows'[g] = rows[g]
    <3>1. rows \in [Files -> Row] /\ f \in Files /\ bytes \in Contents
      BY <1>1 DEF TypeOK
    <3> HIDE DEF f, bytes
    <3> QED BY <2>1, <3>1, Confirmed, Zenon
  <2>9. /\ events' \in [Files -> 0..2] /\ events'[f] = 1
        /\ \A g \in Files : g # f => events'[g] = events[g]
        /\ calls'[c].step = "libre" /\ calls'[c].file = NoFile /\ calls'[c].got = Nothing
        /\ calls' \in [Calls -> [step : Steps, file : Files \cup {NoFile}, got : Contents \cup {Nothing}]]
        /\ \A d \in Calls : d # c => calls'[d] = calls[d]
    BY <1>1, <2>1 DEF TypeOK, Steps, Idle, Call
  <2>2. TypeOK'
    BY <1>1, <2>8, <2>9, InFlight DEF TypeOK
  <2>3. (Exclusive /\ Marked)'
    <3>1. Exclusive'
      BY <1>1, <2>8, <2>9, InFlight DEF Exclusive
    <3>2. Marked'
      BY <1>1, <2>8, <2>9, InFlight DEF Marked
    <3> QED BY <3>1, <3>2
  <2>4. Announced'
    BY <1>1, <1>2, <2>8, <2>9, InFlight DEF Announced, Exclusive
  <2>7. \A g \in Files : Lost(g) => Lost(g)'
    BY <1>1, <2>8, <2>9 DEF Lost
  <2>5. (ErasesLost /\ ScannedThere)'
    BY <1>1, <2>7, <2>9, InFlight DEF ErasesLost, ScannedThere
  <2>6. (StillOpen /\ SameBytes)'
    <3>1. StillOpen'
      BY <1>1, <2>8, <2>9, InFlight DEF StillOpen, Exclusive
    <3>2. SameBytes'
      BY <1>1, <2>8, <2>9, InFlight DEF SameBytes
    <3> QED BY <3>1, <3>2
  <2>10. (OfferedHasBytes /\ NothingLeftBehind)'
    <3>1. OfferedHasBytes'
      BY <1>1, <2>8, <2>9, InFlight DEF OfferedHasBytes, Offered, Lost
    <3>2. NothingLeftBehind'
      <4> SUFFICES ASSUME NEW g \in Files, store[g] # Nothing
                   PROVE  Reservable(g)' \/ g \in littered \/ \E d \in Calls : FileOf(d)' = g /\ At(d, "erase")'
        BY <1>1 DEF NothingLeftBehind
      <4>1. CASE g = f
        BY <1>1, <2>8, <2>9, <4>1 DEF Reservable, At, FileOf
      <4>2. CASE g # f
        <5>1. Reservable(g)' <=> Reservable(g)
          BY <1>1, <2>8, <2>9, <4>2 DEF Reservable
        <5>2. \A d \in Calls : FileOf(d) = g => d # c /\ calls'[d] = calls[d]
          BY <1>1, <2>8, <2>9, <4>2 DEF FileOf
        <5> QED BY <5>1, <5>2 DEF NothingLeftBehind, At, FileOf
      <4> QED BY <4>1, <4>2
    <3> QED BY <3>1, <3>2
  <2> QED BY <2>2, <2>3, <2>4, <2>5, <2>6, <2>10
<1>3. CASE bytes \notin Sound
  <2>1. /\ rows' = [rows EXCEPT ![f].scan = "REJECTED", ![f].sha256 = bytes, ![f].reserved = FALSE,
                                ![f].expired = FALSE, ![f].status = "REJECTED"]
        /\ calls' = [calls EXCEPT ![c] = Call("erase", f)]
    BY <1>1, <1>3 DEF ConfirmWrite, FileOf, Verdict, TypeOK
  <2>11. events' = events
    BY <1>3 DEF ConfirmWrite, FileOf, Verdict
  <2>8. /\ rows' \in [Files -> Row] /\ rows'[f] # NoRow /\ rows'[f].status = "REJECTED" /\ rows'[f].scan = "REJECTED"
        /\ rows'[f].deleted = rows[f].deleted
        /\ \A g \in Files : g # f => rows'[g] = rows[g]
    <3>1. rows \in [Files -> Row] /\ f \in Files /\ bytes \in Contents
      BY <1>1 DEF TypeOK
    <3> HIDE DEF f, bytes
    <3> QED BY <2>1, <3>1, Confirmed, Zenon
  <2>9. /\ calls'[c].step = "erase" /\ calls'[c].file = f /\ calls'[c].got = Nothing
        /\ calls' \in [Calls -> [step : Steps, file : Files \cup {NoFile}, got : Contents \cup {Nothing}]]
        /\ \A d \in Calls : d # c => calls'[d] = calls[d]
    BY <1>1, <2>1 DEF TypeOK, Steps, Call
  <2>2. TypeOK'
    <3>1. \A g \in Files : rows[g] # NoRow => rows'[g] # NoRow
      BY <1>1, <2>8
    <3>2. \A d \in Calls : /\ calls'[d].file = NoFile <=> calls'[d].step = "libre"
                           /\ calls'[d].step # "libre" => rows'[calls'[d].file] # NoRow
                           /\ calls'[d].got = Nothing <=> calls'[d].step \notin {"scanned", "confirm"}
      BY <1>1, <2>9, <3>1, InFlight
    <3> QED BY <1>1, <2>11, <2>8, <2>9, <3>2 DEF TypeOK
  <2>3. (Exclusive /\ Marked /\ Announced)'
    <3>1. Exclusive'
      BY <1>1, <2>11, <2>8, <2>9, InFlight DEF Exclusive
    <3>2. Marked'
      BY <1>1, <2>11, <2>8, <2>9, InFlight DEF Marked
    <3>3. Announced'
      BY <1>1, <2>11, <2>8, <2>9, InFlight DEF Announced, Exclusive
    <3> QED BY <3>1, <3>2, <3>3
  <2>7. Lost(f)' /\ \A g \in Files : Lost(g) => Lost(g)'
    BY <1>1, <2>8, <2>9 DEF Lost
  <2>5. (ErasesLost /\ ScannedThere)'
    BY <1>1, <2>7, <2>9, InFlight DEF ErasesLost, ScannedThere
  <2>6. (StillOpen /\ SameBytes)'
    <3>1. StillOpen'
      BY <1>1, <2>8, <2>9, InFlight DEF StillOpen, Exclusive
    <3>2. SameBytes'
      BY <1>1, <2>8, <2>9, InFlight DEF SameBytes
    <3> QED BY <3>1, <3>2
  <2>10. (OfferedHasBytes /\ NothingLeftBehind)'
    <3>1. OfferedHasBytes'
      BY <1>1, <2>11, <2>8, <2>9, InFlight DEF OfferedHasBytes, Offered
    <3>2. NothingLeftBehind'
      BY <1>1, <2>11, <2>8, <2>9, InFlight DEF NothingLeftBehind, Reservable, At, FileOf
    <3> QED BY <3>1, <3>2
  <2> QED BY <2>2, <2>3, <2>5, <2>6, <2>10
<1> QED
  BY <1>2, <1>3

LEMMA RejectionKeepsFiles ==
  ASSUME FilesInv, NEW c \in Calls, RejectWrite(c)
  PROVE FilesInv'
<1> DEFINE f == calls[c].file
<1> USE PrivateFilesAssumption DEF FilesInv
<1>0. /\ rows' = [rows EXCEPT ![f].status = "REJECTED", ![f].scan = "REJECTED"]
      /\ calls' = [calls EXCEPT ![c].step = "erase"]
  BY DEF RejectWrite, FileOf, Goes
<1>1. /\ f \in Files /\ rows[f] # NoRow /\ calls[c].step = "rejecting" /\ calls[c].got = Nothing
      /\ refused' = refused \cup {f}
      /\ UNCHANGED <<store, links, events, littered, replaced>>
  BY InFlight DEF RejectWrite, At, FileOf, Goes
<1>8. /\ rows' \in [Files -> Row] /\ rows'[f] # NoRow /\ rows'[f].status = "REJECTED" /\ rows'[f].scan = "REJECTED"
      /\ rows'[f].deleted = rows[f].deleted
      /\ \A g \in Files : g # f => rows'[g] = rows[g]
  BY <1>0, <1>1, RowRejected DEF TypeOK
<1>9. /\ calls'[c].step = "erase" /\ calls'[c].file = f /\ calls'[c].got = Nothing
      /\ calls' \in [Calls -> [step : Steps, file : Files \cup {NoFile}, got : Contents \cup {Nothing}]]
      /\ \A d \in Calls : d # c => calls'[d] = calls[d]
  BY <1>0, <1>1 DEF TypeOK, Steps
<1>2. TypeOK'
  <2>1. \A g \in Files : rows[g] # NoRow => rows'[g] # NoRow
    BY <1>1, <1>8
  <2>2. \A d \in Calls : /\ calls'[d].file = NoFile <=> calls'[d].step = "libre"
                         /\ calls'[d].step # "libre" => rows'[calls'[d].file] # NoRow
                         /\ calls'[d].got = Nothing <=> calls'[d].step \notin {"scanned", "confirm"}
    BY <1>1, <1>9, <2>1, InFlight
  <2> QED BY <1>1, <1>8, <1>9, <2>2 DEF TypeOK
<1>3. (Exclusive /\ Marked /\ Announced)'
  <2>1. Exclusive'
    BY <1>1, <1>8, <1>9, InFlight DEF Exclusive
  <2>2. Marked'
    BY <1>1, <1>8, <1>9, InFlight DEF Marked
  <2>3. Announced'
    BY <1>1, <1>8, <1>9, InFlight DEF Announced, Exclusive
  <2> QED BY <2>1, <2>2, <2>3
<1>6. Lost(f)' /\ \A g \in Files : Lost(g) => Lost(g)'
  BY <1>1, <1>8, <1>9 DEF Lost
<1>4. (ErasesLost /\ ScannedThere)'
  BY <1>1, <1>6, <1>9, InFlight DEF ErasesLost, ScannedThere
<1>7. (StillOpen /\ SameBytes)'
  <2>1. StillOpen'
    BY <1>1, <1>8, <1>9, InFlight DEF StillOpen, Exclusive
  <2>2. SameBytes'
    BY <1>1, <1>8, <1>9, InFlight DEF SameBytes
  <2> QED BY <2>1, <2>2
<1>5. (OfferedHasBytes /\ NothingLeftBehind)'
  <2>1. OfferedHasBytes'
    BY <1>1, <1>8, <1>9, InFlight DEF OfferedHasBytes, Offered
  <2>2. NothingLeftBehind'
    BY <1>1, <1>8, <1>9, InFlight DEF NothingLeftBehind, Reservable, At, FileOf
  <2> QED BY <2>1, <2>2
<1> QED
  BY <1>2, <1>3, <1>4, <1>5, <1>7

\* What is erased was lost, so nothing offered goes with it.
LEMMA ErasureKeepsFiles ==
  ASSUME FilesInv, NEW c \in Calls, Erase(c)
  PROVE FilesInv'
<1> DEFINE f == calls[c].file
<1> USE PrivateFilesAssumption DEF FilesInv
<1>1. /\ f \in Files /\ calls[c].step = "erase" /\ Lost(f)
      /\ calls' = [calls EXCEPT ![c] = Idle]
      /\ UNCHANGED <<rows, links, events, refused, replaced>>
      /\ \/ store' = [store EXCEPT ![f] = Nothing] /\ UNCHANGED littered
         \/ littered' = littered \cup {f} /\ UNCHANGED store
  BY InFlight DEF Erase, At, FileOf, Ends, ErasesLost
<1>2. TypeOK'
  BY <1>1 DEF TypeOK, Steps, Idle, Call
<1>3. (Exclusive /\ Marked /\ Announced)'
  BY <1>1 DEF TypeOK, Exclusive, Announced, Marked, Idle, Call
<1>4. (ErasesLost /\ ScannedThere)'
  BY <1>1, InFlight DEF TypeOK, ErasesLost, ScannedThere, Lost, Idle, Call
<1>7. (StillOpen /\ SameBytes)'
  BY <1>1, InFlight DEF TypeOK, StillOpen, SameBytes, Idle, Call
<1>5. OfferedHasBytes'
  BY <1>1 DEF TypeOK, OfferedHasBytes, Offered, Announced, Lost
<1>6. NothingLeftBehind'
  BY <1>1 DEF TypeOK, NothingLeftBehind, Reservable, At, FileOf, Idle, Call
<1> QED
  BY <1>2, <1>3, <1>4, <1>5, <1>6, <1>7

LEMMA FilesStep == FilesInv /\ [Next]_vars => FilesInv'
<1> SUFFICES ASSUME FilesInv, [Next]_vars PROVE FilesInv'
  OBVIOUS
<1>1. CASE UNCHANGED vars
  BY <1>1 DEF FilesInv, vars, history, TypeOK, Exclusive, Announced, Marked, Lost, ErasesLost,
       ScannedThere, StillOpen, SameBytes, OfferedHasBytes, Offered, NothingLeftBehind, Reservable, At, FileOf
<1>2. ASSUME NEW f \in Files, Browser(f) PROVE FilesInv'
  BY <1>2, BrowserKeepsFiles
<1>3. ASSUME NEW c \in Calls, Completion(c) \/ Removal(c) \/ Erase(c) \/ Abort(c) PROVE FilesInv'
  BY <1>3, ReadingKeepsFiles, DeletionKeepsFiles, ConfirmationKeepsFiles, RejectionKeepsFiles,
     ErasureKeepsFiles DEF Completion, Removal
<1> QED
  BY <1>1, <1>2, <1>3 DEF Next

\* A row that is deleted stays so: nothing writes deletedAt back.
LEMMA DeletedStep == FilesInv /\ [Next]_vars => \A f \in Files : rows[f].deleted => rows'[f].deleted
<1> SUFFICES ASSUME FilesInv, [Next]_vars, NEW f \in Files, rows[f].deleted
             PROVE rows'[f].deleted
  OBVIOUS
<1>0. TypeOK /\ rows[f] # NoRow
  BY DEF FilesInv, NoRow
<1>1. CASE UNCHANGED vars
  BY <1>1 DEF vars
<1>2. ASSUME NEW g \in Files, Browser(g) PROVE rows'[f].deleted
  BY <1>0, <1>2 DEF Browser, Reserve, Upload, LinkLapses, ReservationLapses, TypeOK, Row
<1>3. ASSUME NEW c \in Calls, Completion(c) PROVE rows'[f].deleted
  <2>1. CASE ExpireWrite(c) \/ ConfirmWrite(c) \/ RejectWrite(c)
    <3> DEFINE g == calls[c].file
    <3>1. rows \in [Files -> Row] /\ g \in Files
      BY <1>0, <2>1, InFlight DEF ExpireWrite, ConfirmWrite, RejectWrite, At, TypeOK
    <3>2. CASE ExpireWrite(c)
      BY <3>1, <3>2, Deleted DEF ExpireWrite, FileOf
    <3>3. CASE ConfirmWrite(c)
      <4>1. PICK v \in {"PASSED", "REJECTED"}, t \in {"AVAILABLE", "REJECTED"} :
               rows' = [rows EXCEPT ![g].scan = v, ![g].sha256 = calls[c].got, ![g].reserved = FALSE,
                                    ![g].expired = FALSE, ![g].status = t]
        BY <3>3, Zenon DEF ConfirmWrite, FileOf, Verdict
      <4>2. calls[c].got \in Contents
        BY <1>0, <3>3, InFlight DEF ConfirmWrite, At
      <4>3. rows'[g].deleted = rows[g].deleted /\ \A h \in Files : h # g => rows'[h] = rows[h]
        <5> HIDE DEF g
        <5> QED BY <3>1, <4>1, <4>2, Confirmed, Zenon
      <4> QED BY <3>1, <4>3
    <3>4. CASE RejectWrite(c)
      BY <3>1, <3>4, RowRejected DEF RejectWrite, FileOf
    <3> QED BY <2>1, <3>2, <3>3, <3>4
  <2>2. CASE (\E g \in Files : Complete(c, g)) \/ Head(c) \/ Read(c) \/ ConfirmRead(c) \/ RejectRead(c)
    BY <2>2 DEF Complete, Head, Read, ConfirmRead, RejectRead
  <2> QED BY <1>3, <2>1, <2>2 DEF Completion
<1>4. ASSUME NEW c \in Calls, Removal(c) \/ Erase(c) \/ Abort(c) PROVE rows'[f].deleted
  BY <1>0, <1>4 DEF Removal, RemoveRead, SweepRead, RemoveWrite, SweepWrite, Erase, Abort, TypeOK, Row
<1> QED
  BY <1>1, <1>2, <1>3, <1>4 DEF Next

-----------------------------------------------------------------------------
LEMMA FilesAlways == Spec => []FilesInv
<1> QED
  BY InitFiles, FilesStep, PTL DEF Spec

\* The rows, the calls and the histories keep their types, and a call in flight has a row.
THEOREM FilesTypeCorrect == Spec => []TypeOK
<1>1. FilesInv => TypeOK
  BY DEF FilesInv
<1> QED
  BY <1>1, FilesAlways, PTL

\* Whatever is offered for download has its bytes in the store, unless it was refused by one
\* completion while another confirmed it.
THEOREM OfferIsBacked == Spec => []OfferedHasBytes
<1>1. FilesInv => OfferedHasBytes
  BY DEF FilesInv
<1> QED
  BY <1>1, FilesAlways, PTL

\* A file is announced once, and offered only once announced and after a scan it passed; the bytes
\* offered are those scanned, unless the link was used again after a completion had read them.
THEOREM AnnouncedAtMostOnce == Spec => []AnnouncedOnce
<1>1. FilesInv => AnnouncedOnce
  BY DEF FilesInv, Announced, AnnouncedOnce, Offered, SameBytes
<1> QED
  BY <1>1, FilesAlways, PTL

\* The bytes of a closed file are about to be deleted, or a failure that left them is on record.
THEOREM NoBytesLeftBehind == Spec => []NothingLeftBehind
<1>1. FilesInv => NothingLeftBehind
  BY DEF FilesInv
<1> QED
  BY <1>1, FilesAlways, PTL

\* A deleted file is never offered again.
THEOREM DeletionIsFinal == Spec => DeletedStaysClosed
<1>1. FilesInv /\ [Next]_vars => [\A f \in Files : rows[f].deleted => ~Offered(f)']_vars
  BY DeletedStep DEF Offered
<1> QED
  BY <1>1, FilesAlways, PTL DEF Spec, DeletedStaysClosed
=============================================================================
