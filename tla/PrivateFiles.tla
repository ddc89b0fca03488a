---------------------------- MODULE PrivateFiles ----------------------------
(***************************************************************************)
(* The attachments of one request: rows in the database, bytes in the      *)
(* object store, and the calls that write first the one and then the       *)
(* other.                                                                  *)
(*                                                                         *)
(* A call reads, awaits the store, writes its row by id and then deletes   *)
(* the object.  Each await is a step.  A transaction that reads a row and  *)
(* then writes it is two steps, because PostgreSQL runs it READ COMMITTED  *)
(* and the write is by id alone; only the transactions that lock           *)
(* quote_requests exclude one another.  A call may die at any step.        *)
(***************************************************************************)
EXTENDS Naturals, FiniteSets

CONSTANTS
  Files,     \* upload keys of the browser: a reservation each, at most
  Calls,     \* server requests that may be in flight
  NoFile

ASSUME PrivateFilesAssumption == NoFile \notin Files

VARIABLES
  rows,     \* FileAttachment and its StorageObject, written together
  store,    \* the bytes the object store has of each file
  links,    \* files with an upload link that still works
  calls,    \* the step of each call in flight
  events,   \* the domain events FILE.AVAILABLE recorded, per file
  refused,  \* history: files that markRejected has refused
  littered, \* history: files whose bytes were left behind by a failure or sent too late
  replaced  \* history: files sent again after a completion had read their bytes

history == <<refused, littered, replaced>>
vars == <<rows, store, links, calls, events, history>>

\* As declared (two of them), of the declared size but another type, or of another size.
Sound == {"sound", "redone"}
Contents == Sound \cup {"disguised", "missized"}
Nothing == "nada"

Statuses == {"PENDING_SCAN", "AVAILABLE", "REJECTED", "DELETED"}
ScanStatuses == {"PENDING", "PASSED", "REJECTED"}

\* reserved: reservationExpiresAt is set; expired: and it is past; deleted: deletedAt is set;
\* sha256: of the bytes scanned.
NoRow == [status |-> "NINGUNO", scan |-> "PENDING", sha256 |-> Nothing, reserved |-> FALSE,
          expired |-> FALSE, deleted |-> FALSE]

Reservation == [NoRow EXCEPT !.status = "PENDING_SCAN", !.reserved = TRUE]

\* got: the bytes a completion has read and scanned, and has yet to write of.
Call(step, f) == [step |-> step, file |-> f, got |-> Nothing]
Idle == Call("libre", NoFile)

Steps == {"libre", "head", "read", "scanned", "confirm", "reject", "rejecting", "expire",
          "remove", "sweep", "erase"}

Row == [status : Statuses \cup {"NINGUNO"}, scan : ScanStatuses, sha256 : Contents \cup {Nothing},
        reserved : BOOLEAN, expired : BOOLEAN, deleted : BOOLEAN]

\* A call works on a file, and a row exists from its reservation on.
TypeOK ==
  /\ rows \in [Files -> Row]
  /\ store \in [Files -> Contents \cup {Nothing}] /\ links \subseteq Files
  /\ calls \in [Calls -> [step : Steps, file : Files \cup {NoFile}, got : Contents \cup {Nothing}]]
  /\ events \in [Files -> 0..2]
  /\ refused \subseteq Files /\ littered \subseteq Files /\ replaced \subseteq Files
  /\ \A c \in Calls : /\ calls[c].file = NoFile <=> calls[c].step = "libre"
                      /\ calls[c].step # "libre" => rows[calls[c].file] # NoRow
                      /\ calls[c].got = Nothing <=> calls[c].step \notin {"scanned", "confirm"}

At(c, step) == calls[c].step = step
FileOf(c) == calls[c].file
Goes(c, step) == calls' = [calls EXCEPT ![c].step = step]
Starts(c, f, step) == At(c, "libre") /\ calls' = [calls EXCEPT ![c] = Call(step, f)]
Ends(c) == calls' = [calls EXCEPT ![c] = Idle]

\* The call between the two halves of a transaction that locks the request.
RequestLocked == \E c \in Calls : calls[c].step \in {"confirm", "remove"}

Live(f) == rows[f] # NoRow /\ ~rows[f].deleted

-----------------------------------------------------------------------------
(* Reservation and upload                                                  *)

\* A key already used answers with its row, whatever it has become, unless it is closed.
Reservable(f) == rows[f].status \notin {"REJECTED", "DELETED"}

\* A repeated reservation gets a new link for as long as the row is not available, even
\* when the reservation has expired.
Reserve(f) ==
  /\ ~RequestLocked /\ Reservable(f)
  /\ rows' = IF rows[f] # NoRow THEN rows
             ELSE [rows EXCEPT ![f] = Reservation]
  /\ links' = IF rows[f].status = "AVAILABLE" THEN links ELSE links \cup {f}
  /\ UNCHANGED <<store, calls, events, history>>

\* The bytes are those of a scan that passed, or of one whose result is yet to be written.
Scanned(f) ==
  \/ rows[f].scan = "PASSED"
  \/ \E c \in Calls : FileOf(c) = f /\ calls[c].got # Nothing

\* The browser sends bytes, any and as often as it likes: the gateway looks at the link alone,
\* which a completion does not revoke, and they replace those there were.
Upload(f) ==
  /\ f \in links
  /\ \E bytes \in Contents : store' = [store EXCEPT ![f] = bytes]
  /\ littered' = IF Reservable(f) THEN littered ELSE littered \cup {f}
  /\ replaced' = IF Scanned(f) THEN replaced \cup {f} ELSE replaced
  /\ UNCHANGED <<rows, links, calls, events, refused>>

\* Fifteen minutes later; bytes under way by then arrive as if the link had lapsed after them.
LinkLapses(f) ==
  /\ f \in links
  /\ links' = links \ {f}
  /\ UNCHANGED <<rows, store, calls, events, history>>

ReservationLapses(f) ==
  /\ rows[f].reserved /\ ~rows[f].expired
  /\ rows' = [rows EXCEPT ![f].expired = TRUE]
  /\ UNCHANGED <<store, links, calls, events, history>>

-----------------------------------------------------------------------------
(* completePrivateFile                                                     *)

\* The row is read outside any transaction.
Complete(c, f) ==
  /\ Live(f) /\ rows[f].status = "PENDING_SCAN"
  /\ Starts(c, f, IF rows[f].expired THEN "expire" ELSE "head")
  /\ UNCHANGED <<rows, store, links, events, history>>

\* An expired reservation is deleted as it was read, without reading it again.
ExpireWrite(c) ==
  /\ At(c, "expire")
  /\ rows' = [rows EXCEPT ![FileOf(c)].status = "DELETED", ![FileOf(c)].deleted = TRUE]
  /\ Goes(c, "erase")
  /\ UNCHANGED <<store, links, events, history>>

\* No object, or one of another size, is a rejection.
Head(c) ==
  /\ At(c, "head")
  /\ Goes(c, IF store[FileOf(c)] \in {Nothing, "missized"} THEN "reject" ELSE "read")
  /\ UNCHANGED <<rows, store, links, events, history>>

\* So is a read that fails, for whatever reason.  What is read and scanned is what is there by
\* then, whatever the head said.
Read(c) ==
  /\ At(c, "read")
  /\ \/ /\ store[FileOf(c)] # Nothing
        /\ calls' = [calls EXCEPT ![c] = [step |-> "scanned", file |-> FileOf(c),
                                         got |-> store[FileOf(c)]]]
     \/ Goes(c, "reject")
  /\ UNCHANGED <<rows, store, links, events, history>>

\* A confirmation that takes the row it read at the start for the one there is.
ConfirmUnread(c) ==
  /\ At(c, "scanned") /\ ~RequestLocked
  /\ Goes(c, "confirm")
  /\ UNCHANGED <<rows, store, links, events, history>>

\* The row is read again under the request's lock.
ConfirmRead(c) ==
  /\ At(c, "scanned") /\ ~RequestLocked
  /\ IF rows[FileOf(c)].status = "PENDING_SCAN" THEN Goes(c, "confirm") ELSE Ends(c)
  /\ UNCHANGED <<rows, store, links, events, history>>

Verdict(bytes) == IF bytes \in Sound THEN "PASSED" ELSE "REJECTED"

\* What is written is the verdict on the bytes the call read, whatever is there by now.  The
\* write keeps deletedAt as it is.
ConfirmWrite(c) ==
  LET f == FileOf(c)
      verdict == Verdict(calls[c].got)
  IN /\ At(c, "confirm")
     /\ rows' = [rows EXCEPT ![f].scan = verdict, ![f].sha256 = calls[c].got,
                   ![f].reserved = FALSE, ![f].expired = FALSE,
                   ![f].status = IF verdict = "PASSED" THEN "AVAILABLE" ELSE "REJECTED"]
     /\ IF verdict = "PASSED"
        THEN events' = [events EXCEPT ![f] = @ + 1] /\ Ends(c)
        ELSE calls' = [calls EXCEPT ![c] = Call("erase", f)] /\ UNCHANGED events
     /\ UNCHANGED <<store, links, history>>

\* markRejected takes no lock; a row already deleted is left alone.
RejectRead(c) ==
  /\ At(c, "reject")
  /\ Goes(c, IF rows[FileOf(c)].status = "DELETED" THEN "erase" ELSE "rejecting")
  /\ UNCHANGED <<rows, store, links, events, history>>

RejectWrite(c) ==
  /\ At(c, "rejecting")
  /\ rows' = [rows EXCEPT ![FileOf(c)].status = "REJECTED", ![FileOf(c)].scan = "REJECTED"]
  /\ refused' = refused \cup {FileOf(c)}
  /\ Goes(c, "erase")
  /\ UNCHANGED <<store, links, events, littered, replaced>>

-----------------------------------------------------------------------------
(* deletePrivateFile and cleanupExpiredPrivateFiles                        *)

RemoveRead(c, f) ==
  /\ ~RequestLocked /\ Live(f)
  /\ Starts(c, f, "remove")
  /\ UNCHANGED <<rows, store, links, events, history>>

\* A deletion that forgets the object.
RemoveRowOnly(c) ==
  /\ At(c, "remove")
  /\ rows' = [rows EXCEPT ![FileOf(c)].status = "DELETED", ![FileOf(c)].deleted = TRUE]
  /\ Ends(c)
  /\ UNCHANGED <<store, links, events, history>>

RemoveWrite(c) ==
  /\ At(c, "remove")
  /\ rows' = [rows EXCEPT ![FileOf(c)].status = "DELETED", ![FileOf(c)].deleted = TRUE]
  /\ Goes(c, "erase")
  /\ UNCHANGED <<store, links, events, history>>

Sweepable(f) == rows[f].status = "PENDING_SCAN" /\ rows[f].expired /\ ~rows[f].deleted

\* The sweep reads each candidate again in the transaction that deletes it, without a lock.
SweepRead(c, f) ==
  /\ Sweepable(f)
  /\ Starts(c, f, "sweep")
  /\ UNCHANGED <<rows, store, links, events, history>>

\* A sweep that leaves deletedAt alone.
SweepStatusOnly(c) ==
  /\ At(c, "sweep")
  /\ rows' = [rows EXCEPT ![FileOf(c)].status = "DELETED"]
  /\ Goes(c, "erase")
  /\ UNCHANGED <<store, links, events, history>>

SweepWrite(c) ==
  /\ At(c, "sweep")
  /\ rows' = [rows EXCEPT ![FileOf(c)].status = "DELETED", ![FileOf(c)].deleted = TRUE]
  /\ Goes(c, "erase")
  /\ UNCHANGED <<store, links, events, history>>

\* Every path that closes a row ends by deleting its object; an error is swallowed.
Erase(c) ==
  /\ At(c, "erase")
  /\ \/ store' = [store EXCEPT ![FileOf(c)] = Nothing] /\ UNCHANGED littered
     \/ littered' = littered \cup {FileOf(c)} /\ UNCHANGED store
  /\ Ends(c)
  /\ UNCHANGED <<rows, links, events, refused, replaced>>

\* The process dies, or the database or the store refuses the call: what it had committed stays.
Abort(c) ==
  /\ ~At(c, "libre")
  /\ littered' = IF At(c, "erase") THEN littered \cup {FileOf(c)} ELSE littered
  /\ Ends(c)
  /\ UNCHANGED <<rows, store, links, events, refused, replaced>>

-----------------------------------------------------------------------------
Init ==
  /\ rows = [f \in Files |-> NoRow]
  /\ store = [f \in Files |-> Nothing] /\ links = {}
  /\ calls = [c \in Calls |-> Idle]
  /\ events = [f \in Files |-> 0]
  /\ refused = {} /\ littered = {} /\ replaced = {}

Browser(f) == Reserve(f) \/ Upload(f) \/ LinkLapses(f) \/ ReservationLapses(f)

Completion(c) ==
  \/ \E f \in Files : Complete(c, f)
  \/ ExpireWrite(c) \/ Head(c) \/ Read(c) \/ ConfirmRead(c) \/ ConfirmWrite(c)
  \/ RejectRead(c) \/ RejectWrite(c)

Removal(c) ==
  \/ \E f \in Files : RemoveRead(c, f) \/ SweepRead(c, f)
  \/ RemoveWrite(c) \/ SweepWrite(c)

Next ==
  \/ \E f \in Files : Browser(f)
  \/ \E c \in Calls : Completion(c) \/ Removal(c) \/ Erase(c) \/ Abort(c)

Spec == Init /\ [][Next]_vars

-----------------------------------------------------------------------------
(* getPrivateFileDownload                                                  *)

\* A download decided by the status alone, as the list's downloadAvailable is.
OfferedByStatus(f) == rows[f].status = "AVAILABLE" /\ rows[f].scan = "PASSED"

Offered(f) == rows[f].status = "AVAILABLE" /\ rows[f].scan = "PASSED" /\ ~rows[f].deleted

\* A file somebody can download is there to be downloaded: whatever deletions, expirations,
\* sweeps and completions overlap, only a completion that refused the file while another was
\* confirming it can leave an offer without bytes.
OfferedHasBytes == \A f \in Files : Offered(f) => store[f] # Nothing \/ f \in refused

\* However many completions of a file overlap, the team is told of it once, and a download is only
\* ever offered of a file that was announced and whose scan passed.  The bytes in the store are
\* those scanned, unless the upload link was used again after a completion had read them, which
\* nothing prevents (or they are gone, as OfferedHasBytes says).
AnnouncedOnce ==
  \A f \in Files : /\ events[f] <= 1
                   /\ Offered(f) => /\ events[f] = 1 /\ rows[f].sha256 \in Sound
                                    /\ store[f] \in {rows[f].sha256, Nothing} \/ f \in replaced

\* A deletion is for ever: once a row is deleted no completion still in flight makes it
\* downloadable again, even though it may write AVAILABLE over DELETED.
DeletedStaysClosed == [][\A f \in Files : rows[f].deleted => ~Offered(f)']_vars

\* A closed row keeps no bytes in the store: each has a call left that will delete them, unless a
\* deletion failed, its call died or the browser sent them afterwards.
NothingLeftBehind ==
  \A f \in Files : store[f] # Nothing => \/ Reservable(f) \/ f \in littered
                                          \/ \E c \in Calls : FileOf(c) = f /\ At(c, "erase")
=============================================================================
