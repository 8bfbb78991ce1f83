------------------------- MODULE TransactionImport -------------------------
(***************************************************************************)
(* The transaction import (poms/transaction_import): a Celery task takes   *)
(* the rows of a file one by one and books each with the scenarios that    *)
(* its rule value selects.  The booking itself is TransactionBooking, with *)
(* API requests beside it.                                                 *)
(*                                                                         *)
(* The result of a row (status of the item) lives in the process only; the *)
(* bookings it stands for are committed statement by statement.  A worker  *)
(* that is lost before the message is acknowledged leaves them behind, and *)
(* the next delivery starts with the first row again.                      *)
(***************************************************************************)
EXTENDS TransactionBooking, Sequences

CONSTANTS
    Rows,            \* number of rows of the file
    Files,           \* the files that may be imported: see FileOK
    ImportReactions, \* book_uniqueness_settings of the schemes
    MaxFaults        \* lost workers and children (bound)

Line == 1 .. Rows

\* What a row asks for: the scenarios to book, in order.
Booking == [code : Code \cup {NoCode}, kind : {"plain", "procedure"}]

FileOK(file) ==
    /\ DOMAIN file = Line
    /\ \A r \in Line : /\ file[r].kind \in {"filtered", "matched", "default"}
                       /\ file[r].bookings \in Seq(Booking)
                       /\ file[r].kind = "default" => Len(file[r].bookings) = 1

ASSUME FilesAssumption == Rows \in Nat /\ \A file \in Files : FileOK(file)
ASSUME ImportAssumption == ImportReactions \subseteq Reaction /\ MaxFaults \in Nat

VARIABLES
    file,     \* the file of this import
    settings, \* the uniqueness reaction, one for all its scenarios
    job,      \* the task: queued, running, ended or lost
    line,     \* the row that is processed
    phase,    \* where in the row: row, book, booking, onerror, errbooking
    next,     \* the scenario that is booked next
    status,   \* row -> status of its item
    faults,   \* faults so far
    broken    \* history: rows whose booking failed in this delivery

importVars == <<file, settings, job, line, phase, next, status, faults, broken>>
vars == <<bookingVars, importVars>>

Init ==
    /\ BookingInit
    /\ file \in Files
    /\ settings \in ImportReactions
    /\ job = "queued"
    /\ line = 1
    /\ phase = "row"
    /\ next = 1
    /\ status = [r \in Line |-> "init"]
    /\ faults = 0
    /\ broken = {}

-----------------------------------------------------------------------------
(* The rows. *)

Working(where) == job = "running" /\ line \in Line /\ phase = where

\* A delivery of the message starts with fresh items.
ImportBegins ==
    /\ job = "queued"
    /\ job' = "running"
    /\ line' = 1
    /\ phase' = "row"
    /\ next' = 1
    /\ status' = [r \in Line |-> "init"]
    /\ broken' = {}
    /\ UNCHANGED <<bookingVars, file, settings, faults>>

RowBegins ==
    /\ Working("row")
    /\ CASE file[line].kind = "filtered" ->
              /\ status' = [status EXCEPT ![line] = "skip"]
              /\ line' = line + 1
              /\ UNCHANGED phase
         [] file[line].kind = "matched" ->
              /\ phase' = "book"
              /\ UNCHANGED <<status, line>>
         [] file[line].kind = "default" ->
              /\ status' = [status EXCEPT ![line] = "skip"]
              /\ phase' = "book"
              /\ UNCHANGED line
    /\ next' = 1
    /\ UNCHANGED <<bookingVars, file, settings, job, faults, broken>>

\* The filter expression raises: nothing of the row is booked.
RowFails ==
    /\ Working("row")
    /\ status' = [status EXCEPT ![line] = "error"]
    /\ broken' = broken \cup {line}
    /\ line' = line + 1
    /\ UNCHANGED <<bookingVars, file, settings, job, phase, next, faults>>

\* Mutant: a row in error is booked all the same.
RefusedNever(s) == FALSE

\* book: "if item.status == error" comes before anything else.
Refused(s) == s = "error"

\* Mutant: a failed scenario is booked once more.
AfterFailureRetries ==
    /\ IF file[line].kind = "matched" THEN phase' = "book" ELSE phase' = "onerror"
    /\ UNCHANGED next

\* The exception of book: the error scenario is tried for a selected scenario.
AfterFailure ==
    IF file[line].kind = "matched"
    THEN phase' = "onerror" /\ UNCHANGED next
    ELSE phase' = "book" /\ next' = next + 1

ProcessStarts(booking, where) ==
    /\ proc' = [proc EXCEPT ![Importer] =
                  [IdleProc EXCEPT !.pc = "schedules", !.code = booking.code,
                                   !.kind = booking.kind, !.reaction = settings]]
    /\ stale' = [stale EXCEPT ![Importer] = FALSE]
    /\ phase' = where
    /\ UNCHANGED <<trn, sequence, schedules, views, twinned, crowded, next, status, broken>>

\* book, up to the process: an item in error, a field that cannot be computed.
BookRefused ==
    /\ Working("book")
    /\ next <= Len(file[line].bookings)
    /\ Refused(status[line])
    /\ AfterFailure
    /\ UNCHANGED <<bookingVars, file, settings, job, line, status, faults, broken>>

FieldsFail ==
    /\ Working("book")
    /\ next <= Len(file[line].bookings)
    /\ ~Refused(status[line])
    /\ status' = [status EXCEPT ![line] = "error"]
    /\ broken' = broken \cup {line}
    /\ AfterFailure
    /\ UNCHANGED <<bookingVars, file, settings, job, line, faults>>

Book ==
    /\ Working("book")
    /\ next <= Len(file[line].bookings)
    /\ ~Refused(status[line])
    /\ ProcessStarts(file[line].bookings[next], "booking")
    /\ UNCHANGED <<file, settings, job, line, faults>>

\* Mutant: the item gets the words of the process.
StatusOfRaw(how) == how

\* The rest of book: the item gets the result of the process.
StatusOf(how) == CASE how = "booked" -> "success" [] how = "skip" -> "skip" [] OTHER -> "error"

BookEnds ==
    LET how == proc[Importer].unique IN
    /\ job = "running"
    /\ phase \in {"booking", "errbooking"}
    /\ proc[Importer].pc = "over"
    /\ status' = [status EXCEPT ![line] = StatusOf(how)]
    /\ broken' = IF how = "failed" THEN broken \cup {line} ELSE broken
    /\ IF how = "failed" /\ phase = "booking"
       THEN AfterFailure
       ELSE phase' = "book" /\ next' = next + 1
    /\ proc' = [proc EXCEPT ![Importer] = IdleProc]
    /\ UNCHANGED <<trn, sequence, schedules, views, stale, twinned, crowded,
                   file, settings, job, line, faults>>

\* The error scenario is booked by the same method: the item is in error.
OnError ==
    /\ Working("onerror")
    /\ IF Refused(status[line])
       THEN /\ phase' = "book"
            /\ next' = next + 1
            /\ UNCHANGED <<bookingVars, status, broken>>
       ELSE ProcessStarts([code |-> NoCode, kind |-> "plain"], "errbooking")
    /\ UNCHANGED <<file, settings, job, line, faults>>

RowEnds ==
    /\ Working("book")
    /\ next > Len(file[line].bookings)
    /\ line' = line + 1
    /\ phase' = "row"
    /\ UNCHANGED <<bookingVars, file, settings, job, next, status, faults, broken>>

\* The result is reported and the message acknowledged.
ImportEnds ==
    /\ job = "running"
    /\ line > Rows
    /\ job' = "ended"
    /\ UNCHANGED <<bookingVars, file, settings, line, phase, next, status, faults, broken>>

-----------------------------------------------------------------------------
(* Faults: what is committed stays. *)

Stopped ==
    /\ job = "running"
    /\ faults < MaxFaults
    /\ faults' = faults + 1
    /\ proc' = [proc EXCEPT ![Importer] = IdleProc]
    /\ UNCHANGED <<trn, sequence, schedules, views, stale, twinned, crowded,
                   file, settings, line, phase, next, status, broken>>

\* The worker is lost: the message was not acknowledged and comes again.
LoseWorker == Stopped /\ job' = "queued"

\* Only the child is lost: the message is acknowledged.
KillChild == Stopped /\ job' = "lost"

ImportStep ==
    \/ ImportBegins \/ RowBegins \/ RowFails
    \/ BookRefused \/ FieldsFail \/ Book \/ BookEnds \/ OnError
    \/ RowEnds \/ ImportEnds
    \/ ImporterStep /\ UNCHANGED importVars

Next ==
    \/ ImportStep
    \/ LoseWorker
    \/ KillChild
    \/ \E v \in Viewer : ViewStep(v) /\ UNCHANGED importVars

\* The worker goes on; users need not do anything.
Spec == Init /\ [][Next]_vars /\ WF_vars(ImportStep)

-----------------------------------------------------------------------------
(* Properties. *)

Proc == [pc : {"idle", "loaded", "ready", "schedules", "write", "look", "drop", "check",
               "number", "insert", "base", "finish", "over"},
         mode : {"book", "rebook", "delete"},
         code : Code \cup {NoCode},
         reaction : Reaction,
         kind : {"plain", "pending", "procedure"},
         unique : {"unset", "skip", "create", "update", "without", "overwrite", "raise",
                   "booked", "failed"},
         errors : BOOLEAN,
         num : Number \cup {NoNum},
         exist : SUBSET Number,
         dead : SUBSET Number,
         copy : Row \cup {NoRow}]

\* Types: an item has one of the words of its own, a process never those of
\* another phase.
TypeOK ==
    /\ trn \in [Number -> Row \cup {NoRow}]
    /\ sequence \in 0 .. MaxNum
    /\ schedules \in Nat
    /\ proc \in [Booker -> Proc]
    /\ views \in 0 .. MaxViews
    /\ stale \in [Booker -> BOOLEAN]
    /\ twinned \subseteq Code
    /\ crowded \in BOOLEAN
    /\ file \in Files
    /\ settings \in ImportReactions
    /\ job \in {"queued", "running", "ended", "lost"}
    /\ line \in 1 .. Rows + 1
    /\ phase \in {"row", "book", "booking", "onerror", "errbooking"}
    /\ next \in Nat \ {0}
    /\ status \in [Line -> {"init", "skip", "success", "error"}]
    /\ faults \in 0 .. MaxFaults
    /\ broken \subseteq Line

\* Two live rows with one unique code come from bookings that overlapped: a
\* booker that nobody interrupted between its count and its save makes none,
\* whatever was left behind by failed bookings and lost workers.
TwinsNeedOverlap == \A c \in Code : Cardinality(LiveOwners(trn, c)) > 1 => c \in twinned

(***************************************************************************)
(* A schedule action that clears before it writes leaves one schedule,     *)
(* however many rows of the file, rebookings and lost workers run it: also *)
(* rows that are then skipped or refused do.  Two that overlap may leave   *)
(* two.                                                                    *)
(***************************************************************************)
OneSchedule ==
    ScheduleReaction \in {"clear_write", "clear_write_or_skip", "clear"} /\ ~crowded
        => schedules <= 1

(***************************************************************************)
(* Within one delivery an item in error stays in error: neither its other  *)
(* scenarios nor the error scenario, which is refused for the very error   *)
(* that called it, turn it into a success.                                 *)
(***************************************************************************)
ErrorSticks ==
    [][\A r \in Line : status[r] = "error" /\ job = "running" /\ job' = "running"
          => status'[r] = "error"]_vars

Complete(row, c) == row # NoRow /\ ~row.deleted /\ row.code = c /\ row.base = "full"

(***************************************************************************)
(* A booking that is reported as a success and that nobody interfered with *)
(* since it last touched the tables leaves a live row with its code and    *)
(* all of its base transactions.                                           *)
(***************************************************************************)
SuccessIsBooked ==
    [][LET p == proc[Importer] IN
       (p.pc = "finish" /\ proc'[Importer].pc = "over" /\ proc'[Importer].unique = "booked"
          /\ ~stale[Importer]) => Complete(trn'[p.num], WrittenCode(p))]_vars

(***************************************************************************)
(* An import that overwrites and ends, with no requests beside it, leaves  *)
(* one complete row for each code whose rows did not fail, although lost   *)
(* workers left incomplete rows before: the next delivery replaces them.   *)
(***************************************************************************)
OverwriteHeals ==
    (job = "ended" /\ settings = "overwrite" /\ views = 0)
        => \A r \in Line \ broken : \A i \in 1 .. Len(file[r].bookings) :
              LET c == file[r].bookings[i].code IN
              (/\ file[r].kind # "filtered"
               /\ \A q \in broken : \A j \in 1 .. Len(file[q].bookings) :
                     file[q].bookings[j].code # c)
                 => /\ Cardinality(LiveOwners(trn, c)) = 1
                    /\ \A n \in LiveOwners(trn, c) : Complete(trn[n], c)

(***************************************************************************)
(* An import that was sent ends, with every row, scenario and error        *)
(* scenario tried at most once per delivery, or its child is lost.         *)
(***************************************************************************)
Finishes == job = "queued" ~> job \in {"ended", "lost"}

\* The row that the process has booked and may still give up.
InHand(n) == proc[Importer].pc = "finish" /\ proc[Importer].num = n

Stands(n) == Live(trn, n) /\ trn[n].base = "full" /\ ~InHand(n)

Booked == {<<n, trn[n].code>> : n \in {m \in Number : Stands(m)}}

Promise == INSTANCE BookingPromise WITH booked <- Booked

(***************************************************************************)
(* An import, until the first request beside it: whatever deliveries were  *)
(* lost, complete transactions appear one by one, each with a code of its  *)
(* own, and only a scheme that overwrites takes one away, for its code.    *)
(***************************************************************************)
KeepsPromise == Promise!Init /\ [][views' = 0 => Promise!Next]_(Promise!vars)
=============================================================================
