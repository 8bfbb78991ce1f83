--------------------------- MODULE JournalArchive ---------------------------
(***************************************************************************)
(* The journal of changes (poms/history) and its way into files.           *)
(*                                                                         *)
(* Two jobs take records out of the table after writing them to a file:    *)
(*   - the export, run every morning for days at least Age days old, or by *)
(*     a user up to a day of his choice: one file per day, day after day;  *)
(*   - clear_old_journal_records, run by hand: a file per chunk.           *)
(* Neither locks anything: each looks, reads, writes the file and deletes  *)
(* in separate statements, and the storage overwrites a file of the same   *)
(* name in two steps, by deleting it first (FinmarsStorageMixin).          *)
(***************************************************************************)
EXTENDS Naturals, FiniteSets

CONSTANTS
    LastDay,   \* days that are modelled (bound)
    PerDay,    \* records written per day (bound)
    Runner,    \* workers that may run an export at the same time
    Beat,      \* those that run it for Celery Beat, the others for users
    Age,       \* the 90 days of the daily export
    Ttl,       \* the days of the journal storage policy
    ChunkSize, \* CHUNK_SIZE of clear_old_journal_records
    Encrypts,  \* the storage encrypts: every server but a local one
    MaxFaults  \* storage errors and lost workers (bound)

ASSUME NumbersAssumption ==
    /\ LastDay \in Nat \ {0} /\ PerDay \in Nat /\ MaxFaults \in Nat
    /\ Age \in Nat \ {0} /\ Ttl \in Nat \ {0} /\ ChunkSize \in Nat \ {0}
ASSUME ChoicesAssumption == Beat \subseteq Runner /\ Encrypts \in BOOLEAN

Day == 1 .. LastDay
Record == Day \X (1 .. PerDay)

\* <<d, 0>> is the export of day d, <<d, n>> chunk n of what is older than d.
FileName == Day \X (0 .. LastDay * PerDay)

VARIABLES
    today,
    written, \* history: the records ever created
    journal, \* the table
    file,    \* file name -> records in it, {} also if there is no file
    export,  \* runner -> the progress of its export
    clear,   \* the progress of clear_old_journal_records
    cleared, \* history: records that clear_old_journal_records removed
    faults

vars == <<today, written, journal, file, export, clear, cleared, faults>>

OfDay(d) == {rec \in journal : rec[1] = d}

NoExport == [pc |-> "idle", day |-> 0, to |-> 0, read |-> {}]
NoClear == [pc |-> "idle", cutoff |-> 0, chunk |-> 0, old |-> {}, todo |-> {}]

Init ==
    /\ today = 1
    /\ written = {}
    /\ journal = {}
    /\ file = [name \in FileName |-> {}]
    /\ export = [r \in Runner |-> NoExport]
    /\ clear = NoClear
    /\ cleared = {}
    /\ faults = 0

-----------------------------------------------------------------------------
(* The world: requests create records, days pass, things fail. *)

Write(rec) ==
    /\ rec[1] = today
    /\ rec \notin written
    /\ written' = written \cup {rec}
    /\ journal' = journal \cup {rec}
    /\ UNCHANGED <<today, file, export, clear, cleared, faults>>

NextDay ==
    /\ today < LastDay
    /\ today' = today + 1
    /\ UNCHANGED <<written, journal, file, export, clear, cleared, faults>>

Fault == faults < MaxFaults /\ faults' = faults + 1

\* A storage error ends the export; a lost worker's is begun again.
ExportStops(r) ==
    /\ Fault
    /\ export[r].pc # "idle"
    /\ export' = [export EXCEPT ![r] = NoExport]
    /\ UNCHANGED <<today, written, journal, file, clear, cleared>>

ClearStops ==
    /\ Fault
    /\ clear.pc # "idle"
    /\ clear' = NoClear
    /\ UNCHANGED <<today, written, journal, file, export, cleared>>

-----------------------------------------------------------------------------
(* The export.  created_at__range counts up to the midnight that begins    *)
(* date_to, the loop then includes that day.                               *)

First(d) == OfDay(d) # {} /\ \A rec \in journal : d <= rec[1]

\* Mutant: the age is not subtracted from the current day.
ExportStartYoung(r, from, to) ==
    /\ export[r].pc = "idle"
    /\ First(from)
    /\ r \in Beat => to = today
    /\ \E rec \in journal : rec[1] < to
    /\ export' = [export EXCEPT ![r] = [pc |-> "look", day |-> from, to |-> to, read |-> {}]]
    /\ UNCHANGED <<today, written, journal, file, clear, cleared, faults>>

ExportStart(r, from, to) ==
    /\ export[r].pc = "idle"
    /\ First(from)
    /\ r \in Beat => to + Age = today
    /\ \E rec \in journal : rec[1] < to
    /\ export' = [export EXCEPT ![r] = [pc |-> "look", day |-> from, to |-> to, read |-> {}]]
    /\ UNCHANGED <<today, written, journal, file, clear, cleared, faults>>

\* Mutant: daterange goes one day too far.
NextIterationTooFar(r) ==
    export' = [export EXCEPT ![r] =
                 IF @.day > @.to THEN NoExport
                 ELSE [pc |-> "look", day |-> @.day + 1, to |-> @.to, read |-> {}]]

NextIteration(r) ==
    export' = [export EXCEPT ![r] =
                 IF @.day = @.to THEN NoExport
                 ELSE [pc |-> "look", day |-> @.day + 1, to |-> @.to, read |-> {}]]

Looked(r) == export' = [export EXCEPT ![r].pc = "read"]

ExportLook(r) ==
    /\ export[r].pc = "look"
    /\ IF OfDay(export[r].day) = {} THEN NextIteration(r) ELSE Looked(r)
    /\ UNCHANGED <<today, written, journal, file, clear, cleared, faults>>

\* Mutant: the records go before the file is written.
ExportReadAndDelete(r) ==
    /\ export[r].pc = "read"
    /\ export' = [export EXCEPT ![r].pc = "unlink", ![r].read = OfDay(export[r].day)]
    /\ journal' = journal \ OfDay(export[r].day)
    /\ UNCHANGED <<today, written, file, clear, cleared, faults>>

ExportRead(r) ==
    /\ export[r].pc = "read"
    /\ export' = [export EXCEPT ![r].pc = "unlink", ![r].read = OfDay(export[r].day)]
    /\ UNCHANGED <<today, written, journal, file, clear, cleared, faults>>

ExportUnlink(r) ==
    /\ export[r].pc = "unlink"
    /\ export' = [export EXCEPT ![r].pc = "save"]
    /\ file' = [file EXCEPT ![<<export[r].day, 0>>] = {}]
    /\ UNCHANGED <<today, written, journal, clear, cleared, faults>>

ExportSave(r) ==
    /\ export[r].pc = "save"
    /\ export' = [export EXCEPT ![r].pc = "delete"]
    /\ file' = [file EXCEPT ![<<export[r].day, 0>>] = export[r].read]
    /\ UNCHANGED <<today, written, journal, clear, cleared, faults>>

\* Mutant: the exported records stay.
ExportDeletesNothing(r) ==
    /\ export[r].pc = "delete"
    /\ NextIteration(r)
    /\ UNCHANGED <<today, written, journal, file, clear, cleared, faults>>

\* The query of the day runs again: what it finds now is deleted.
ExportDelete(r) ==
    /\ export[r].pc = "delete"
    /\ journal' = journal \ OfDay(export[r].day)
    /\ NextIteration(r)
    /\ UNCHANGED <<today, written, file, clear, cleared, faults>>

-----------------------------------------------------------------------------
(* clear_old_journal_records.  The queryset is evaluated once: chunks are  *)
(* slices of its cache, and every deletion is of all its ids.              *)

\* Of the day that the cutoff falls into, only some records are older.
ClearStart(cutoff, old) ==
    /\ clear.pc = "idle"
    /\ cutoff + Ttl = today
    /\ old # {}
    /\ old \subseteq {rec \in journal : rec[1] <= cutoff}
    /\ {rec \in journal : rec[1] < cutoff} \subseteq old
    /\ clear' = [pc |-> "unlink", cutoff |-> cutoff, chunk |-> 1, old |-> old, todo |-> old]
    /\ UNCHANGED <<today, written, journal, file, export, cleared, faults>>

ClearUnlink ==
    /\ clear.pc = "unlink"
    /\ clear' = [clear EXCEPT !.pc = "save"]
    /\ file' = [file EXCEPT ![<<clear.cutoff, clear.chunk>>] = {}]
    /\ UNCHANGED <<today, written, journal, export, cleared, faults>>

\* The next CHUNK_SIZE records, oldest first.
IsChunk(c) ==
    /\ c \subseteq clear.todo
    /\ Cardinality(c) <= ChunkSize
    /\ Cardinality(c) = ChunkSize \/ c = clear.todo
    /\ \A rec \in c, later \in clear.todo \ c : rec[1] <= later[1]

\* save_to_remote_storage leaves the temporary file at its end, where the
\* encryption begins to read: the file that it stores is empty.
ClearSave(c) ==
    /\ clear.pc = "save"
    /\ IsChunk(c)
    /\ file' = [file EXCEPT ![<<clear.cutoff, clear.chunk>>] = IF Encrypts THEN {} ELSE c]
    /\ clear' = [clear EXCEPT !.pc = "delete", !.todo = @ \ c]
    /\ UNCHANGED <<today, written, journal, export, cleared, faults>>

\* Mutant: start is not moved to the end of the chunk.
ClearNextSameChunk ==
    clear' = IF clear.todo = {} /\ clear.old = {} THEN NoClear
             ELSE [clear EXCEPT !.pc = "unlink", !.chunk = @ + 1, !.todo = clear.old]

ClearNext ==
    clear' = IF clear.todo = {} THEN NoClear
             ELSE [clear EXCEPT !.pc = "unlink", !.chunk = @ + 1]

ClearDelete ==
    /\ clear.pc = "delete"
    /\ journal' = journal \ clear.old
    /\ cleared' = cleared \cup (journal \cap clear.old)
    /\ ClearNext
    /\ UNCHANGED <<today, written, file, export, faults>>

-----------------------------------------------------------------------------
ExportRun(r) ==
    ExportLook(r) \/ ExportRead(r) \/ ExportUnlink(r) \/ ExportSave(r) \/ ExportDelete(r)

ClearRun == ClearUnlink \/ (\E c \in SUBSET clear.todo : ClearSave(c)) \/ ClearDelete

Next ==
    \/ \E rec \in Record : Write(rec)
    \/ NextDay
    \/ \E r \in Runner :
          \/ \E from, to \in Day : ExportStart(r, from, to)
          \/ ExportRun(r)
          \/ ExportStops(r)
    \/ \E cutoff \in Day : \E old \in SUBSET journal : ClearStart(cutoff, old)
    \/ ClearRun
    \/ ClearStops

\* Days pass, Beat starts the export every day, workers go on with their jobs.
Fairness ==
    /\ WF_vars(NextDay)
    /\ \A r \in Beat :
          /\ WF_vars(\E from, to \in Day : ExportStart(r, from, to))
          /\ WF_vars(ExportRun(r))

Spec == Init /\ [][Next]_vars /\ Fairness

-----------------------------------------------------------------------------
(* Properties. *)

(***************************************************************************)
(* Type invariant: the jobs stay within the days, files and records there  *)
(* are.                                                                    *)
(***************************************************************************)
TypeOK ==
    /\ today \in Day
    /\ written \subseteq Record
    /\ journal \subseteq written
    /\ file \in [FileName -> SUBSET Record]
    /\ export \in [Runner ->
          [pc : {"idle", "look", "read", "unlink", "save", "delete"},
           day : 0 .. LastDay, to : 0 .. LastDay, read : SUBSET Record]]
    /\ clear \in [pc : {"idle", "unlink", "save", "delete"}, cutoff : 0 .. LastDay,
                  chunk : 0 .. LastDay * PerDay, old : SUBSET Record, todo : SUBSET Record]
    /\ cleared \subseteq Record
    /\ faults \in 0 .. MaxFaults

Filed == UNION {file[name] : name \in FileName}

(***************************************************************************)
(* The export loses no record: each is in the table or in a file, unless   *)
(* clear_old_journal_records removed it.  It must hold through storage     *)
(* errors and restarts between any two steps, the rewriting of a day's     *)
(* file, and a clearing of the same days in between.                       *)
(***************************************************************************)
ExportLosesNothing == written \subseteq journal \cup Filed \cup cleared

Promise == INSTANCE JournalPromise WITH
    Shortest <- IF Age < Ttl THEN Age ELSE Ttl,
    kept <- journal,
    held <- journal \cup Filed \cup cleared

(***************************************************************************)
(* The two jobs, the storage and the faults implement JournalPromise: no   *)
(* step, the deletion of the file that is to be replaced included, takes   *)
(* away the last copy of a record, none brings a record back into the      *)
(* table, and records leave the table only when a policy lets them go.     *)
(* Those that clear_old_journal_records removed count as held.             *)
(***************************************************************************)
KeepsPromise == Promise!Spec

(***************************************************************************)
(* Neither job takes a record that its policy keeps: those of the days     *)
(* after the younger of the two cutoffs are in the table, although a job   *)
(* may go on for days and deletes by day or from a stale list.             *)
(***************************************************************************)
RecentKept ==
    \A rec \in written :
        rec[1] + Age > today /\ rec[1] + Ttl > today => rec \in journal

(***************************************************************************)
(* The daily export keeps up: in the end no record older than its cutoff   *)
(* is in the table.  The records of the cutoff day itself may remain.      *)
(***************************************************************************)
OldLeave == <>[](\A rec \in journal : rec[1] + Age >= LastDay)

(***************************************************************************)
(* "Remove historical records older than ttl days, and save them into a    *)
(* file" (clear_old_journal_records): when it has ended, what it removed   *)
(* is in a file.  The code violates it: the stored file is empty.          *)
(***************************************************************************)
ClearedAreFiled == clear.pc = "idle" => cleared \subseteq Filed
=============================================================================
