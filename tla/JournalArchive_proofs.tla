------------------------ MODULE JournalArchive_proofs ------------------------
(***************************************************************************)
(* Proofs about JournalArchive: for one exporting worker that Celery Beat  *)
(* starts, no record is lost, none leaves the table early, and the archive *)
(* implements JournalPromise; for any number of exports, its types.        *)
(***************************************************************************)
EXTENDS JournalArchive, FiniteSetTheorems, TLAPS

\* The daily export runs alone: a second one may replace its file by an empty
\* one, see the README.
OneDailyExport ==
    /\ Runner \subseteq Beat
    /\ \A r, s \in Runner : r = s

DayFile(d) == file[<<d, 0>>]

\* What the deletion of a day's file or records cannot take away.
Elsewhere == journal \cup cleared

ExportRecord ==
    [pc : {"idle", "look", "read", "unlink", "save", "delete"},
     day : Nat, to : Nat, read : SUBSET written]

ClearRecord ==
    [pc : {"idle", "unlink", "save", "delete"},
     cutoff : Nat, chunk : Nat, old : SUBSET written, todo : SUBSET written]

WellFormed ==
    /\ today \in Day
    /\ written \subseteq Record
    /\ journal \subseteq written
    /\ cleared \subseteq written
    /\ file \in [FileName -> SUBSET written]
    /\ export \in [Runner -> ExportRecord]
    /\ clear \in ClearRecord

\* An export works on days that its policy releases, a clearing on such records.
WorksOnOld ==
    /\ \A r \in Runner : export[r].pc # "idle" =>
          /\ export[r].day \in Day
          /\ export[r].day <= export[r].to
          /\ export[r].to + Age <= today
    /\ clear.pc # "idle" =>
          /\ clear.chunk > 0
          /\ clear.todo \subseteq clear.old
          /\ \A rec \in clear.old : rec[1] + Ttl <= today

\* What has left the table was old enough.
LeftOld ==
    \A rec \in written \ journal : rec[1] + Age <= today \/ rec[1] + Ttl <= today

\* A record is elsewhere or in the file of its own day.
Recorded == \A rec \in written : rec \in Elsewhere \cup DayFile(rec[1])

\* A day's file holds records of the day.  It is not needed, or the day is
\* over, has no records left and will not be exported again.
DayFiles ==
    \A d \in Day :
        /\ \A rec \in DayFile(d) : rec[1] = d
        /\ \/ DayFile(d) \subseteq Elsewhere
           \/ /\ OfDay(d) = {}
              /\ d < today
              /\ \A r \in Runner : export[r].day = d => export[r].pc \in {"idle", "look"}

\* What an export holds, or has saved, covers what it is about to delete.
CopyCovers ==
    \A r \in Runner :
        /\ export[r].pc \in {"unlink", "save"} =>
              /\ OfDay(export[r].day) \subseteq export[r].read
              /\ export[r].read \subseteq Elsewhere
              /\ \A rec \in export[r].read : rec[1] = export[r].day
        /\ export[r].pc = "delete" => OfDay(export[r].day) \subseteq DayFile(export[r].day)

IInv == WellFormed /\ WorksOnOld /\ LeftOld /\ Recorded /\ DayFiles /\ CopyCovers

-----------------------------------------------------------------------------
(* Files. *)

LEMMA DayFileName == \A d \in Day : <<d, 0>> \in FileName
<1>1. LastDay * PerDay \in Nat
    BY NumbersAssumption
<1>2. QED
    BY <1>1 DEF FileName

\* Writing the file of a day changes no other day's.
LEMMA DayFileChanges ==
    ASSUME WellFormed, NEW day \in Day, NEW recs \in SUBSET written,
           file' = [file EXCEPT ![<<day, 0>>] = recs]
    PROVE  /\ file' \in [FileName -> SUBSET written]
           /\ \A d \in Day : DayFile(d)' = IF d = day THEN recs ELSE DayFile(d)
<1>1. file \in [FileName -> SUBSET written]
    BY DEF WellFormed
<1>2. file' \in [FileName -> SUBSET written]
    BY <1>1
<1>3. ASSUME NEW d \in Day
      PROVE  file'[<<d, 0>>] = IF d = day THEN recs ELSE file[<<d, 0>>]
    BY <1>1, DayFileName
<1>4. QED
    BY <1>2, <1>3 DEF DayFile

\* Writing the file of a chunk changes no day's.
LEMMA ChunkFileChanges ==
    ASSUME WellFormed, NEW cutoff, NEW chunk \in Nat \ {0}, NEW recs \in SUBSET written,
           file' = [file EXCEPT ![<<cutoff, chunk>>] = recs]
    PROVE  /\ file' \in [FileName -> SUBSET written]
           /\ \A d \in Day : DayFile(d)' = DayFile(d)
<1>1. file \in [FileName -> SUBSET written]
    BY DEF WellFormed
<1>2. file' \in [FileName -> SUBSET written]
    BY <1>1
<1>3. ASSUME NEW d \in Day
      PROVE  file'[<<d, 0>>] = file[<<d, 0>>]
    BY <1>1, DayFileName
<1>4. QED
    BY <1>2, <1>3 DEF DayFile

-----------------------------------------------------------------------------
(* One lemma per action. *)

LEMMA InitInvariant == Init => IInv
<1> SUFFICES ASSUME Init PROVE IInv
    OBVIOUS
<1> USE NumbersAssumption DEF Init
<1>1. WellFormed
    BY DEF WellFormed, ExportRecord, ClearRecord, NoExport, NoClear, Day
<1>2. WorksOnOld
    BY DEF WorksOnOld, NoExport, NoClear
<1>3. LeftOld /\ Recorded
    BY DEF LeftOld, Recorded
<1>4. DayFiles
    BY DayFileName DEF DayFiles, DayFile, Elsewhere
<1>5. CopyCovers
    BY DEF CopyCovers, NoExport
<1>6. QED
    BY <1>1, <1>2, <1>3, <1>4, <1>5 DEF IInv

LEMMA WriteStep ==
    ASSUME IInv, NEW rec \in Record, Write(rec)
    PROVE  IInv'
<1> USE DEF Write
<1>1. WellFormed'
    BY DEF IInv, WellFormed, ExportRecord, ClearRecord
<1>2. WorksOnOld'
    BY DEF IInv, WorksOnOld
<1>3. LeftOld'
    BY DEF IInv, LeftOld
<1>4. Recorded'
    BY DEF IInv, Recorded, Elsewhere, DayFile
<1>5. \A d \in Day : d < today => OfDay(d)' = OfDay(d)
    BY DEF OfDay, IInv, WellFormed, Day
<1>6. DayFiles'
    BY <1>5 DEF IInv, DayFiles, DayFile, Elsewhere
<1>7. CopyCovers'
  <2>1. \A r \in Runner : export[r].pc # "idle" => OfDay(export[r].day)' = OfDay(export[r].day)
      BY <1>5, NumbersAssumption DEF IInv, WorksOnOld, WellFormed, Day, ExportRecord
  <2>2. QED
      BY <2>1 DEF IInv, CopyCovers, Elsewhere, DayFile
<1>8. QED
    BY <1>1, <1>2, <1>3, <1>4, <1>6, <1>7 DEF IInv

LEMMA NextDayStep ==
    ASSUME IInv, NextDay
    PROVE  IInv'
<1> USE NumbersAssumption DEF NextDay
<1>1. WellFormed'
    BY DEF IInv, WellFormed, ExportRecord, ClearRecord, Day
<1>2. WorksOnOld'
    BY DEF IInv, WorksOnOld, WellFormed, ExportRecord, ClearRecord, Day, Record
<1>3. LeftOld'
    BY DEF IInv, LeftOld, WellFormed, Day, Record
<1>4. Recorded'
    BY DEF IInv, Recorded, Elsewhere, DayFile
<1>5. DayFiles'
    BY DEF IInv, DayFiles, DayFile, Elsewhere, OfDay, WellFormed, Day
<1>6. CopyCovers'
    BY DEF IInv, CopyCovers, Elsewhere, DayFile, OfDay
<1>7. QED
    BY <1>1, <1>2, <1>3, <1>4, <1>5, <1>6 DEF IInv

LEMMA StopStep ==
    ASSUME IInv, ClearStops \/ \E r \in Runner : ExportStops(r)
    PROVE  IInv'
<1>1. CASE ClearStops
  <2> USE <1>1 DEF ClearStops
  <2>1. WellFormed' /\ WorksOnOld'
      BY DEF IInv, WellFormed, ExportRecord, ClearRecord, WorksOnOld, NoClear
  <2>2. LeftOld' /\ Recorded' /\ CopyCovers'
      BY DEF IInv, LeftOld, Recorded, CopyCovers, Elsewhere, DayFile, OfDay
  <2>3. DayFiles'
      BY DEF IInv, DayFiles, Elsewhere, DayFile, OfDay
  <2>4. QED
      BY <2>1, <2>2, <2>3 DEF IInv
<1>2. ASSUME NEW r \in Runner, ExportStops(r)
      PROVE  IInv'
  <2> USE <1>2 DEF ExportStops
  <2>1. WellFormed'
      BY DEF IInv, WellFormed, ExportRecord, ClearRecord, NoExport
  <2>2. WorksOnOld'
      BY DEF IInv, WorksOnOld, NoExport, WellFormed, ExportRecord
  <2>3. LeftOld' /\ Recorded'
      BY DEF IInv, LeftOld, Recorded, Elsewhere, DayFile
  <2>4. DayFiles'
      BY DEF IInv, DayFiles, Elsewhere, DayFile, OfDay, NoExport, WellFormed, ExportRecord
  <2>5. CopyCovers'
      BY DEF IInv, CopyCovers, Elsewhere, DayFile, OfDay, NoExport, WellFormed, ExportRecord
  <2>6. QED
      BY <2>1, <2>2, <2>3, <2>4, <2>5 DEF IInv
<1>3. QED
    BY <1>1, <1>2

LEMMA ExportStartStep ==
    ASSUME IInv, OneDailyExport, NEW r \in Runner, NEW from \in Day, NEW to \in Day,
           ExportStart(r, from, to)
    PROVE  IInv'
<1> USE NumbersAssumption DEF ExportStart
<1>1. from <= to /\ to + Age <= today
    BY DEF First, OneDailyExport, IInv, WellFormed, Day, Record
<1>2. WellFormed'
    BY DEF IInv, WellFormed, ExportRecord, ClearRecord, Day
<1>3. WorksOnOld'
  <2>1. \A s \in Runner :
           \/ export'[s] = export[s]
           \/ export'[s].day = from /\ export'[s].to = to
      BY DEF IInv, WellFormed
  <2>2. QED
      BY <1>1, <2>1 DEF IInv, WorksOnOld
<1>4. LeftOld' /\ Recorded'
    BY DEF IInv, LeftOld, Recorded, Elsewhere, DayFile
<1>5. DayFiles'
    BY DEF IInv, DayFiles, Elsewhere, DayFile, OfDay, WellFormed, ExportRecord
<1>6. CopyCovers'
    BY DEF IInv, CopyCovers, Elsewhere, DayFile, OfDay, WellFormed, ExportRecord
<1>7. QED
    BY <1>2, <1>3, <1>4, <1>5, <1>6 DEF IInv

\* The next day of an export, or its end.
LEMMA IterationType ==
    ASSUME IInv, NEW r \in Runner, export[r].pc # "idle", NextIteration(r)
    PROVE  /\ export' \in [Runner -> ExportRecord]
           /\ \A s \in Runner \ {r} : export'[s] = export[s]
           /\ export'[r].pc \in {"idle", "look"}
           /\ export'[r].pc # "idle" =>
                 /\ export'[r].day = export[r].day + 1
                 /\ export'[r].to = export[r].to
                 /\ export'[r].day <= export'[r].to
<1>1. export \in [Runner -> ExportRecord] /\ export[r].day <= export[r].to
    BY DEF IInv, WellFormed, WorksOnOld
<1>2. CASE export[r].day = export[r].to
    BY <1>1, <1>2 DEF NextIteration, NoExport, ExportRecord
<1>3. CASE export[r].day # export[r].to
    BY <1>1, <1>3 DEF NextIteration, ExportRecord
<1>4. QED
    BY <1>2, <1>3

LEMMA ExportLookStep ==
    ASSUME IInv, NEW r \in Runner, ExportLook(r)
    PROVE  IInv'
<1> USE NumbersAssumption DEF ExportLook
<1>1. CASE OfDay(export[r].day) = {} /\ NextIteration(r)
  <2> USE <1>1
  <2>1. WellFormed'
      BY IterationType DEF IInv, WellFormed, ExportRecord, ClearRecord
  <2>2. WorksOnOld'
      BY IterationType DEF IInv, WorksOnOld, WellFormed, ExportRecord, Day
  <2>3. LeftOld' /\ Recorded'
      BY DEF IInv, LeftOld, Recorded, Elsewhere, DayFile
  <2>4. DayFiles'
      BY IterationType DEF IInv, DayFiles, Elsewhere, DayFile, OfDay
  <2>5. CopyCovers'
      BY IterationType DEF IInv, CopyCovers, Elsewhere, DayFile, OfDay
  <2>6. QED
      BY <2>1, <2>2, <2>3, <2>4, <2>5 DEF IInv
<1>2. CASE OfDay(export[r].day) # {} /\ Looked(r)
  <2> USE <1>2 DEF Looked
  <2>1. WellFormed'
      BY DEF IInv, WellFormed, ExportRecord, ClearRecord
  <2>2. WorksOnOld'
      BY DEF IInv, WorksOnOld, WellFormed, ExportRecord
  <2>3. LeftOld' /\ Recorded'
      BY DEF IInv, LeftOld, Recorded, Elsewhere, DayFile
  <2>4. DayFiles'
      BY DEF IInv, DayFiles, Elsewhere, DayFile, OfDay, WellFormed, ExportRecord
  <2>5. CopyCovers'
      BY DEF IInv, CopyCovers, Elsewhere, DayFile, OfDay, WellFormed, ExportRecord
  <2>6. QED
      BY <2>1, <2>2, <2>3, <2>4, <2>5 DEF IInv
<1>3. QED
    BY <1>1, <1>2

LEMMA ExportReadStep ==
    ASSUME IInv, NEW r \in Runner, ExportRead(r)
    PROVE  IInv'
<1> USE DEF ExportRead
<1>1. WellFormed'
  <2>1. WellFormed
      BY DEF IInv
  <2>2. PICK read : read = OfDay(export[r].day)
      OBVIOUS
  <2>3. read \in SUBSET written
      BY <2>1, <2>2 DEF WellFormed, OfDay
  <2>4. PICK new : new = [export[r] EXCEPT !.pc = "unlink", !.read = read]
      OBVIOUS
  <2>5. export' \in [Runner -> ExportRecord]
    <3>1. export[r] \in ExportRecord /\ export \in [Runner -> ExportRecord]
        BY <2>1 DEF WellFormed
    <3>2. new \in ExportRecord
        BY <2>3, <2>4, <3>1 DEF ExportRecord
    <3>3. export' = [export EXCEPT ![r] = new]
        BY <2>2, <2>4
    <3>4. QED
        BY <3>1, <3>2, <3>3
  <2>6. QED
      BY <2>1, <2>5 DEF WellFormed, ExportRecord, ClearRecord
<1>2. WorksOnOld'
    BY DEF IInv, WorksOnOld, WellFormed, ExportRecord
<1>3. LeftOld' /\ Recorded'
    BY DEF IInv, LeftOld, Recorded, Elsewhere, DayFile
<1>4. DayFiles'
    BY DEF IInv, DayFiles, Elsewhere, DayFile, OfDay, WellFormed, ExportRecord
<1>5. CopyCovers'
    BY DEF IInv, CopyCovers, Elsewhere, DayFile, OfDay, WellFormed, ExportRecord
<1>6. QED
    BY <1>1, <1>2, <1>3, <1>4, <1>5 DEF IInv

LEMMA ExportUnlinkStep ==
    ASSUME IInv, OneDailyExport, NEW r \in Runner, ExportUnlink(r)
    PROVE  IInv'
<1> DEFINE day == export[r].day
<1> USE DEF ExportUnlink
<1>1. /\ day \in Day
      /\ file' \in [FileName -> SUBSET written]
      /\ \A d \in Day : DayFile(d)' = IF d = day THEN {} ELSE DayFile(d)
  <2>1. WellFormed /\ day \in Day /\ {} \in SUBSET written
      BY DEF IInv, WorksOnOld
  <2>2. QED
      BY <2>1, DayFileChanges
<1>2. WellFormed'
    BY <1>1 DEF IInv, WellFormed, ExportRecord, ClearRecord
<1>3. WorksOnOld'
    BY DEF IInv, WorksOnOld, WellFormed, ExportRecord
<1>4. LeftOld'
    BY DEF IInv, LeftOld
<1>5. DayFile(day) \subseteq Elsewhere
    BY <1>1 DEF IInv, DayFiles
<1>6. Recorded'
    BY <1>1, <1>5 DEF IInv, Recorded, Elsewhere, WellFormed, Record
<1>7. DayFiles'
    BY <1>1 DEF IInv, DayFiles, Elsewhere, OfDay, WellFormed, ExportRecord
<1>8. CopyCovers'
  <2>1. \A s \in Runner : s = r
      BY DEF OneDailyExport
  <2>2. export'[r].pc = "save" /\ export'[r].day = day /\ export'[r].read = export[r].read
      BY DEF IInv, WellFormed, ExportRecord
  <2>3. QED
      BY <2>1, <2>2 DEF IInv, CopyCovers, Elsewhere, OfDay
<1>9. QED
    BY <1>2, <1>3, <1>4, <1>6, <1>7, <1>8 DEF IInv

LEMMA ExportSaveStep ==
    ASSUME IInv, OneDailyExport, NEW r \in Runner, ExportSave(r)
    PROVE  IInv'
<1> DEFINE day == export[r].day
           recs == export[r].read
<1> USE DEF ExportSave
<1>1. /\ day \in Day
      /\ recs \in SUBSET written
      /\ file' \in [FileName -> SUBSET written]
      /\ \A d \in Day : DayFile(d)' = IF d = day THEN recs ELSE DayFile(d)
  <2>1. WellFormed /\ WorksOnOld
      BY DEF IInv
  <2>2. day \in Day
      BY <2>1 DEF WorksOnOld
  <2>3. recs \in SUBSET written
      BY <2>1 DEF WellFormed, ExportRecord
  <2>4. file' = [file EXCEPT ![<<day, 0>>] = recs]
      OBVIOUS
  <2>5. QED
      BY <2>1, <2>2, <2>3, <2>4, DayFileChanges
<1>2. WellFormed'
    BY <1>1 DEF IInv, WellFormed, ExportRecord, ClearRecord
<1>3. WorksOnOld'
    BY DEF IInv, WorksOnOld, WellFormed, ExportRecord
<1>4. LeftOld'
    BY DEF IInv, LeftOld
<1>5. DayFile(day) \subseteq Elsewhere /\ recs \subseteq Elsewhere
    BY <1>1 DEF IInv, DayFiles, CopyCovers
<1>6. Recorded'
    BY <1>1, <1>5 DEF IInv, Recorded, Elsewhere, WellFormed, Record
<1>7. DayFiles'
  <2>1. \A rec \in recs : rec[1] = day
      BY DEF IInv, CopyCovers
  <2>2. QED
      BY <1>1, <1>5, <2>1 DEF IInv, DayFiles, Elsewhere, OfDay, WellFormed, ExportRecord
<1>8. CopyCovers'
  <2>1. \A s \in Runner : s = r
      BY DEF OneDailyExport
  <2>2. export'[r].pc = "delete" /\ export'[r].day = day
      BY DEF IInv, WellFormed, ExportRecord
  <2>3. OfDay(day)' \subseteq DayFile(day)'
      BY <1>1 DEF IInv, CopyCovers, OfDay
  <2>4. QED
      BY <2>1, <2>2, <2>3 DEF CopyCovers, OfDay, DayFile
<1>9. QED
    BY <1>2, <1>3, <1>4, <1>6, <1>7, <1>8 DEF IInv

LEMMA ExportDeleteStep ==
    ASSUME IInv, OneDailyExport, NEW r \in Runner, ExportDelete(r)
    PROVE  IInv'
<1> DEFINE day == export[r].day
<1> USE NumbersAssumption DEF ExportDelete
<1>1. /\ day \in Day /\ day + Age <= today /\ day < today
      /\ OfDay(day) \subseteq DayFile(day)
    BY DEF IInv, WorksOnOld, CopyCovers, WellFormed, ExportRecord, Day
<1>2. WellFormed'
    BY IterationType DEF IInv, WellFormed, ExportRecord, ClearRecord
<1>3. WorksOnOld'
    BY IterationType DEF IInv, WorksOnOld, WellFormed, ExportRecord, Day
<1>4. LeftOld'
    BY <1>1 DEF IInv, LeftOld, OfDay
<1>5. Recorded'
    BY <1>1 DEF IInv, Recorded, Elsewhere, DayFile, OfDay
<1>6. DayFiles'
  <2>1. ASSUME NEW d \in Day, d # day
        PROVE  DayFile(d) \subseteq Elsewhere => DayFile(d)' \subseteq Elsewhere'
      BY <2>1 DEF IInv, DayFiles, Elsewhere, DayFile, OfDay
  <2>2. \A d \in Day : d = day \/ OfDay(d) = {} => OfDay(d)' = {}
      BY DEF OfDay
  <2>3. \A s \in Runner : export'[s].pc \in {"idle", "look"}
      BY IterationType DEF OneDailyExport
  <2>4. QED
      BY <1>1, <2>1, <2>2, <2>3 DEF IInv, DayFiles, DayFile
<1>7. CopyCovers'
    BY IterationType DEF CopyCovers, OneDailyExport
<1>8. QED
    BY <1>2, <1>3, <1>4, <1>5, <1>6, <1>7 DEF IInv

LEMMA ClearStartStep ==
    ASSUME IInv, NEW cutoff \in Day, NEW old \in SUBSET journal, ClearStart(cutoff, old)
    PROVE  IInv'
<1> USE NumbersAssumption DEF ClearStart
<1>1. \A rec \in old : rec[1] + Ttl <= today
    BY DEF IInv, WellFormed, Record, Day
<1>2. WellFormed'
    BY DEF IInv, WellFormed, ExportRecord, ClearRecord, Day
<1>3. WorksOnOld'
    BY <1>1 DEF IInv, WorksOnOld
<1>4. LeftOld' /\ Recorded' /\ CopyCovers'
    BY DEF IInv, LeftOld, Recorded, CopyCovers, Elsewhere, DayFile, OfDay
<1>5. DayFiles'
    BY DEF IInv, DayFiles, Elsewhere, DayFile, OfDay
<1>6. QED
    BY <1>2, <1>3, <1>4, <1>5 DEF IInv

LEMMA ClearFileStep ==
    ASSUME IInv, ClearUnlink \/ \E c \in SUBSET clear.todo : ClearSave(c)
    PROVE  IInv'
<1>1. /\ WellFormed' /\ WorksOnOld'
      /\ \A d \in Day : DayFile(d)' = DayFile(d)
  <2>1. WellFormed /\ clear.pc # "idle" /\ clear.chunk \in Nat \ {0} /\ {} \in SUBSET written
    <3>1. clear.pc # "idle"
        BY DEF ClearUnlink, ClearSave
    <3>2. clear.chunk > 0 /\ clear.chunk \in Nat
        BY <3>1 DEF IInv, WorksOnOld, WellFormed, ClearRecord
    <3>3. QED
        BY <3>1, <3>2 DEF IInv
  <2>2. CASE ClearUnlink
    <3>1. /\ file' \in [FileName -> SUBSET written]
          /\ \A d \in Day : DayFile(d)' = DayFile(d)
        BY <2>1, <2>2, ChunkFileChanges DEF ClearUnlink
    <3>2. QED
        BY <2>2, <3>1 DEF IInv, WellFormed, WorksOnOld, ExportRecord, ClearRecord, ClearUnlink
  <2>3. ASSUME NEW c \in SUBSET clear.todo, ClearSave(c)
        PROVE  /\ WellFormed' /\ WorksOnOld'
               /\ \A d \in Day : DayFile(d)' = DayFile(d)
    <3> DEFINE recs == IF Encrypts THEN {} ELSE c
    <3>1. recs \in SUBSET written
        BY <2>1 DEF WellFormed, ClearRecord
    <3>2. file' = [file EXCEPT ![<<clear.cutoff, clear.chunk>>] = recs]
        BY <2>3 DEF ClearSave
    <3> HIDE DEF recs
    <3>3. /\ file' \in [FileName -> SUBSET written]
          /\ \A d \in Day : DayFile(d)' = DayFile(d)
        BY <2>1, <3>1, <3>2, ChunkFileChanges
    <3>4. QED
        BY <2>3, <3>3 DEF IInv, WellFormed, WorksOnOld, ExportRecord, ClearRecord, ClearSave
  <2>4. QED
      BY <2>2, <2>3
<1>2. UNCHANGED <<today, written, journal, export, cleared>>
    BY DEF ClearUnlink, ClearSave
<1>3. LeftOld'
    BY <1>2 DEF IInv, LeftOld
<1>4. Recorded'
    BY <1>1, <1>2 DEF IInv, Recorded, Elsewhere, WellFormed, Record
<1>5. DayFiles'
    BY <1>1, <1>2 DEF IInv, DayFiles, Elsewhere, OfDay
<1>6. CopyCovers'
  <2>1. \A r \in Runner : export[r].pc # "idle" => export[r].day \in Day
      BY DEF IInv, WorksOnOld
  <2>2. QED
      BY <1>1, <1>2, <2>1 DEF IInv, CopyCovers, Elsewhere, OfDay
<1>7. QED
    BY <1>1, <1>3, <1>4, <1>5, <1>6 DEF IInv

LEMMA ClearDeleteStep ==
    ASSUME IInv, ClearDelete
    PROVE  IInv'
<1> USE DEF ClearDelete
<1>1. /\ Elsewhere' = Elsewhere
      /\ \A d \in Day : OfDay(d)' \subseteq OfDay(d)
    BY DEF Elsewhere, OfDay
<1>2. WellFormed'
  <2>1. clear' \in ClearRecord
    <3>1. NoClear \in ClearRecord
        BY DEF NoClear, ClearRecord
    <3>2. clear \in ClearRecord
        BY DEF IInv, WellFormed
    <3>3. [clear EXCEPT !.pc = "unlink", !.chunk = @ + 1] \in ClearRecord
      <4>1. clear.chunk + 1 \in Nat
          BY <3>2 DEF ClearRecord
      <4>2. \A n \in Nat : [clear EXCEPT !.pc = "unlink", !.chunk = n] \in ClearRecord
          BY <3>2 DEF ClearRecord
      <4>3. QED
          BY <4>1, <4>2
    <3>4. QED
        BY <3>1, <3>3 DEF ClearNext
  <2>2. QED
      BY <2>1 DEF IInv, WellFormed, ExportRecord, ClearRecord
<1>3. WorksOnOld'
    BY DEF IInv, WellFormed, WorksOnOld, ClearRecord, ClearNext, NoClear
<1>4. LeftOld'
    BY DEF IInv, LeftOld, WorksOnOld
<1>5. Recorded'
    BY <1>1 DEF IInv, Recorded, DayFile
<1>6. DayFiles'
    BY <1>1 DEF IInv, DayFiles, DayFile
<1>7. CopyCovers'
  <2>1. \A r \in Runner : export[r].pc # "idle" => export[r].day \in Day
      BY DEF IInv, WorksOnOld
  <2>2. QED
      BY <1>1, <2>1 DEF IInv, CopyCovers, DayFile, OfDay
<1>8. QED
    BY <1>2, <1>3, <1>4, <1>5, <1>6, <1>7 DEF IInv

LEMMA StepInvariant == OneDailyExport /\ IInv /\ [Next]_vars => IInv'
<1> SUFFICES ASSUME OneDailyExport, IInv, [Next]_vars PROVE IInv'
    OBVIOUS
<1>1. CASE \E rec \in Record : Write(rec)
    BY <1>1, WriteStep
<1>2. CASE NextDay
    BY <1>2, NextDayStep
<1>3. ASSUME NEW r \in Runner, \E from, to \in Day : ExportStart(r, from, to)
      PROVE  IInv'
    BY <1>3, ExportStartStep
<1>4. ASSUME NEW r \in Runner, ExportRun(r)
      PROVE  IInv'
    BY <1>4, ExportLookStep, ExportReadStep, ExportUnlinkStep, ExportSaveStep,
       ExportDeleteStep DEF ExportRun
<1>5. CASE \E cutoff \in Day : \E old \in SUBSET journal : ClearStart(cutoff, old)
    BY <1>5, ClearStartStep
<1>6. CASE ClearRun
    BY <1>6, ClearFileStep, ClearDeleteStep DEF ClearRun
<1>7. CASE ClearStops \/ \E r \in Runner : ExportStops(r)
    BY <1>7, StopStep
<1>8. CASE UNCHANGED vars
  <2> USE <1>8 DEF vars
  <2>1. WellFormed' /\ WorksOnOld' /\ LeftOld'
      BY DEF IInv, WellFormed, ExportRecord, ClearRecord, WorksOnOld, LeftOld
  <2>2. Recorded' /\ CopyCovers'
      BY DEF IInv, Recorded, CopyCovers, Elsewhere, DayFile, OfDay
  <2>3. DayFiles'
      BY DEF IInv, DayFiles, Elsewhere, DayFile, OfDay
  <2>4. QED
      BY <2>1, <2>2, <2>3 DEF IInv
<1>9. QED
    BY <1>1, <1>2, <1>3, <1>4, <1>5, <1>6, <1>7, <1>8 DEF Next

-----------------------------------------------------------------------------
(* What the invariant says about the properties. *)

Held == journal \cup Filed \cup cleared

LEMMA HeldIsWritten == IInv => Held = written
<1> SUFFICES ASSUME IInv PROVE Held = written
    OBVIOUS
<1>1. Filed \subseteq written
    BY DEF IInv, WellFormed, Filed
<1>2. \A d \in Day : DayFile(d) \subseteq Filed
    BY DayFileName DEF Filed, DayFile
<1>3. written \subseteq Held
    BY <1>2 DEF IInv, Recorded, WellFormed, Record, Elsewhere, Held
<1>4. QED
    BY <1>1, <1>3 DEF IInv, WellFormed, Held

LEMMA InvariantImplies == IInv => ExportLosesNothing /\ RecentKept
<1> SUFFICES ASSUME IInv PROVE ExportLosesNothing /\ RecentKept
    OBVIOUS
<1>1. ExportLosesNothing
    BY HeldIsWritten DEF Held, ExportLosesNothing
<1>2. RecentKept
    BY NumbersAssumption DEF IInv, LeftOld, RecentKept, WellFormed, Record, Day
<1>3. QED
    BY <1>1, <1>2

LEMMA AlwaysInvariant == OneDailyExport /\ Spec => []IInv
<1>1. Init => IInv
    BY InitInvariant
<1>2. OneDailyExport /\ IInv /\ [Next]_vars => IInv'
    BY StepInvariant
<1>3. OneDailyExport => []OneDailyExport
  <2>1. OneDailyExport => OneDailyExport'
      BY DEF OneDailyExport
  <2>2. QED
      BY <2>1, PTL
<1>4. QED
    BY <1>1, <1>2, <1>3, PTL DEF Spec

(***************************************************************************)
(* For any number of days, records and faults, any ages and chunk size:    *)
(* each record is in the table or in a file, unless                        *)
(* clear_old_journal_records removed it.                                   *)
(***************************************************************************)
THEOREM NothingIsLost == OneDailyExport /\ Spec => []ExportLosesNothing
BY AlwaysInvariant, InvariantImplies, PTL

(***************************************************************************)
(* Likewise no record leaves the table while both policies keep it.        *)
(***************************************************************************)
THEOREM RecentAreKept == OneDailyExport /\ Spec => []RecentKept
BY AlwaysInvariant, InvariantImplies, PTL

-----------------------------------------------------------------------------
(* The refinement. *)

LEMMA InitRefines == Init => Promise!Init
BY DEF Init, Promise!Init, Filed

LEMMA HeldIsWrittenNext == IInv' => (Held = written)'
BY HeldIsWritten, PTL

LEMMA StepRefines ==
    OneDailyExport /\ IInv /\ IInv' /\ [Next]_vars => [Promise!Next]_(Promise!vars)
<1> SUFFICES ASSUME OneDailyExport, IInv, IInv', [Next]_vars
             PROVE  [Promise!Next]_(Promise!vars)
    OBVIOUS
<1>1. Held = written /\ Held' = written'
    BY HeldIsWritten, HeldIsWrittenNext
<1> DEFINE Shortest == IF Age < Ttl THEN Age ELSE Ttl
<1>2. CASE UNCHANGED <<today, journal, written>>
    BY <1>1, <1>2 DEF Held, Promise!vars
<1>3. ASSUME NEW rec \in Record, Write(rec)
      PROVE  Promise!Keep(rec)
    BY <1>1, <1>3 DEF Write, Promise!Keep, Held
<1>4. CASE NextDay
    BY <1>1, <1>4 DEF NextDay, Promise!NextDay, Promise!Next, Held
<1>5. ASSUME NEW gone \in SUBSET journal, journal' = journal \ gone,
             UNCHANGED <<today, written>>,
             \A rec \in gone : rec[1] + Age <= today \/ rec[1] + Ttl <= today
      PROVE  Promise!Release(gone)
  <2>1. \A rec \in gone : rec[1] + Shortest <= today
      BY <1>5, NumbersAssumption DEF IInv, WellFormed, Record, Day
  <2>2. QED
      BY <1>1, <1>5, <2>1 DEF Promise!Release, Held
<1>6. ASSUME NEW r \in Runner, ExportDelete(r)
      PROVE  Promise!Release(OfDay(export[r].day))
  <2>1. \A rec \in OfDay(export[r].day) : rec[1] + Age <= today
      BY <1>6, NumbersAssumption DEF ExportDelete, IInv, WorksOnOld, WellFormed, ExportRecord, OfDay, Day
  <2>2. QED
      BY <1>5, <1>6, <2>1 DEF ExportDelete, OfDay
<1>7. CASE ClearDelete
  <2>1. Promise!Release(journal \cap clear.old)
      BY <1>5, <1>7 DEF ClearDelete, IInv, WorksOnOld
  <2>2. QED
      BY <2>1 DEF Promise!Next
<1>8. CASE \E cutoff \in Day : \E old \in SUBSET journal : ClearStart(cutoff, old)
    BY <1>2, <1>8 DEF ClearStart
<1>9. CASE ClearUnlink \/ ClearStops \/ \E c \in SUBSET clear.todo : ClearSave(c)
    BY <1>2, <1>9 DEF ClearUnlink, ClearStops, ClearSave
<1>10. ASSUME NEW r \in Runner,
              \/ \E from, to \in Day : ExportStart(r, from, to)
              \/ ExportLook(r) \/ ExportRead(r) \/ ExportUnlink(r) \/ ExportSave(r)
              \/ ExportStops(r)
       PROVE  [Promise!Next]_(Promise!vars)
    BY <1>2, <1>10 DEF ExportStart, ExportLook, ExportRead, ExportUnlink, ExportSave, ExportStops
<1>11. CASE \E rec \in Record : Write(rec)
    BY <1>3, <1>11 DEF Promise!Next
<1>12. ASSUME NEW r \in Runner, ExportDelete(r)
       PROVE  Promise!Next
    BY <1>6, <1>12 DEF Promise!Next, OfDay
<1>13. CASE UNCHANGED vars
    BY <1>2, <1>13 DEF vars
<1>14. QED
    BY <1>4, <1>7, <1>8, <1>9, <1>10, <1>11, <1>12, <1>13 DEF Next, ExportRun, ClearRun

(***************************************************************************)
(* The daily export and the clearing, with every fault, implement          *)
(* JournalPromise.                                                         *)
(***************************************************************************)
THEOREM PromiseIsKept == OneDailyExport /\ Spec => KeepsPromise
<1>1. Init => Promise!Init
    BY InitRefines
<1>2. OneDailyExport /\ IInv /\ IInv' /\ [Next]_vars => [Promise!Next]_(Promise!vars)
    BY StepRefines
<1>3. OneDailyExport => []OneDailyExport
  <2>1. OneDailyExport => OneDailyExport'
      BY DEF OneDailyExport
  <2>2. QED
      BY <2>1, PTL
<1>4. QED
    BY <1>1, <1>2, <1>3, AlwaysInvariant, PTL DEF Spec, KeepsPromise, Promise!Spec

-----------------------------------------------------------------------------
(* Types, for any number of exports, by Celery Beat and by users *)

ExportType ==
    [pc : {"idle", "look", "read", "unlink", "save", "delete"},
     day : 0 .. LastDay, to : 0 .. LastDay, read : SUBSET Record]

ClearType ==
    [pc : {"idle", "unlink", "save", "delete"}, cutoff : 0 .. LastDay,
     chunk : 0 .. LastDay * PerDay, old : SUBSET Record, todo : SUBSET Record]

DaysAhead ==
    \A r \in Runner : export[r].pc # "idle" =>
        export[r].day \in Day /\ export[r].to \in Day /\ export[r].day <= export[r].to

\* Every chunk has a record of its own.
ChunksAhead ==
    /\ clear.pc # "idle" => clear.chunk > 0 /\ clear.todo \subseteq clear.old
    /\ clear.pc \in {"unlink", "save"} =>
          clear.todo # {} /\ clear.chunk + Cardinality(clear.todo) <= 1 + Cardinality(clear.old)
    /\ clear.pc = "delete" =>
          clear.chunk + Cardinality(clear.todo) <= Cardinality(clear.old)

TypeInv == TypeOK /\ DaysAhead /\ ChunksAhead

LEMMA IntervalSize ==
    ASSUME NEW n \in Nat
    PROVE  IsFiniteSet(1 .. n) /\ Cardinality(1 .. n) = n
<1>1. 1 \in Int /\ n \in Int
    OBVIOUS
<1>2. IsFiniteSet(1 .. n) /\ Cardinality(1 .. n) = IF 1 > n THEN 0 ELSE n - 1 + 1
    BY <1>1, FS_Interval, Zenon
<1>3. CASE 1 > n
    BY <1>2, <1>3
<1>4. CASE ~(1 > n)
    BY <1>2, <1>4
<1>5. QED
    BY <1>3, <1>4

LEMMA RecordsFinite ==
    /\ LastDay * PerDay \in Nat
    /\ IsFiniteSet(Record) /\ Cardinality(Record) = LastDay * PerDay
    /\ \A S \in SUBSET Record :
          IsFiniteSet(S) /\ Cardinality(S) \in Nat /\ Cardinality(S) <= LastDay * PerDay
<1>1. LastDay \in Nat /\ PerDay \in Nat /\ LastDay * PerDay \in Nat
    BY NumbersAssumption
<1>2. /\ IsFiniteSet(Day) /\ Cardinality(Day) = LastDay
      /\ IsFiniteSet(1 .. PerDay) /\ Cardinality(1 .. PerDay) = PerDay
    BY <1>1, IntervalSize DEF Day
<1>3. IsFiniteSet(Record) /\ Cardinality(Record) = Cardinality(Day) * Cardinality(1 .. PerDay)
    BY <1>2, FS_Product DEF Record
<1>4. Cardinality(Record) = LastDay * PerDay
    BY <1>2, <1>3
<1>5. ASSUME NEW S \in SUBSET Record
      PROVE  IsFiniteSet(S) /\ Cardinality(S) \in Nat /\ Cardinality(S) <= LastDay * PerDay
    BY <1>3, <1>4, <1>5, FS_Subset, FS_CardinalityType
<1>6. QED
    BY <1>1, <1>3, <1>4, <1>5

\* A chunk that is written has at least one record.
LEMMA ChunkTakesOne ==
    ASSUME NEW todo, IsFiniteSet(todo), todo # {}, NEW c \in SUBSET todo,
           Cardinality(c) = ChunkSize \/ c = todo
    PROVE  Cardinality(todo \ c) + 1 <= Cardinality(todo)
<1>1. c # {}
    BY FS_EmptySet, NumbersAssumption
<1>2. PICK x \in c : x \in todo
    BY <1>1
<1>3. /\ IsFiniteSet(todo \ {x}) /\ Cardinality(todo \ {x}) = Cardinality(todo) - 1
    BY <1>2, FS_RemoveElement
<1>4. Cardinality(todo \ c) <= Cardinality(todo \ {x})
    BY <1>2, <1>3, FS_Subset
<1>5. /\ IsFiniteSet(todo \ c) /\ Cardinality(todo) \in Nat
      /\ Cardinality(todo \ {x}) \in Nat
    BY <1>3, FS_Subset, FS_CardinalityType
<1>6. Cardinality(todo \ c) \in Nat
    BY <1>5, FS_CardinalityType
<1>7. QED
    BY <1>3, <1>4, <1>5, <1>6

LEMMA ExportTypeStep ==
    ASSUME TypeInv, NEW r \in Runner,
           (\E from, to \in Day : ExportStart(r, from, to)) \/ ExportRun(r) \/ ExportStops(r)
    PROVE  TypeInv'
<1>1. export \in [Runner -> ExportType] /\ NoExport \in ExportType
    BY NumbersAssumption DEF TypeInv, TypeOK, ExportType, NoExport
<1>2. export[r].pc # "idle" =>
         export[r].day \in Day /\ export[r].to \in Day /\ export[r].day <= export[r].to
    BY DEF TypeInv, DaysAhead
<1>3. /\ UNCHANGED <<today, written, clear, cleared>> /\ journal' \subseteq journal
      /\ faults' \in 0 .. MaxFaults
    BY NumbersAssumption DEF ExportStart, ExportRun, ExportLook, ExportRead, ExportUnlink, ExportSave, ExportDelete,
       ExportStops, Fault, TypeInv, TypeOK
<1>4. file' \in [FileName -> SUBSET Record]
  <2>1. export[r].read \in SUBSET Record
      BY <1>1 DEF ExportType
  <2>2. QED
      BY <2>1 DEF ExportStart, ExportRun, ExportLook, ExportRead, ExportUnlink, ExportSave, ExportDelete,
         ExportStops, TypeInv, TypeOK
<1>5. PICK new \in ExportType :
        /\ export' = [export EXCEPT ![r] = new]
        /\ new.pc # "idle" => new.day \in Day /\ new.to \in Day /\ new.day <= new.to
  <2>1. CASE export' = [export EXCEPT ![r] = NoExport]
    <3>1. NoExport.pc = "idle"
        BY DEF NoExport
    <3>2. QED
        BY <1>1, <2>1, <3>1
  <2>2. ASSUME NEW from \in Day, NEW to \in Day, ExportStart(r, from, to)
        PROVE  from <= to
    <3>1. PICK rec \in journal : rec[1] < to /\ from <= rec[1] /\ rec \in Record
        BY <2>2 DEF ExportStart, First, TypeInv, TypeOK
    <3>2. QED
        BY <3>1, NumbersAssumption DEF Record, Day
  <2>3. ASSUME NEW from \in Day, NEW to \in Day, ExportStart(r, from, to)
        PROVE  \E new \in ExportType :
                  /\ export' = [export EXCEPT ![r] = new]
                  /\ new.day \in Day /\ new.to \in Day /\ new.day <= new.to
    <3>1. PICK new : new = [pc |-> "look", day |-> from, to |-> to, read |-> {}]
        OBVIOUS
    <3>2. new \in ExportType
        BY <3>1, NumbersAssumption DEF ExportType, Day
    <3>3. QED
        BY <2>2, <2>3, <3>1, <3>2 DEF ExportStart
  <2>4. CASE export[r].pc # "idle" /\ NextIteration(r)
    <3>1. CASE export[r].day = export[r].to
        BY <2>1, <2>4, <3>1 DEF NextIteration
    <3>2. CASE export[r].day # export[r].to
      <4>1. PICK new : new = [pc |-> "look", day |-> export[r].day + 1, to |-> export[r].to, read |-> {}]
          OBVIOUS
      <4>2. export[r].day + 1 \in Day /\ export[r].day + 1 <= export[r].to
          BY <1>2, <2>4, <3>2, NumbersAssumption DEF Day
      <4>3. new \in ExportType
          BY <1>2, <2>4, <4>1, <4>2, NumbersAssumption DEF ExportType, Day
      <4>4. QED
          BY <1>2, <2>4, <3>2, <4>1, <4>2, <4>3 DEF NextIteration
    <3>3. QED
        BY <3>1, <3>2
  <2>5. ASSUME NEW pc \in {"read", "save", "delete"}, export[r].pc # "idle",
               export' = [export EXCEPT ![r].pc = pc]
        PROVE  \E new \in ExportType :
                  /\ export' = [export EXCEPT ![r] = new]
                  /\ new.day \in Day /\ new.to \in Day /\ new.day <= new.to
    <3>1. PICK new : new = [export[r] EXCEPT !.pc = pc]
        OBVIOUS
    <3>2. new \in ExportType /\ new.day = export[r].day /\ new.to = export[r].to
        BY <1>1, <3>1 DEF ExportType
    <3>3. QED
        BY <1>2, <2>5, <3>1, <3>2
  <2>6. CASE ExportRead(r)
    <3>1. PICK new : new = [export[r] EXCEPT !.pc = "unlink", !.read = OfDay(export[r].day)]
        OBVIOUS
    <3>2. OfDay(export[r].day) \in SUBSET Record
        BY DEF OfDay, TypeInv, TypeOK
    <3>3. new \in ExportType /\ new.day = export[r].day /\ new.to = export[r].to
        BY <1>1, <3>1, <3>2 DEF ExportType
    <3>4. QED
        BY <1>2, <2>6, <3>1, <3>3 DEF ExportRead
  <2>7. QED
      BY <2>1, <2>3, <2>4, <2>5, <2>6 DEF ExportRun, ExportLook, Looked, ExportUnlink, ExportSave,
         ExportDelete, ExportStops
<1>6. export' \in [Runner -> ExportType] /\ DaysAhead'
    BY <1>1, <1>5 DEF TypeInv, DaysAhead
<1>7. TypeOK'
    BY <1>3, <1>4, <1>6 DEF TypeInv, TypeOK, ExportType
<1>8. ChunksAhead'
    BY <1>3 DEF TypeInv, ChunksAhead
<1>9. QED
    BY <1>6, <1>7, <1>8 DEF TypeInv

\* The clearing, its chunks and its files.
LEMMA ClearTypeStep ==
    ASSUME TypeInv,
           \/ \E cutoff \in Day : \E old \in SUBSET journal : ClearStart(cutoff, old)
           \/ ClearRun \/ ClearStops
    PROVE  TypeInv'
<1>1. clear \in ClearType /\ NoClear \in ClearType /\ NoClear.pc = "idle"
  <2>1. 0 \in 0 .. LastDay /\ 0 \in 0 .. LastDay * PerDay
    <3>1. \A n \in Nat : 0 \in 0 .. n
        OBVIOUS
    <3>2. LastDay \in Nat /\ LastDay * PerDay \in Nat
        BY RecordsFinite, NumbersAssumption
    <3>3. QED
        BY <3>1, <3>2, Zenon
  <2>2. NoClear \in ClearType
      BY <2>1 DEF ClearType, NoClear
  <2>3. QED
      BY <2>2 DEF TypeInv, TypeOK, ClearType, NoClear
<1>2. clear.pc # "idle" => clear.chunk \in Nat /\ clear.chunk > 0 /\ clear.todo \subseteq clear.old
    BY <1>1, RecordsFinite DEF TypeInv, ChunksAhead, ClearType
<1>3. \A S \in SUBSET Record :
         IsFiniteSet(S) /\ Cardinality(S) \in Nat /\ Cardinality(S) <= LastDay * PerDay
    BY RecordsFinite
<1>4. PICK most \in Nat : most = LastDay * PerDay
    BY RecordsFinite
<1>5. /\ UNCHANGED <<today, written, export>> /\ journal' \subseteq journal
      /\ cleared' \in SUBSET Record /\ faults' \in 0 .. MaxFaults
  <2>1. /\ journal \subseteq Record /\ cleared \subseteq Record /\ faults \in 0 .. MaxFaults
      BY DEF TypeInv, TypeOK
  <2>2. /\ UNCHANGED <<today, written, export>> /\ journal' \subseteq journal
        /\ cleared' \subseteq cleared \cup journal
      BY DEF ClearStart, ClearRun, ClearUnlink, ClearSave, ClearDelete, ClearStops
  <2>3. faults' = faults \/ (faults < MaxFaults /\ faults' = faults + 1)
      BY DEF ClearStart, ClearRun, ClearUnlink, ClearSave, ClearDelete, ClearStops, Fault
  <2>4. QED
      BY <2>1, <2>2, <2>3, NumbersAssumption
<1>6. file' \in [FileName -> SUBSET Record]
  <2>1. \A c \in SUBSET clear.todo : (IF Encrypts THEN {} ELSE c) \in SUBSET Record
      BY <1>1 DEF ClearType
  <2>2. file \in [FileName -> SUBSET Record]
      BY DEF TypeInv, TypeOK
  <2>3. \/ file' = file
        \/ \E name : \E c \in SUBSET Record : file' = [file EXCEPT ![name] = c]
    <3>1. CASE ClearUnlink
        BY <3>1 DEF ClearUnlink
    <3>2. ASSUME NEW c \in SUBSET clear.todo, ClearSave(c)
          PROVE  \E name : \E d \in SUBSET Record : file' = [file EXCEPT ![name] = d]
        BY <2>1, <3>2 DEF ClearSave
    <3>3. QED
        BY <3>1, <3>2 DEF ClearStart, ClearRun, ClearDelete, ClearStops
  <2>4. QED
      BY <2>2, <2>3
<1>7. clear' \in ClearType /\ ChunksAhead'
  <2>1. CASE clear' = NoClear
      BY <1>1, <2>1 DEF ChunksAhead
  <2>2. ASSUME NEW cutoff \in Day, NEW old \in SUBSET journal, ClearStart(cutoff, old)
        PROVE  clear' \in ClearType /\ ChunksAhead'
    <3>1. PICK new : new = [pc |-> "unlink", cutoff |-> cutoff, chunk |-> 1, old |-> old, todo |-> old]
        OBVIOUS
    <3>2. clear' = new /\ old # {} /\ old \in SUBSET Record
        BY <2>2, <3>1 DEF ClearStart, TypeInv, TypeOK
    <3>3. Cardinality(old) \in Nat /\ Cardinality(old) <= most /\ Cardinality(old) >= 1
      <4>1. Cardinality(old) # 0
          BY <1>3, <3>2, FS_EmptySet
      <4>2. QED
          BY <1>3, <1>4, <3>2, <4>1
    <3>4. 1 \in 0 .. most
        BY <1>4, <3>3
    <3>5. new \in ClearType
        BY <1>4, <3>1, <3>2, <3>4, NumbersAssumption DEF ClearType, Day
    <3>6. 1 + Cardinality(old) <= 1 + Cardinality(old)
        BY <3>3
    <3>7. QED
        BY <3>1, <3>2, <3>5, <3>6 DEF ChunksAhead
  <2>3. CASE ClearUnlink
    <3>1. PICK new : new = [clear EXCEPT !.pc = "save"]
        OBVIOUS
    <3>2. clear' = new /\ clear.pc = "unlink"
        BY <2>3, <3>1 DEF ClearUnlink
    <3>3. /\ new \in ClearType /\ new.pc = "save" /\ new.chunk = clear.chunk
          /\ new.old = clear.old /\ new.todo = clear.todo
        BY <1>1, <3>1 DEF ClearType
    <3>4. QED
        BY <3>2, <3>3 DEF TypeInv, ChunksAhead
  <2>4. ASSUME NEW c \in SUBSET clear.todo, ClearSave(c)
        PROVE  clear' \in ClearType /\ ChunksAhead'
    <3>1. PICK new : new = [clear EXCEPT !.pc = "delete", !.todo = clear.todo \ c]
        OBVIOUS
    <3>2. /\ clear' = new /\ clear.pc = "save" /\ (Cardinality(c) = ChunkSize \/ c = clear.todo)
          /\ clear.todo # {}
          /\ clear.chunk + Cardinality(clear.todo) <= 1 + Cardinality(clear.old)
        BY <2>4, <3>1 DEF ClearSave, IsChunk, TypeInv, ChunksAhead
    <3>3. /\ new \in ClearType /\ new.pc = "delete" /\ new.chunk = clear.chunk
          /\ new.old = clear.old /\ new.todo = clear.todo \ c
        BY <1>1, <3>1 DEF ClearType
    <3>4. /\ clear.todo \in SUBSET Record /\ clear.old \in SUBSET Record
          /\ clear.todo \ c \in SUBSET Record
        BY <1>1 DEF ClearType
    <3>5. Cardinality(clear.todo \ c) + 1 <= Cardinality(clear.todo)
        BY <1>3, <3>2, <3>4, ChunkTakesOne
    <3>6. /\ clear.chunk \in Nat /\ Cardinality(clear.todo) \in Nat
          /\ Cardinality(clear.todo \ c) \in Nat /\ Cardinality(clear.old) \in Nat
        BY <1>2, <1>3, <3>2, <3>4
    <3>7. clear.chunk + Cardinality(clear.todo \ c) <= Cardinality(clear.old)
        BY <3>2, <3>5, <3>6
    <3>8. new.chunk + Cardinality(new.todo) <= Cardinality(new.old)
        BY <3>3, <3>7
    <3>9. new.chunk > 0 /\ new.todo \subseteq new.old
        BY <1>2, <3>2, <3>3
    <3>10. QED
        BY <3>2, <3>3, <3>8, <3>9 DEF ChunksAhead
  <2>5. CASE ClearDelete /\ clear.todo # {}
    <3>1. PICK new : new = [clear EXCEPT !.pc = "unlink", !.chunk = clear.chunk + 1]
        OBVIOUS
    <3>2. /\ clear' = new /\ clear.pc = "delete"
          /\ clear.chunk + Cardinality(clear.todo) <= Cardinality(clear.old)
        BY <2>5, <3>1 DEF ClearDelete, ClearNext, TypeInv, ChunksAhead
    <3>3. clear.todo \in SUBSET Record /\ clear.old \in SUBSET Record
        BY <1>1 DEF ClearType
    <3>4. Cardinality(clear.todo) # 0
        BY <1>3, <2>5, <3>3, FS_EmptySet
    <3>5. clear.chunk + 1 \in 0 .. most
        BY <1>2, <1>3, <1>4, <3>2, <3>3, <3>4
    <3>6. /\ new \in ClearType /\ new.pc = "unlink" /\ new.chunk = clear.chunk + 1
          /\ new.old = clear.old /\ new.todo = clear.todo
        BY <1>1, <1>4, <3>1, <3>5 DEF ClearType
    <3>7. /\ (clear.chunk + 1) + Cardinality(clear.todo) <= 1 + Cardinality(clear.old)
          /\ clear.chunk + 1 > 0
        BY <1>2, <1>3, <3>2, <3>3
    <3>8. QED
        BY <1>2, <2>5, <3>2, <3>6, <3>7 DEF ChunksAhead
  <2>6. QED
      BY <2>1, <2>2, <2>3, <2>4, <2>5 DEF ClearRun, ClearDelete, ClearNext, ClearStops
<1>8. DaysAhead'
    BY <1>5 DEF TypeInv, DaysAhead
<1>9. TypeOK'
    BY <1>5, <1>6, <1>7 DEF TypeInv, TypeOK, ClearType
<1>10. QED
    BY <1>7, <1>8, <1>9 DEF TypeInv

(***************************************************************************)
(* Type correctness, for any number of exports and users: every export     *)
(* stays within its days, and a clearing never needs more chunks, nor      *)
(* their files more names, than there are records.                         *)
(***************************************************************************)
THEOREM TypeCorrect == Spec => []TypeOK
<1>1. Init => TypeInv
  <2> SUFFICES ASSUME Init PROVE TypeInv
      OBVIOUS
  <2>1. TypeOK
      BY NumbersAssumption, RecordsFinite DEF Init, TypeOK, NoExport, NoClear, Day
  <2>2. DaysAhead /\ ChunksAhead
      BY DEF Init, DaysAhead, ChunksAhead, NoExport, NoClear
  <2>3. QED
      BY <2>1, <2>2 DEF TypeInv
<1>2. TypeInv /\ [Next]_vars => TypeInv'
  <2> SUFFICES ASSUME TypeInv, [Next]_vars PROVE TypeInv'
      OBVIOUS
  <2>1. ASSUME NEW rec \in Record, Write(rec)
        PROVE  TypeInv'
      BY <2>1 DEF Write, TypeInv, TypeOK, DaysAhead, ChunksAhead
  <2>2. CASE NextDay
      BY <2>2, NumbersAssumption DEF NextDay, TypeInv, TypeOK, DaysAhead, ChunksAhead, Day
  <2>3. CASE UNCHANGED vars
      BY <2>3 DEF vars, TypeInv, TypeOK, DaysAhead, ChunksAhead
  <2>4. QED
      BY <2>1, <2>2, <2>3, ExportTypeStep, ClearTypeStep DEF Next
<1>3. QED
    BY <1>1, <1>2, PTL DEF Spec, TypeInv
=============================================================================
