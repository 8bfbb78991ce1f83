--------------------------- MODULE JournalPromise ---------------------------
(***************************************************************************)
(* What the archive of the journal promises to those who write records and *)
(* look for them later: a record can be had from the moment it is written, *)
(* and the table keeps it until a policy lets it go.  How records get from *)
(* the table into files, and who moves them, is not said.                  *)
(***************************************************************************)
EXTENDS Naturals

CONSTANTS
    LastDay,  \* days (bound)
    Record,   \* records: a day and a number
    Shortest  \* days that the shortest policy keeps a record in the table

VARIABLES
    today,
    kept,  \* records in the table
    held   \* records that can be had at all

vars == <<today, kept, held>>

Init ==
    /\ today = 1
    /\ kept = {}
    /\ held = {}

\* A record is new: none is written again once it can be had.
Keep(rec) ==
    /\ rec[1] = today
    /\ rec \notin held
    /\ kept' = kept \cup {rec}
    /\ held' = held \cup {rec}
    /\ UNCHANGED today

\* Records leave the table, they are not lost by it.
Release(gone) ==
    /\ gone \subseteq kept
    /\ \A rec \in gone : rec[1] + Shortest <= today
    /\ kept' = kept \ gone
    /\ UNCHANGED <<today, held>>

NextDay ==
    /\ today < LastDay
    /\ today' = today + 1
    /\ UNCHANGED <<kept, held>>

Next ==
    \/ \E rec \in Record : Keep(rec)
    \/ \E gone \in SUBSET kept : Release(gone)
    \/ NextDay

Spec == Init /\ [][Next]_vars
=============================================================================
