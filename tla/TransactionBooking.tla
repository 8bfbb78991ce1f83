------------------------- MODULE TransactionBooking -------------------------
(***************************************************************************)
(* Booking of complex transactions (poms/transactions): what the class     *)
(* TransactionTypeProcess does to the tables of one space, for the two     *)
(* kinds of callers it has:                                                *)
(*   - the API (book, book-pending, rebook, rebook-pending, delete) runs a *)
(*     whole request in one database transaction and rolls it back when    *)
(*     the process ends with errors;                                       *)
(*   - the transaction import runs it in autocommit mode, so that every    *)
(*     statement is visible at once and stays when a later one fails.      *)
(*                                                                         *)
(* The unique code of a complex transaction is looked up, counted and then *)
(* written; no database constraint backs it.  Its number (column code) is  *)
(* unique and comes from a FakeSequence that is read and written in two    *)
(* statements.  A row is identified by its number here.                    *)
(***************************************************************************)
EXTENDS Naturals, FiniteSets

CONSTANTS
    Code,             \* the unique codes that the expressions produce
    Viewer,           \* API requests that may be open at the same time
    Importer,         \* the worker that runs the import
    MaxNum,           \* numbers the sequence gives out (bound)
    MaxViews,         \* API requests that change something (bound)
    ViewReactions,    \* the uniqueness reactions that requests ask for (bound)
    ScheduleReaction, \* rebook_reaction of the schedule action of the type
    NoCode,           \* transaction_unique_code is None
    NoRow,            \* no such row
    NoNum             \* a process without a number

Number == 1 .. MaxNum
Booker == Viewer \cup {Importer}

\* TransactionType: SKIP, BOOK_WITHOUT_UNIQUE_CODE, OVERWRITE, TREAT_AS_ERROR
Reaction == {"skip", "without", "overwrite", "treat"}

\* RebookReactionChoice, the ones that a schedule action takes
ScheduleReactions == {"create", "create_if_not_exist", "clear_write",
                      "clear_write_or_skip", "clear"}

\* base: the base transactions of the row; part when the last booking that
\* wrote them met an error and some are missing or carry defaults.
Row == [code : Code \cup {NoCode}, deleted : BOOLEAN, pending : BOOLEAN,
        base : {"none", "part", "full"}]

ASSUME BoundsAssumption == MaxNum \in Nat /\ MaxViews \in Nat
ASSUME BookersAssumption == Importer \notin Viewer
ASSUME ReactionsAssumption ==
    ViewReactions \subseteq Reaction /\ ScheduleReaction \in ScheduleReactions
ASSUME NoValuesAssumption == NoCode \notin Code /\ NoRow \notin Row /\ NoNum \notin Number

VARIABLES
    trn,       \* the complex transactions: number -> row, or NoRow
    sequence,  \* the value of the FakeSequence
    schedules, \* rows of the schedule of the instrument that the type books
    proc,      \* booker -> its TransactionTypeProcess
    views,     \* API requests so far
    stale,     \* history: another booker has written since this one's last check
    twinned,   \* history: codes written by a booker that was stale
    crowded    \* history: a schedule was written by a booker that was stale

bookingVars == <<trn, sequence, schedules, proc, views, stale, twinned, crowded>>

Exists(n) == trn[n] # NoRow
Live(tbl, n) == tbl[n] # NoRow /\ ~tbl[n].deleted

\* The rows that hold a unique code; fake_delete takes it away from a row.
Owners(tbl, c) == {n \in Number : tbl[n] # NoRow /\ tbl[n].code = c}
LiveOwners(tbl, c) == {n \in Owners(tbl, c) : ~tbl[n].deleted}

IdleProc == [pc |-> "idle", mode |-> "book", code |-> NoCode, reaction |-> "skip",
             kind |-> "plain", unique |-> "unset", errors |-> FALSE, num |-> NoNum,
             exist |-> {}, dead |-> {}, copy |-> NoRow]

-----------------------------------------------------------------------------
(* What the steps of process compute. *)

\* Mutant: create if not exist for every reaction but clear.
ReactedAppending(mode, n) == IF ScheduleReaction = "clear" THEN 0 ELSE n + 1

\* The rows of a schedule after its action, from the rows before it.
Reacted(mode, n) ==
    CASE ScheduleReaction = "create" -> n + 1
      [] ScheduleReaction = "clear" -> 0
      [] ScheduleReaction = "clear_write" -> 1
      [] ScheduleReaction = "clear_write_or_skip" -> IF mode = "rebook" THEN n ELSE 1
      [] ScheduleReaction = "create_if_not_exist" -> IF mode = "rebook" THEN n ELSE n + 1

\* Mutant: the base transactions are deleted, the row is not saved.
MarkedUnsaved(row) == [row EXCEPT !.base = "none"]

\* fake_delete of a row that was not deleted: the base transactions go.
Marked(row) == [row EXCEPT !.deleted = TRUE, !.code = NoCode, !.base = "none"]

\* The rows that were deleted when they were read: fake_delete removes them.
Dead(nums) == {n \in nums : trn[n].deleted}

AllMarked(tbl, nums, dead) ==
    [n \in Number |-> IF n \in dead THEN NoRow ELSE IF n \in nums THEN Marked(tbl[n]) ELSE tbl[n]]

\* Mutant: a code that is taken is skipped whatever the reaction.
VerdictOverwriteSkips(mode, reaction, c, taken) ==
    IF taken THEN "skip"
    ELSE IF mode = "rebook" THEN "update"
    ELSE IF reaction = "without" THEN "without"
    ELSE IF c = NoCode THEN "raise" ELSE "create"

\* Mutant: a code that is taken is overwritten although it was to be skipped.
VerdictSkipOverwrites(mode, reaction, c, taken) ==
    IF reaction = "without" THEN "without"
    ELSE IF reaction \in {"skip", "overwrite"} /\ c # NoCode
    THEN IF taken \/ mode = "rebook" THEN "overwrite" ELSE "create"
    ELSE IF mode = "rebook" THEN "unset" ELSE "raise"

\* execute_uniqueness_expression: uniqueness_status, where "raise" stands for
\* its last branches, which call fake_delete on a row that was never saved.
Verdict(mode, reaction, c, taken) ==
    CASE reaction = "without" -> "without"
      [] reaction = "skip" /\ c # NoCode ->
            IF taken THEN "skip" ELSE IF mode = "rebook" THEN "update" ELSE "create"
      [] reaction = "overwrite" /\ c # NoCode ->
            IF taken \/ mode = "rebook" THEN "overwrite" ELSE "create"
      [] OTHER -> IF mode = "rebook" THEN "unset" ELSE "raise"

\* process: a code that another row holds is refused unless it is overwritten.
Conflict(unique, c, others) == unique # "overwrite" /\ c # NoCode /\ others # {}

TouchOthers(b) ==
    stale' = [x \in Booker |-> IF x # b /\ proc[x].pc # "idle" THEN TRUE ELSE stale[x]]

Fresh(b) == stale' = [stale EXCEPT ![b] = FALSE]

TwinnedBy(b, c) ==
    twinned' = IF stale[b] /\ c # NoCode THEN twinned \cup {c} ELSE twinned

BookingInit ==
    /\ trn = [n \in Number |-> NoRow]
    /\ sequence = 0
    /\ schedules = 0
    /\ proc = [b \in Booker |-> IdleProc]
    /\ views = 0
    /\ stale = [b \in Booker |-> FALSE]
    /\ twinned = {}
    /\ crowded = FALSE

-----------------------------------------------------------------------------
(***************************************************************************)
(* The API.  A request reads (its object, the owners of the code, their    *)
(* count) and commits; what it wrote is visible to others from then on.    *)
(* The two looks at the code are one step: a row that appears between      *)
(* them only turns the booking into an error, that is, into no change.     *)
(***************************************************************************)
ViewStarts(v, p) ==
    /\ proc[v].pc = "idle"
    /\ views < MaxViews
    /\ views' = views + 1
    /\ proc' = [proc EXCEPT ![v] = p]
    /\ Fresh(v)
    /\ UNCHANGED <<trn, sequence, schedules, twinned, crowded>>

\* get_object of rebook, rebook-pending and delete.
ViewLoad(v, n, mode) ==
    /\ Exists(n)
    /\ ViewStarts(v, [IdleProc EXCEPT !.pc = "loaded", !.mode = mode,
                                      !.num = n, !.copy = trn[n]])

\* book and book-pending begin with the uniqueness expression.
ViewBook(v, c, reaction, pending) ==
    LET owners == IF c = NoCode THEN {} ELSE Owners(trn, c) IN
    ViewStarts(v, [IdleProc EXCEPT !.pc = "ready", !.code = c, !.reaction = reaction,
                                   !.kind = IF pending THEN "pending" ELSE "plain",
                                   !.unique = Verdict("book", reaction, c, owners # {}),
                                   !.exist = owners, !.dead = Dead(owners)])

\* rebook: the code is computed again, the row's own number does not count.
ViewRebook(v, c, reaction, pending) ==
    LET others == IF c = NoCode THEN {} ELSE Owners(trn, c) \ {proc[v].num} IN
    /\ proc[v].pc = "loaded"
    /\ proc[v].mode = "rebook"
    /\ proc' = [proc EXCEPT ![v].pc = "ready", ![v].code = c, ![v].reaction = reaction,
                            ![v].kind = IF pending THEN "pending" ELSE "plain",
                            ![v].unique = Verdict("rebook", reaction, c, others # {}),
                            ![v].exist = others, ![v].dead = Dead(others)]
    /\ Fresh(v)
    /\ UNCHANGED <<trn, sequence, schedules, views, twinned, crowded>>

ViewEnds(v) == proc' = [proc EXCEPT ![v] = IdleProc]

\* An error of any kind, or a refused code: set_rollback or an exception.
ViewRollback(v) ==
    /\ proc[v].pc = "ready"
    /\ ViewEnds(v)
    /\ UNCHANGED <<trn, sequence, schedules, views, stale, twinned, crowded>>

WrittenCode(p) == IF p.unique = "without" THEN NoCode ELSE p.code

ViewAllowed(p) ==
    /\ p.unique \notin {"skip", "raise"}
    /\ ~Conflict(p.unique, WrittenCode(p), p.exist)

\* Marking a row that is gone raises: nothing matches the update.
Dropped(p) == IF p.unique = "overwrite" THEN p.exist ELSE {}

ViewWrites(v, n, row) ==
    LET p == proc[v] IN
    /\ p.pc = "ready"
    /\ ViewAllowed(p)
    /\ \A x \in Dropped(p) \ p.dead : Exists(x)
    /\ trn' = [AllMarked(trn, Dropped(p), Dropped(p) \cap p.dead) EXCEPT ![n] = row]
    /\ schedules' = Reacted(p.mode, schedules)
    /\ TwinnedBy(v, row.code)
    /\ crowded' = (crowded \/ stale[v])
    /\ ViewEnds(v)
    /\ TouchOthers(v)
    /\ UNCHANGED views

RowOf(p, deleted) ==
    [code |-> WrittenCode(p), deleted |-> deleted, pending |-> p.kind = "pending",
     base |-> IF p.kind = "pending" THEN "none" ELSE "full"]

\* The lock that next_value takes is held until the commit, so the value is
\* the last one; a number that an import has taken ends in an IntegrityError.
ViewCommitBook(v) ==
    LET n == sequence + 1 IN
    /\ proc[v].mode = "book"
    /\ n \in Number /\ ~Exists(n)
    /\ ViewWrites(v, n, RowOf(proc[v], FALSE))
    /\ sequence' = n

\* The whole row is saved from the object that get_object loaded.
ViewCommitRebook(v) ==
    /\ proc[v].mode = "rebook"
    /\ ViewWrites(v, proc[v].num, RowOf(proc[v], proc[v].copy.deleted))
    /\ UNCHANGED sequence

\* perform_destroy, on the object that get_object loaded.
ViewDelete(v) ==
    LET p == proc[v] IN
    /\ p.pc = "loaded"
    /\ p.mode = "delete"
    /\ trn' = [trn EXCEPT ![p.num] = IF p.copy.deleted \/ @ = NoRow THEN NoRow ELSE Marked(@)]
    /\ ViewEnds(v)
    /\ TouchOthers(v)
    /\ UNCHANGED <<sequence, schedules, views, twinned, crowded>>

ViewStep(v) ==
    \/ \E n \in Number, mode \in {"rebook", "delete"} : ViewLoad(v, n, mode)
    \/ \E c \in Code \cup {NoCode}, reaction \in ViewReactions, pending \in BOOLEAN :
          ViewBook(v, c, reaction, pending) \/ ViewRebook(v, c, reaction, pending)
    \/ ViewRollback(v)
    \/ ViewCommitBook(v)
    \/ ViewCommitRebook(v)
    \/ ViewDelete(v)

-----------------------------------------------------------------------------
(***************************************************************************)
(* The import: the same process, one committed statement after another.    *)
(* A process that stops leaves pc = "over" and how it ended in unique:     *)
(* "booked", "skip" (errors of a skipped code) or "failed".                *)
(***************************************************************************)
Importing(from) == proc[Importer].pc = from

ImporterMoves(p) == proc' = [proc EXCEPT ![Importer] = p]

Stops(p, how) == [p EXCEPT !.pc = "over", !.unique = how]

\* A schedule action that names the instrument of another action looks it up
\* by primary key in a map whose keys are orders: a KeyError, as a rule.
PhantomMissing ==
    /\ Importing("schedules")
    /\ ImporterMoves(Stops(proc[Importer], "failed"))
    /\ UNCHANGED <<trn, sequence, schedules, views, stale, twinned, crowded>>

\* The schedule actions: a reaction that clears does so in a statement of its own.
ClearSchedules ==
    /\ Importing("schedules")
    /\ schedules' = IF ScheduleReaction \in {"create", "create_if_not_exist"}
                    THEN schedules ELSE 0
    /\ ImporterMoves([proc[Importer] EXCEPT !.pc = "write"])
    /\ stale' = [b \in Booker |-> IF b = Importer THEN FALSE
                                  ELSE IF proc[b].pc # "idle" THEN TRUE ELSE stale[b]]
    /\ UNCHANGED <<trn, sequence, views, twinned, crowded>>

\* Errors of a schedule action are dropped; those of the instrument stay.
WriteSchedules(errors) ==
    /\ Importing("write")
    /\ schedules' = IF ScheduleReaction = "clear" THEN schedules ELSE schedules + 1
    /\ crowded' = (crowded \/ stale[Importer])
    /\ ImporterMoves([proc[Importer] EXCEPT !.pc = "look", !.errors = errors])
    /\ TouchOthers(Importer)
    /\ UNCHANGED <<trn, sequence, views, twinned>>

\* exist is the first row that holds the code.
Look ==
    LET p == proc[Importer]
        owners == IF p.code = NoCode THEN {} ELSE Owners(trn, p.code)
        unique == Verdict("book", p.reaction, p.code, owners # {})
        seen == [p EXCEPT !.unique = unique, !.errors = @ \/ unique = "skip"]
    IN
    /\ Importing("look")
    /\ \/ unique = "raise" /\ ImporterMoves(Stops(p, "failed"))
       \/ unique = "overwrite" /\ \E n \in owners :
             ImporterMoves([seen EXCEPT !.pc = "drop", !.exist = {n}, !.dead = Dead({n})])
       \/ unique \notin {"raise", "overwrite"} /\ ImporterMoves([seen EXCEPT !.pc = "check"])
    /\ UNCHANGED <<trn, sequence, schedules, views, stale, twinned, crowded>>

\* The previous owner is deleted before the errors are looked at.
Drop ==
    LET p == proc[Importer] IN
    /\ Importing("drop")
    /\ IF \A n \in p.exist \ p.dead : Exists(n)
       THEN /\ trn' = AllMarked(trn, p.exist, p.dead)
            /\ ImporterMoves([p EXCEPT !.pc = "check"])
            /\ TouchOthers(Importer)
       ELSE /\ ImporterMoves(Stops(p, "failed"))
            /\ UNCHANGED <<trn, stale>>
    /\ UNCHANGED <<sequence, schedules, views, twinned, crowded>>

\* "important to return here if we already had errors"; then the count.
Check ==
    LET p == proc[Importer]
        c == WrittenCode(p)
        owners == IF c = NoCode THEN {} ELSE Owners(trn, c)
    IN
    /\ Importing("check")
    /\ IF p.errors
       THEN /\ ImporterMoves(Stops(p, IF p.unique = "skip" THEN "skip" ELSE "failed"))
            /\ UNCHANGED <<trn, stale>>
       ELSE IF Conflict(p.unique, c, owners)
       THEN /\ ImporterMoves(Stops(p, "failed"))
            /\ UNCHANGED <<trn, stale>>
       ELSE /\ trn' = AllMarked(trn, owners, Dead(owners))
            /\ ImporterMoves([p EXCEPT !.pc = "number"])
            /\ stale' = [b \in Booker |-> IF b = Importer THEN FALSE
                             ELSE IF owners # {} /\ proc[b].pc # "idle" THEN TRUE ELSE stale[b]]
    /\ UNCHANGED <<sequence, schedules, views, twinned, crowded>>

\* FakeSequence.next_value reads the value ...
NextValue ==
    /\ Importing("number")
    /\ sequence < MaxNum
    /\ ImporterMoves([proc[Importer] EXCEPT !.pc = "insert", !.num = sequence + 1])
    /\ UNCHANGED <<trn, sequence, schedules, views, stale, twinned, crowded>>

\* ... and writes it back; a number that was taken meanwhile fails the insert.
Insert ==
    LET p == proc[Importer] IN
    /\ Importing("insert")
    /\ sequence' = p.num
    /\ IF Exists(p.num)
       THEN /\ ImporterMoves(Stops([p EXCEPT !.num = NoNum], "failed"))
            /\ UNCHANGED <<trn, stale, twinned>>
       ELSE /\ trn' = [trn EXCEPT ![p.num] = [code |-> WrittenCode(p), deleted |-> FALSE,
                                              pending |-> FALSE, base |-> "none"]]
            /\ ImporterMoves([p EXCEPT !.pc = "base"])
            /\ TwinnedBy(Importer, WrittenCode(p))
            /\ TouchOthers(Importer)
    /\ UNCHANGED <<schedules, views, crowded>>

\* Mutant: the errors of the base transactions are not collected.
BaseErrorsForgotten(p, base) == FALSE

\* transactions_errors; without its row no base transaction can be saved.
BaseErrors(p, base) == base = "part" \/ ~Exists(p.num)

\* The commands and book_create_transactions.
WriteBase(base) ==
    LET p == proc[Importer] IN
    /\ Importing("base")
    /\ base \in {"part", "full"}
    /\ trn' = IF Exists(p.num) THEN [trn EXCEPT ![p.num].base = base] ELSE trn
    /\ ImporterMoves([p EXCEPT !.pc = "finish", !.errors = BaseErrors(p, base)])
    /\ TouchOthers(Importer)
    /\ UNCHANGED <<sequence, schedules, views, twinned, crowded>>

\* The whole row is saved again from the object of the process, unless there
\* were errors.  A procedure type deletes its row and then fails on None.
Finish ==
    LET p == proc[Importer]
        base == IF Exists(p.num) THEN trn[p.num].base ELSE "none"
        saved == [code |-> WrittenCode(p), deleted |-> FALSE, pending |-> FALSE, base |-> base]
    IN
    /\ Importing("finish")
    /\ IF p.kind = "procedure"
       THEN /\ trn' = IF Exists(p.num) THEN [trn EXCEPT ![p.num] = Marked(@)] ELSE trn
            /\ ImporterMoves(Stops(p, "failed"))
            /\ UNCHANGED twinned
       ELSE IF p.errors
       THEN /\ UNCHANGED <<trn, twinned>>
            /\ ImporterMoves(Stops(p, "failed"))
       ELSE /\ trn' = [trn EXCEPT ![p.num] = saved]
            /\ TwinnedBy(Importer, WrittenCode(p))
            /\ ImporterMoves(Stops(p, "booked"))
    /\ IF trn' # trn THEN TouchOthers(Importer) ELSE UNCHANGED stale
    /\ UNCHANGED <<sequence, schedules, views, crowded>>

ImporterStep ==
    \/ PhantomMissing
    \/ ClearSchedules
    \/ \E errors \in BOOLEAN : WriteSchedules(errors)
    \/ Look \/ Drop \/ Check
    \/ NextValue \/ Insert
    \/ \E base \in {"part", "full"} : WriteBase(base)
    \/ Finish
=============================================================================
