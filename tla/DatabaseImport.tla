--------------------------- MODULE DatabaseImport ---------------------------
(***************************************************************************)
(* Import of instruments, currencies, companies and prices from the        *)
(* Finmars Database service (poms/integrations).                           *)
(*                                                                         *)
(* Three handlers write the CeleryTask row of one import, each from its    *)
(* own copy and always as a whole row:                                     *)
(*   - "request": the API view, which creates the row, schedules           *)
(*     ttl_finisher, posts to the service and handles its answer;          *)
(*   - "callback": the callback view, run when the service answers later;  *)
(*   - the finisher: ttl_finisher on a worker, with the BaseTask hooks     *)
(*     around it, which save the very row that it is to time out.          *)
(* The instrument tasks of one instance all ask for the same user_code.    *)
(* The service is external: it answers or not, calls back or not, and may  *)
(* call back more than once.                                               *)
(***************************************************************************)
EXTENDS Naturals

CONSTANTS
    Task,           \* the import tasks
    InstrumentTask, \* those that import the instrument
    PriceTask,      \* those that import prices
    MaxCallbacks,   \* callbacks of the service per task (bound)
    MaxFaults,      \* lost processes (bound)
    NoRow           \* a row not created, a copy not loaded

ASSUME TaskAssumption ==
    InstrumentTask \subseteq Task /\ PriceTask \subseteq Task \ InstrumentTask
ASSUME BoundAssumption == MaxCallbacks \in Nat /\ MaxFaults \in Nat

\* result_object: the task id only, also the remote task, the imported object,
\* or the message that on_success writes when a task returns nothing.
Row == [status : {"P", "D", "E", "T"}, result : {"task", "remote", "object", "message"}]

ASSUME NoRowAssumption == NoRow \notin Row

VARIABLES
    row,      \* task -> its row
    handler,  \* <<task, "request" or "callback">> -> the view's progress
    finisher, \* task -> ttl_finisher's progress
    owed,     \* task -> callbacks the service may still make
    object,   \* the instrument, and the currency or company, that is imported
    faults    \* faults so far

vars == <<row, handler, finisher, owed, object, faults>>

Party == {"request", "callback"}
Subject(t) == IF t \in InstrumentTask THEN "instrument" ELSE "other"

NoHandler == [pc |-> "off", data |-> "full", found |-> FALSE, copy |-> NoRow]
NoFinisher == [pc |-> "off", late |-> FALSE, hook |-> NoRow, body |-> NoRow]

Init ==
    /\ row = [t \in Task |-> NoRow]
    /\ handler = [h \in Task \X Party |-> NoHandler]
    /\ finisher = [t \in Task |-> NoFinisher]
    /\ owed = [t \in Task |-> 0]
    /\ object = [s \in {"instrument", "other"} |-> "none"]
    /\ faults = 0

Moves(h, from, to) == handler[h].pc = from /\ handler' = [handler EXCEPT ![h].pc = to]

\* The view returns; its copy is gone.
Returns(h) == handler' = [handler EXCEPT ![h] = [NoHandler EXCEPT !.pc = "done"]]
Ends(h, from) == handler[h].pc = from /\ Returns(h)

Saves(t, copy) == row' = [row EXCEPT ![t] = copy]

-----------------------------------------------------------------------------
(* The request: create_task, then import_from_database_task. *)

Create(t) ==
    /\ Moves(<<t, "request">>, "off", "created")
    /\ Saves(t, [status |-> "P", result |-> "task"])
    /\ UNCHANGED <<finisher, owed, object, faults>>

Schedule(t) ==
    /\ Moves(<<t, "request">>, "created", "scheduled")
    /\ finisher' = [finisher EXCEPT ![t].pc = "waiting"]
    /\ UNCHANGED <<row, owed, object, faults>>

\* The callback urls know no "price": such a task returns at once.
Load(t) ==
    LET h == <<t, "request">> IN
    /\ handler[h].pc = "scheduled"
    /\ IF t \in PriceTask
       THEN Returns(h)
       ELSE handler' = [handler EXCEPT ![h].pc = "loaded", ![h].copy = row[t]]
    /\ UNCHANGED <<row, finisher, owed, object, faults>>

Post(t) ==
    LET h == <<t, "request">> IN
    /\ Moves(h, "loaded", "posted")
    /\ Saves(t, handler[h].copy)
    /\ owed' = [owed EXCEPT ![t] = MaxCallbacks]
    /\ UNCHANGED <<finisher, object, faults>>

\* DATA_READY
AnswerData(t) ==
    /\ Moves(<<t, "request">>, "posted", "find")
    /\ UNCHANGED <<row, finisher, owed, object, faults>>

\* TASK_CREATED: an instrument is created at once from the narrow data.
AnswerTask(t) ==
    LET h == <<t, "request">>
        copy == [handler[h].copy EXCEPT !.result = "remote"]
    IN
    /\ handler[h].pc = "posted"
    /\ IF t \in InstrumentTask
       THEN /\ handler' = [handler EXCEPT ![h].pc = "find", ![h].data = "narrow"]
            /\ UNCHANGED row
       ELSE Returns(h) /\ Saves(t, copy)
    /\ UNCHANGED <<finisher, owed, object, faults>>

\* Mutant: the service's word for an error instead of the column's code.
AnswerErrorWord(t) ==
    LET h == <<t, "request">> IN
    /\ Ends(h, "posted")
    /\ Saves(t, [handler[h].copy EXCEPT !.status = "error"])
    /\ UNCHANGED <<finisher, owed, object, faults>>

\* ERROR, no answer, or an answer that cannot be read.
AnswerError(t) ==
    LET h == <<t, "request">> IN
    /\ Ends(h, "posted")
    /\ Saves(t, [handler[h].copy EXCEPT !.status = "E"])
    /\ UNCHANGED <<finisher, owed, object, faults>>

-----------------------------------------------------------------------------
(* The callback view: validate loads the row and never looks at its status. *)

Callback(t) ==
    LET h == <<t, "callback">> IN
    /\ owed[t] > 0
    /\ owed' = [owed EXCEPT ![t] = @ - 1]
    /\ handler[h].pc \in {"off", "done"}
    /\ handler' = [handler EXCEPT ![h] = [NoHandler EXCEPT !.pc = "find", !.copy = row[t]]]
    /\ UNCHANGED <<row, finisher, object, faults>>

\* ValidationError: nothing is saved.
Reject(t) ==
    /\ Ends(<<t, "callback">>, "find")
    /\ UNCHANGED <<row, finisher, owed, object, faults>>

-----------------------------------------------------------------------------
(* Both views create or update the object: look it up, write it, record it. *)

Find(h) ==
    /\ handler[h].pc = "find"
    /\ handler' = [handler EXCEPT ![h].pc = "write", ![h].found = object[Subject(h[1])] # "none"]
    /\ UNCHANGED <<row, finisher, owed, object, faults>>

\* Mutant: create_simple_instrument does not return the instrument it found.
WriteOverFound(h) ==
    LET s == Subject(h[1]) IN
    /\ Moves(h, "write", "record")
    /\ object' = [object EXCEPT ![s] = IF handler[h].data = "full" THEN "full" ELSE "stub"]
    /\ UNCHANGED <<row, finisher, owed, faults>>

\* An object that appeared since Find makes the insert fail (user_code is
\* unique).  A "stub" is an inactive instrument made from narrow data; narrow
\* data leave an instrument that was found alone.
Write(h) ==
    LET s == Subject(h[1]) IN
    /\ Moves(h, "write", "record")
    /\ handler[h].found \/ object[s] = "none"
    /\ object' = [object EXCEPT ![s] =
                    IF handler[h].data = "full" THEN "full"
                    ELSE IF handler[h].found THEN @ ELSE "stub"]
    /\ UNCHANGED <<row, finisher, owed, faults>>

\* No such type, invalid data, or a failed insert.
Fail(h) ==
    /\ Ends(h, "write")
    /\ Saves(h[1], [handler[h].copy EXCEPT !.status = "E"])
    /\ UNCHANGED <<finisher, owed, object, faults>>

\* Mutant: the narrow answer is recorded like a full one.
RecordAllDone(h) ==
    /\ Ends(h, "record")
    /\ Saves(h[1], [status |-> "D", result |-> "object"])
    /\ UNCHANGED <<finisher, owed, object, faults>>

\* Mutant: success_task_response does not set the status.
RecordUnfinished(h) ==
    /\ Ends(h, "record")
    /\ Saves(h[1], [handler[h].copy EXCEPT !.result = "object"])
    /\ UNCHANGED <<finisher, owed, object, faults>>

\* Full data make the task DONE; narrow data leave the status of the copy.
Record(h) ==
    LET copy == [handler[h].copy EXCEPT !.result = "object"] IN
    /\ Ends(h, "record")
    /\ Saves(h[1], IF handler[h].data = "full" THEN [copy EXCEPT !.status = "D"] ELSE copy)
    /\ UNCHANGED <<finisher, owed, object, faults>>

-----------------------------------------------------------------------------
(***************************************************************************)
(* ttl_finisher.  Its countdown outlasts the steps between scheduling and  *)
(* posting, which wait for nothing; only the service may take longer.      *)
(***************************************************************************)

\* The worker's process is through with it; its objects are gone.
FinisherMoves(t, to) ==
    finisher' = [finisher EXCEPT ![t] = [NoFinisher EXCEPT !.pc = to, !.late = finisher[t].late]]

\* before_start: late records that the request is still at work.
FinisherStart(t) ==
    LET pc == handler[<<t, "request">>].pc
        copy == [row[t] EXCEPT !.status = "P"]
    IN
    /\ finisher[t].pc = "waiting"
    /\ pc \notin {"scheduled", "loaded"}
    /\ finisher' = [finisher EXCEPT ![t] =
                      [pc |-> "started", late |-> pc # "done", hook |-> copy, body |-> NoRow]]
    /\ Saves(t, copy)
    /\ UNCHANGED <<handler, owed, object, faults>>

FinisherLoad(t) ==
    /\ finisher[t].pc = "started"
    /\ finisher' = [finisher EXCEPT ![t].pc = "loaded", ![t].body = row[t]]
    /\ UNCHANGED <<row, handler, owed, object, faults>>

Final == {"D", "E", "T"}

FinisherWrite(t) ==
    LET body == finisher[t].body IN
    /\ finisher[t].pc = "loaded"
    /\ finisher' = [finisher EXCEPT ![t].pc = "returned"]
    /\ IF body.status \in Final THEN UNCHANGED row ELSE Saves(t, [body EXCEPT !.status = "T"])
    /\ UNCHANGED <<handler, owed, object, faults>>

\* Mutant: on_success records a result and no status.
FinisherEndNoStatus(t) ==
    /\ finisher[t].pc = "returned"
    /\ FinisherMoves(t, "done")
    /\ Saves(t, [finisher[t].hook EXCEPT !.result = "message"])
    /\ UNCHANGED <<handler, owed, object, faults>>

\* on_success of a task that returns nothing, from before_start's object.
FinisherEnd(t) ==
    /\ finisher[t].pc = "returned"
    /\ FinisherMoves(t, "done")
    /\ Saves(t, [finisher[t].hook EXCEPT !.status = "D", !.result = "message"])
    /\ UNCHANGED <<handler, owed, object, faults>>

-----------------------------------------------------------------------------
Fault == faults < MaxFaults /\ faults' = faults + 1

\* A web process dies in the middle of a view.
LoseView(h) ==
    /\ Fault
    /\ handler[h].pc \notin {"off", "done"}
    /\ Returns(h)
    /\ UNCHANGED <<row, finisher, owed, object>>

\* The worker dies (its message comes back) or only its child (it does not).
LoseFinisher(t, after) ==
    /\ Fault
    /\ finisher[t].pc \in {"started", "loaded", "returned"}
    /\ FinisherMoves(t, after)
    /\ UNCHANGED <<row, handler, owed, object>>

-----------------------------------------------------------------------------
RequestStep(t) ==
    \/ Create(t) \/ Schedule(t) \/ Load(t) \/ Post(t)
    \/ AnswerData(t) \/ AnswerTask(t) \/ AnswerError(t)

ObjectStep(h) == Find(h) \/ Write(h) \/ Fail(h) \/ Record(h)

FinisherStep(t) == FinisherStart(t) \/ FinisherLoad(t) \/ FinisherWrite(t) \/ FinisherEnd(t)

Next ==
    \/ \E t \in Task :
          \/ RequestStep(t)
          \/ Callback(t)
          \/ Reject(t)
          \/ FinisherStep(t)
          \/ \E after \in {"waiting", "lost"} : LoseFinisher(t, after)
    \/ \E h \in Task \X Party : ObjectStep(h) \/ LoseView(h)

\* HTTP calls time out, workers run; nobody has to call back or to import.
Fairness ==
    /\ \A t \in Task :
          /\ WF_vars(Schedule(t) \/ Load(t) \/ Post(t))
          /\ WF_vars(AnswerData(t) \/ AnswerTask(t) \/ AnswerError(t))
          /\ WF_vars(FinisherStep(t))
    /\ \A h \in Task \X Party : WF_vars(ObjectStep(h))

Spec == Init /\ [][Next]_vars /\ Fairness

-----------------------------------------------------------------------------
(* Properties. *)

Copy == Row \cup {NoRow}

(***************************************************************************)
(* Type invariant: every handler writes rows of known statuses and results *)
(* and holds a loaded copy while it needs one.                             *)
(***************************************************************************)
TypeOK ==
    /\ row \in [Task -> Copy]
    /\ handler \in [Task \X Party ->
          [pc : {"off", "created", "scheduled", "loaded", "posted", "find", "write", "record", "done"},
           data : {"full", "narrow"}, found : BOOLEAN, copy : Copy]]
    /\ finisher \in [Task ->
          [pc : {"off", "waiting", "started", "loaded", "returned", "done", "lost"},
           late : BOOLEAN, hook : Copy, body : Copy]]
    /\ owed \in [Task -> 0 .. MaxCallbacks]
    /\ object \in [{"instrument", "other"} -> {"none", "stub", "full"}]
    /\ faults \in 0 .. MaxFaults

(***************************************************************************)
(* A task that says DONE and names its object has imported it in full: no  *)
(* order of narrow answer, callbacks and finisher presents the inactive    *)
(* placeholder as a finished import.                                       *)
(***************************************************************************)
DoneNamesFull ==
    \A t \in Task :
        row[t] # NoRow /\ row[t].status = "D" /\ row[t].result = "object"
            => object[Subject(t)] = "full"

(***************************************************************************)
(* A task whose request had returned when the finisher began is not        *)
(* PENDING after the finisher, whatever callbacks do before, while and     *)
(* after it runs.  (A late request makes it PENDING again: it saves the    *)
(* copy that it loaded before its post.)                                   *)
(***************************************************************************)
InTimeSettled ==
    \A t \in Task :
        finisher[t].pc = "done" /\ ~finisher[t].late => row[t].status # "P"

(***************************************************************************)
(* An object imported in full never falls back to the placeholder that     *)
(* create_simple_instrument makes from narrow data, although that answer   *)
(* may be handled while the callback of the full one, or the import of the *)
(* same instrument by another task, is in progress.                        *)
(***************************************************************************)
FullStaysFull ==
    [][\A s \in DOMAIN object : object[s] = "full" => object'[s] = "full"]_vars

(***************************************************************************)
(* The row of an import keeps leaving PENDING: the finisher ends it unless *)
(* the request died before scheduling it, the finisher's child died, or    *)
(* the request was late.  For prices it is all there is.                   *)
(***************************************************************************)
Expires ==
    \A t \in Task :
        []<>(\/ row[t] = NoRow \/ row[t].status # "P"
             \/ finisher[t].pc \in {"off", "lost"}
             \/ finisher[t].late)
=============================================================================
