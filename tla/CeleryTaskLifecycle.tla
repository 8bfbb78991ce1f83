------------------------ MODULE CeleryTaskLifecycle ------------------------
(***************************************************************************)
(* The life of the CeleryTask rows of one space (poms/celery_tasks).       *)
(*                                                                         *)
(* A row is the user-visible record of a background job.  It is written    *)
(* by whole-row saves (Model.save without update_fields) from Python       *)
(* objects that several actors loaded at different times:                  *)
(*   - the BaseTask hooks of the worker (object finmars_task), loaded by   *)
(*     before_start and saved again, unrefreshed, when the body ends;      *)
(*   - the task body, which loads a second object of the same row;         *)
(*   - the API views cancel, update-status and abort-transaction-import;   *)
(*   - the sweeps auto_cancel_task_by_ttl and cancel_existing_tasks, which *)
(*     evaluate a queryset once and then save object after object.         *)
(* Nothing locks or refreshes a row, so an object is a stale copy from the *)
(* moment somebody else saves.  The module keeps every such copy.          *)
(*                                                                         *)
(* The broker and Celery's consumer are external and modelled from the     *)
(* settings: late acknowledgement, no requeue when only the child process  *)
(* is lost, redelivery when the worker or its connection is lost, and      *)
(* revocations that live in the memory of each worker.                     *)
(***************************************************************************)
EXTENDS Naturals, FiniteSets

CONSTANTS
    MaxTask,     \* number of rows ever created (bound)
    Worker,      \* celery workers; each runs one task at a time
    Ttl,         \* ids of the rows created with ttl > 0
    Report,      \* ids of the rows of the two report types
    MaxRows,     \* the 3000 of CeleryTask.save
    MaxFaults,   \* number of lost children, workers and connections (bound)
    ApiStatuses, \* the statuses that API requests ask for (bound)
    Sweeps,      \* the sweeps that happen (bound)
    NoRow,       \* a row that does not exist, a copy that was not loaded
    NoTask       \* no task

Task == 1 .. MaxTask

ASSUME SizesAssumption == MaxTask \in Nat /\ MaxRows \in Nat /\ MaxFaults \in Nat
ASSUME SetsAssumption == Ttl \subseteq Task /\ Report \subseteq Task
ASSUME EnvironmentAssumption ==
    ApiStatuses \subseteq {"C", "D", "E", "T", "X"} /\ Sweeps \subseteq {"ttl", "clear"}
ASSUME NoTaskAssumption == NoTask \notin Task

\* I(nit) P(ending) D(one) E(rror) T(imeout) C(anceled) X (transactions aborted)
Status == {"I", "P", "D", "E", "T", "C", "X"}

\* cid: celery_task_id is set; expiry: expiry_at is set; finished: finished_at is set
Row == [status : Status, cid : BOOLEAN, expiry : BOOLEAN, finished : BOOLEAN]

ASSUME NoRowAssumption == NoRow \notin Row

Copy == Row \cup {NoRow}

VARIABLES
    db,        \* the table: id -> row, or NoRow
    created,   \* ids 1 .. created were given out
    unsent,    \* rows whose message was not yet handed to the broker
    queue,     \* rows whose message waits for a worker
    run,       \* worker -> the delivery it works on
    revoked,   \* worker -> rows whose message id it remembers as revoked
    doomed,    \* workers told to terminate their child
    admin,     \* the API request between its get and its save
    sweep,     \* the sweep between its select and its last save
    faults,    \* faults so far
    unhooked,  \* history: rows a delivery of which ended without a hook's save
    verdict    \* history: how the last hook ended the row, "none" once
               \* anything else wrote the row or dropped a delivery of it

vars == <<db, created, unsent, queue, run, revoked, doomed, admin, sweep,
          faults, unhooked, verdict>>

Exists(t) == db[t] # NoRow
Running(t) == \E w \in Worker : run[w].task = t
Quiet(t) == t \notin queue /\ t \notin unsent /\ ~Running(t)

-----------------------------------------------------------------------------
(***************************************************************************)
(* CeleryTask.save: the row is written as the copy says (an UPDATE, or an  *)
(* INSERT when it was deleted meanwhile), then expiry_at is set on the     *)
(* object only, then the oldest row goes if there are too many.            *)
(***************************************************************************)
Counted(tbl) == {t \in Task \ Report : tbl[t] # NoRow}

Trimmed(tbl) ==
    IF Cardinality(Counted(tbl)) > MaxRows
    THEN [t \in Task |->
            IF t \in Counted(tbl) /\ \A u \in Counted(tbl) : t <= u
            THEN NoRow ELSE tbl[t]]
    ELSE tbl

Saved(tbl, t, copy) == Trimmed([tbl EXCEPT ![t] = copy])

\* The object after its save.
Stamped(t, copy) == [copy EXCEPT !.expiry = @ \/ t \in Ttl]

\* Mutant: the word of the API instead of the code that the column holds.
WithStatusWord(copy, s) == [copy EXCEPT !.status = IF s = "C" THEN "canceled" ELSE s]

WithStatus(copy, s) == [copy EXCEPT !.status = s]

NewRow(s) == [status |-> s, cid |-> FALSE, expiry |-> FALSE, finished |-> FALSE]

Idle == [pc |-> "idle", task |-> NoTask, held |-> FALSE, hook |-> NoRow, body |-> NoRow]
NoAdmin == [task |-> NoTask, status |-> "I", copy |-> NoRow]
NoSweep == [kind |-> "none", copies |-> [t \in Task |-> NoRow]]

Forget(tasks) == [t \in Task |-> IF t \in tasks THEN "none" ELSE verdict[t]]

Init ==
    /\ db = [t \in Task |-> NoRow]
    /\ created = 0
    /\ unsent = {}
    /\ queue = {}
    /\ run = [w \in Worker |-> Idle]
    /\ revoked = [w \in Worker |-> {}]
    /\ doomed = {}
    /\ admin = NoAdmin
    /\ sweep = NoSweep
    /\ faults = 0
    /\ unhooked = {}
    /\ verdict = [t \in Task |-> "none"]

-----------------------------------------------------------------------------
(* Creation: a view creates the row, then sends the message. *)

Create(s) ==
    LET t == created + 1 IN
    /\ created < MaxTask
    /\ created' = t
    /\ db' = Saved(db, t, NewRow(s))
    /\ unsent' = unsent \cup {t}
    /\ verdict' = Forget({t})
    /\ UNCHANGED <<queue, run, revoked, doomed, admin, sweep, faults, unhooked>>

Send(t) ==
    /\ t \in unsent
    /\ unsent' = unsent \ {t}
    /\ queue' = queue \cup {t}
    /\ UNCHANGED <<db, created, run, revoked, doomed, admin, sweep, faults, unhooked, verdict>>

-----------------------------------------------------------------------------
(* The worker: before_start, the body, and the ending hook. *)

\* before_start: whatever the row says, it becomes PENDING.
BeforeStart(w, t) ==
    LET copy == [db[t] EXCEPT !.status = "P", !.cid = TRUE]
        begun == [Idle EXCEPT !.pc = "start", !.task = t, !.held = TRUE]
    IN
    /\ run[w] = Idle
    /\ t \in queue \ revoked[w]
    /\ queue' = queue \ {t}
    /\ IF Exists(t)
       THEN /\ db' = Saved(db, t, copy)
            /\ run' = [run EXCEPT ![w] = [begun EXCEPT !.hook = Stamped(t, copy)]]
       ELSE /\ UNCHANGED db
            /\ run' = [run EXCEPT ![w] = begun]
    /\ verdict' = Forget({t})
    /\ UNCHANGED <<created, unsent, revoked, doomed, admin, sweep, faults, unhooked>>

\* A worker that remembers the revocation acknowledges the message unrun.
Discard(w, t) ==
    /\ run[w] = Idle
    /\ t \in queue \cap revoked[w]
    /\ queue' = queue \ {t}
    /\ unhooked' = unhooked \cup {t}
    /\ UNCHANGED <<db, created, unsent, run, revoked, doomed, admin, sweep, faults, verdict>>

Moves(w, from, to) ==
    /\ run[w].pc = from
    /\ run' = [run EXCEPT ![w].pc = to]

BodyUnchanged ==
    UNCHANGED <<created, unsent, queue, revoked, doomed, admin, sweep, faults, unhooked, verdict>>

\* The body loads its own object; most bodies save it as PENDING at once.
BodyLoad(w, marks) ==
    LET t == run[w].task
        copy == [db[t] EXCEPT !.status = "P", !.cid = TRUE]
    IN
    /\ run[w].pc = "start"
    /\ Exists(t)
    /\ run' = [run EXCEPT ![w].pc = "body",
                          ![w].body = IF marks THEN Stamped(t, copy) ELSE db[t]]
    /\ db' = IF marks THEN Saved(db, t, copy) ELSE db
    /\ BodyUnchanged

\* The row was deleted meanwhile: objects.get raises DoesNotExist, and only a
\* body that never looks at its row returns.
BodyNoRow(w, how) ==
    /\ Moves(w, "start", how)
    /\ ~Exists(run[w].task)
    /\ UNCHANGED db
    /\ BodyUnchanged

\* update_progress on the body's object; the storage jobs refresh it first.
BodyProgress(w, refreshes) ==
    LET t == run[w].task
        copy == IF refreshes THEN db[t] ELSE run[w].body
    IN
    /\ run[w].pc = "body"
    /\ refreshes => Exists(t)
    /\ db' = Saved(db, t, copy)
    /\ run' = [run EXCEPT ![w].body = Stamped(t, copy)]
    /\ BodyUnchanged

\* The body ends without touching its object again.
BodyEnds(w, how) ==
    /\ Moves(w, "body", how)
    /\ UNCHANGED db
    /\ BodyUnchanged

\* The body records DONE, with or without finished_at, and returns.
BodyDone(w, marks) ==
    LET t == run[w].task
        copy == [run[w].body EXCEPT !.status = "D", !.finished = @ \/ marks]
    IN
    /\ run[w].pc = "body"
    /\ db' = Saved(db, t, copy)
    /\ run' = [run EXCEPT ![w].pc = "returned", ![w].body = Stamped(t, copy)]
    /\ BodyUnchanged

\* The body records ERROR; it then re-raises or, in many tasks, just returns.
BodyError(w, how) ==
    LET t == run[w].task
        copy == WithStatus(run[w].body, "E")
    IN
    /\ run[w].pc = "body"
    /\ db' = Saved(db, t, copy)
    /\ run' = [run EXCEPT ![w].pc = how, ![w].body = Stamped(t, copy)]
    /\ BodyUnchanged

\* Mutant: mark_task_as_finished is forgotten.
HookWriteUnmarked(w, s) ==
    LET t == run[w].task IN
    IF run[w].hook = NoRow
    THEN UNCHANGED db /\ verdict' = Forget({t}) /\ unhooked' = unhooked \cup {t}
    ELSE /\ db' = Saved(db, t, [run[w].hook EXCEPT !.status = s])
         /\ verdict' = [verdict EXCEPT ![t] = s]
         /\ UNCHANGED unhooked

\* Mutant: the hook respects an ERROR that the body recorded.
HookWriteKeepsError(w, s) ==
    LET t == run[w].task IN
    /\ IF run[w].hook = NoRow \/ (Exists(t) /\ db[t].status = "E")
       THEN UNCHANGED db
       ELSE db' = Saved(db, t, [run[w].hook EXCEPT !.status = s, !.finished = TRUE])
    /\ verdict' = IF run[w].hook = NoRow THEN Forget({t}) ELSE [verdict EXCEPT ![t] = s]
    /\ unhooked' = IF run[w].hook = NoRow THEN unhooked \cup {t} ELSE unhooked

\* Mutant: on_failure fills in the object and forgets to save it.
HookWriteUnsaved(w, s) ==
    LET t == run[w].task IN
    /\ IF run[w].hook = NoRow \/ s = "E"
       THEN UNCHANGED db
       ELSE db' = Saved(db, t, [run[w].hook EXCEPT !.status = s, !.finished = TRUE])
    /\ verdict' = IF run[w].hook = NoRow THEN Forget({t}) ELSE [verdict EXCEPT ![t] = s]
    /\ unhooked' = IF run[w].hook = NoRow THEN unhooked \cup {t} ELSE unhooked

\* on_success and on_failure save the object before_start loaded.
HookWrite(w, s) ==
    LET t == run[w].task
        copy == [run[w].hook EXCEPT !.status = s, !.finished = TRUE]
    IN
    IF run[w].hook = NoRow
    THEN /\ UNCHANGED db
         /\ verdict' = Forget({t})
         /\ unhooked' = unhooked \cup {t}
    ELSE /\ db' = Saved(db, t, copy)
         /\ verdict' = [verdict EXCEPT ![t] = s]
         /\ UNCHANGED unhooked

HookEnds(w, s) ==
    /\ HookWrite(w, s)
    /\ run' = [run EXCEPT ![w] = [Idle EXCEPT !.pc = "ended", !.task = run[w].task,
                                              !.held = run[w].held]]
    /\ doomed' = doomed \ {w}
    /\ UNCHANGED <<created, unsent, queue, revoked, admin, sweep, faults>>

OnSuccess(w) == run[w].pc = "returned" /\ HookEnds(w, "D")

\* Mutant: a failed task is retried, without a limit.
OnFailureRetries(w) ==
    /\ run[w].pc = "raised"
    /\ run' = [run EXCEPT ![w] = Idle]
    /\ queue' = queue \cup {run[w].task}
    /\ doomed' = doomed \ {w}
    /\ UNCHANGED <<db, created, unsent, revoked, admin, sweep, faults, unhooked, verdict>>

OnFailure(w) == run[w].pc = "raised" /\ HookEnds(w, "E")

\* The worker acknowledges the message after the hook (late acknowledgement).
Ack(w) ==
    /\ run[w].pc = "ended"
    /\ run' = [run EXCEPT ![w] = Idle]
    /\ UNCHANGED <<db, created, unsent, queue, revoked, doomed, admin, sweep, faults,
                   unhooked, verdict>>

-----------------------------------------------------------------------------
(* Faults.  None of them runs a hook. *)

Fault == faults < MaxFaults /\ faults' = faults + 1

Executing(w) == run[w].pc \notin {"idle", "ended"}

DropDelivery(w) ==
    LET t == run[w].task IN
    /\ run' = [run EXCEPT ![w] = Idle]
    /\ doomed' = doomed \ {w}
    /\ unhooked' = unhooked \cup {t}
    /\ verdict' = Forget({t})

\* The child dies (memory, hard time limit): acknowledged, not requeued.
KillChild(w) ==
    /\ Fault
    /\ Executing(w)
    /\ DropDelivery(w)
    /\ UNCHANGED <<db, created, unsent, queue, revoked, admin, sweep>>

\* The worker obeys a revoke(terminate=True).
Terminate(w) ==
    /\ w \in doomed
    /\ DropDelivery(w)
    /\ UNCHANGED <<db, created, unsent, queue, revoked, admin, sweep, faults>>

\* Mutant: messages are acknowledged early, so nothing is delivered again.
LoseWorkerAckedEarly(w) ==
    /\ Fault
    /\ run[w] # Idle
    /\ run' = [run EXCEPT ![w] = Idle]
    /\ doomed' = doomed \ {w}
    /\ verdict' = IF Executing(w) THEN Forget({run[w].task}) ELSE verdict
    /\ \E remembered \in {{}, revoked[w]} : revoked' = [revoked EXCEPT ![w] = remembered]
    /\ UNCHANGED <<db, created, unsent, queue, admin, sweep, unhooked>>

\* The whole worker dies: an unacknowledged message is delivered again.  The
\* new process may learn the revocations from its neighbours, or not.
LoseWorker(w) ==
    LET t == run[w].task IN
    /\ Fault
    /\ run[w] # Idle
    /\ queue' = IF run[w].held THEN queue \cup {t} ELSE queue
    /\ unhooked' = IF run[w].held \/ ~Executing(w) THEN unhooked ELSE unhooked \cup {t}
    /\ verdict' = IF Executing(w) THEN Forget({t}) ELSE verdict
    /\ run' = [run EXCEPT ![w] = Idle]
    /\ doomed' = doomed \ {w}
    /\ \E remembered \in {{}, revoked[w]} : revoked' = [revoked EXCEPT ![w] = remembered]
    /\ UNCHANGED <<db, created, unsent, admin, sweep>>

\* Only the connection is lost: the child goes on, the message is delivered again.
LoseConnection(w) ==
    /\ Fault
    /\ run[w].held
    /\ run' = [run EXCEPT ![w].held = FALSE]
    /\ queue' = queue \cup {run[w].task}
    /\ UNCHANGED <<db, created, unsent, revoked, doomed, admin, sweep, unhooked, verdict>>

-----------------------------------------------------------------------------
(***************************************************************************)
(* The API: cancel (C), update-status (D, E, T) and abort (X).  The        *)
(* revocation is a broadcast; its effect is Discard, later.                *)
(***************************************************************************)
AdminRead(t, s) ==
    /\ admin = NoAdmin
    /\ Exists(t)
    /\ s \in {"D", "E", "T"} => db[t].status \notin {"E", "C"}
    /\ admin' = [task |-> t, status |-> s, copy |-> db[t]]
    /\ UNCHANGED <<db, created, unsent, queue, run, revoked, doomed, sweep, faults, unhooked, verdict>>

Revoke(t, copy) ==
    revoked' = IF copy.cid THEN [w \in Worker |-> revoked[w] \cup {t}] ELSE revoked

\* cancel and update-status.
AdminWrite ==
    LET t == admin.task IN
    /\ admin # NoAdmin
    /\ admin.status # "X"
    /\ IF admin.status = "C" THEN Revoke(t, admin.copy) ELSE UNCHANGED revoked
    /\ db' = Saved(db, t, WithStatus(admin.copy, admin.status))
    /\ verdict' = Forget({t})
    /\ admin' = NoAdmin
    /\ UNCHANGED <<created, unsent, queue, run, doomed, sweep, faults, unhooked>>

\* abort-transaction-import: a bulk_delete task is created and sent first.
AbortWrite ==
    LET t == admin.task
        u == created + 1
    IN
    /\ admin # NoAdmin
    /\ admin.status = "X"
    /\ created < MaxTask
    /\ created' = u
    /\ queue' = queue \cup {u}
    /\ db' = Saved(Saved(db, u, NewRow("I")), t, WithStatus(admin.copy, "X"))
    /\ verdict' = Forget({t, u})
    /\ admin' = NoAdmin
    /\ UNCHANGED <<unsent, run, revoked, doomed, sweep, faults, unhooked>>

-----------------------------------------------------------------------------
(* Sweeps: one queryset, then one save per object, newest row first. *)

SweepSelect(kind, tasks) ==
    /\ sweep = NoSweep
    /\ kind \in Sweeps
    /\ tasks # {}
    /\ sweep' = [kind |-> kind, copies |-> [t \in Task |-> IF t \in tasks THEN db[t] ELSE NoRow]]
    /\ UNCHANGED <<db, created, unsent, queue, run, revoked, doomed, admin, faults, unhooked, verdict>>

\* auto_cancel_task_by_ttl: PENDING rows whose stored expiry_at has passed.
TtlSelect ==
    \E tasks \in SUBSET {t \in Task : Exists(t) /\ db[t].status = "P" /\ db[t].expiry} :
        SweepSelect("ttl", tasks)

\* cancel_existing_tasks, on the start of a deployment.
ClearSelect == SweepSelect("clear", {t \in Task : Exists(t) /\ db[t].status \in {"P", "I"}})

SweepNext(t) ==
    /\ sweep.copies[t] # NoRow
    /\ \A u \in Task : sweep.copies[u] # NoRow => u <= t

SweptOff(t) ==
    LET left == [sweep.copies EXCEPT ![t] = NoRow] IN
    IF left = NoSweep.copies THEN NoSweep ELSE [sweep EXCEPT !.copies = left]

TtlWrite(t) ==
    /\ sweep.kind = "ttl"
    /\ SweepNext(t)
    /\ db' = Saved(db, t, WithStatus(sweep.copies[t], "T"))
    /\ verdict' = Forget({t})
    /\ sweep' = SweptOff(t)
    /\ UNCHANGED <<created, unsent, queue, run, revoked, doomed, admin, faults, unhooked>>

\* A row that never started has no celery_task_id: its message stays queued.
ClearWrite(t) ==
    LET copy == sweep.copies[t] IN
    /\ sweep.kind = "clear"
    /\ SweepNext(t)
    /\ Revoke(t, copy)
    /\ doomed' = IF copy.cid THEN doomed \cup {w \in Worker : run[w].task = t /\ Executing(w)} ELSE doomed
    /\ db' = Saved(db, t, WithStatus(copy, "C"))
    /\ verdict' = Forget({t})
    /\ sweep' = SweptOff(t)
    /\ UNCHANGED <<created, unsent, queue, run, admin, faults, unhooked>>

\* remove_old_tasks: every row older than thirty days, whatever its status.
RemoveOld(last) ==
    /\ \E t \in 1 .. last : Exists(t)
    /\ db' = [t \in Task |-> IF t <= last THEN NoRow ELSE db[t]]
    /\ UNCHANGED <<created, unsent, queue, run, revoked, doomed, admin, sweep, faults, unhooked, verdict>>

-----------------------------------------------------------------------------
Consume(w) == \E t \in Task : BeforeStart(w, t) \/ Discard(w, t)

BodyBegin(w) ==
    \/ \E how \in {"returned", "raised"} : BodyNoRow(w, how)
    \/ \E marks \in BOOLEAN : BodyLoad(w, marks)

BodyFinish(w) ==
    \/ \E how \in {"returned", "raised"} : BodyEnds(w, how) \/ BodyError(w, how)
    \/ \E marks \in BOOLEAN : BodyDone(w, marks)

WorkerStep(w) ==
    \/ Consume(w)
    \/ BodyBegin(w)
    \/ \E refreshes \in BOOLEAN : BodyProgress(w, refreshes)
    \/ BodyFinish(w)
    \/ OnSuccess(w)
    \/ OnFailure(w)
    \/ Ack(w)

FaultStep(w) == KillChild(w) \/ Terminate(w) \/ LoseWorker(w) \/ LoseConnection(w)

OutsideStep ==
    \/ \E s \in {"I", "P"} : Create(s)
    \/ \E t \in Task : Send(t)
    \/ \E t \in Task, s \in ApiStatuses : AdminRead(t, s)
    \/ AdminWrite
    \/ AbortWrite
    \/ TtlSelect
    \/ ClearSelect
    \/ \E t \in Task : TtlWrite(t) \/ ClearWrite(t)
    \/ \E last \in Task : RemoveOld(last)

Next == (\E w \in Worker : WorkerStep(w) \/ FaultStep(w)) \/ OutsideStep

(***************************************************************************)
(* A running worker consumes, executes and ends its hooks; nothing obliges *)
(* a fault, an API request or a sweep to happen.  A body ends because of   *)
(* CELERY_TASK_TIME_LIMIT.                                                 *)
(***************************************************************************)
Fairness ==
    \A w \in Worker :
        /\ WF_vars(Consume(w))
        /\ WF_vars(BodyBegin(w))
        /\ WF_vars(BodyFinish(w))
        /\ WF_vars(OnSuccess(w))
        /\ WF_vars(OnFailure(w))
        /\ WF_vars(Ack(w))

Spec == Init /\ [][Next]_vars /\ Fairness

-----------------------------------------------------------------------------
(* Properties. *)

Run == [pc : {"idle", "start", "body", "returned", "raised", "ended"},
        task : Task \cup {NoTask}, held : BOOLEAN, hook : Copy, body : Copy]

(***************************************************************************)
(* Type invariant.  It also says that every write of CeleryTask.status is  *)
(* one of the codes of STATUS_CHOICES, whichever view or hook makes it.    *)
(***************************************************************************)
TypeOK ==
    /\ db \in [Task -> Copy]
    /\ created \in 0 .. MaxTask
    /\ unsent \subseteq Task
    /\ queue \subseteq Task
    /\ run \in [Worker -> Run]
    /\ revoked \in [Worker -> SUBSET Task]
    /\ doomed \subseteq Worker
    /\ admin \in [task : Task \cup {NoTask}, status : Status \ {"P"}, copy : Copy]
    /\ sweep \in [kind : {"none", "ttl", "clear"}, copies : [Task -> Copy]]
    /\ faults \in 0 .. MaxFaults
    /\ unhooked \subseteq Task
    /\ verdict \in [Task -> {"none", "D", "E"}]

(***************************************************************************)
(* No row is PENDING for ever without reason: while a row says PENDING,    *)
(* its message is still to be sent, waits in the queue or is worked on, or *)
(* one of its deliveries ended without a hook (child killed or terminated, *)
(* message discarded).  The stale saves of bodies, views and sweeps, the   *)
(* second run after a redelivery and the re-insertion of deleted rows must *)
(* all respect it.                                                         *)
(***************************************************************************)
PendingHasOwner ==
    \A t \in Task :
        Exists(t) /\ db[t].status = "P" => ~Quiet(t) \/ t \in unhooked

(***************************************************************************)
(* The last hook has the last word: when all deliveries of a row are over  *)
(* and neither an API request nor a sweep wrote it since its last hook,    *)
(* the row shows what that hook recorded and when it finished.  Saves of   *)
(* the body's object, made before or by an overlapping second run, must    *)
(* not survive it.                                                         *)
(***************************************************************************)
OutcomeRecorded ==
    \A t \in Task :
        Exists(t) /\ Quiet(t) /\ verdict[t] # "none"
            => db[t].status = verdict[t] /\ db[t].finished

(***************************************************************************)
(* Every message that reached the broker is dealt with: the row ends up    *)
(* quiet, and then it is not PENDING unless a delivery ended without a     *)
(* hook.  Workers run one task at a time and may be lost meanwhile.        *)
(***************************************************************************)
Settles ==
    \A t \in Task :
        t \in queue ~> /\ Quiet(t)
                       /\ Exists(t) /\ db[t].status = "P" => t \in unhooked
=============================================================================
