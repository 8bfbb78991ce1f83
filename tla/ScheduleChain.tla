---------------------------- MODULE ScheduleChain ----------------------------
(***************************************************************************)
(* A schedule: procedures in an order, executed one after another.         *)
(*                                                                         *)
(* schedules.process creates a ScheduleInstance and sends the first step.  *)
(* A step that is a data procedure asks a remote server for data and sends *)
(* them to an import in two messages; the import ends by calling           *)
(* run_next_procedure, which counts the instance one step up and sends the *)
(* next step.  No other type of procedure calls it.                        *)
(*                                                                         *)
(* Every message may be delivered again while its first delivery is at     *)
(* work (CELERY_ACKS_LATE), so that run_next_procedure can run twice, each *)
(* time on a copy of the instance that it saves as a whole.                *)
(***************************************************************************)
EXTENDS Naturals

CONSTANTS
    Instance,  \* runs of schedules (bound)
    Steps,     \* number of procedures of a schedule, in the orders 0, 1, ...
    Schedule,  \* schedules: the orders of a schedule's data procedures that
               \* have the universal provider
    Worker,
    Continue,  \* error_handler is "continue"
    MaxFaults, \* redeliveries, lost children and failures (bound)
    NoRow, NoMessage

Order == 0 .. Steps - 1

ASSUME StepsAssumption == Steps \in Nat \ {0} /\ MaxFaults \in Nat
ASSUME KindsAssumption == Schedule \subseteq SUBSET Order /\ Continue \in BOOLEAN

\* "step": process_procedure_async; "json": ..._import_by_procedure_json;
\* "import": simple_import or transaction_import.
Message == [kind : {"step", "json", "import"}, instance : Instance, order : Order]

\* STATUS_DONE is never used.  current is counted up to Steps in memory only.
Row == [schedule : Schedule, status : {"I", "P", "E"}, current : 0 .. Steps]

ASSUME NullAssumption == NoRow \notin Row /\ NoMessage \notin Message

VARIABLES
    instance, \* the table of ScheduleInstance
    starter,  \* progress of schedules.process for each instance
    queue,    \* message -> how often it waits
    run,      \* worker -> what it does
    started,  \* history: instance -> steps that were sent
    ended,    \* history: instance -> steps whose import called run_next_procedure
    repeated, \* history: instances of which a message was redelivered
    failed,   \* history: instances of which a step failed or was lost
    faults

vars == <<instance, starter, queue, run, started, ended, repeated, failed, faults>>

Idle == [pc |-> "idle", message |-> NoMessage, copy |-> NoRow]

IsData(i, k) == k \in instance[i].schedule

Init ==
    /\ instance = [i \in Instance |-> NoRow]
    /\ starter = [i \in Instance |-> "none"]
    /\ queue = [m \in Message |-> 0]
    /\ run = [w \in Worker |-> Idle]
    /\ started = [i \in Instance |-> {}]
    /\ ended = [i \in Instance |-> {}]
    /\ repeated = {}
    /\ failed = {}
    /\ faults = 0

Send(kind, i, k) ==
    queue' = [queue EXCEPT ![[kind |-> kind, instance |-> i, order |-> k]] = @ + 1]

StartStep(i, k) ==
    /\ Send("step", i, k)
    /\ started' = [started EXCEPT ![i] = @ \cup {k}]

\* The faults end: each is counted.
Fault == faults < MaxFaults /\ faults' = faults + 1

FailureOf(i) == Fault /\ failed' = failed \cup {i}

-----------------------------------------------------------------------------
(* schedules.process, started by Celery Beat or a user *)

ProcessCreate(i, s) ==
    /\ starter[i] = "none"
    /\ starter' = [starter EXCEPT ![i] = "created"]
    /\ instance' = [instance EXCEPT ![i] = [schedule |-> s, status |-> "I", current |-> 0]]
    /\ UNCHANGED <<queue, run, started, ended, repeated, failed, faults>>

ProcessPending(i) ==
    /\ starter[i] = "created"
    /\ starter' = [starter EXCEPT ![i] = "pending"]
    /\ instance' = [instance EXCEPT ![i].status = "P"]
    /\ UNCHANGED <<queue, run, started, ended, repeated, failed, faults>>

ProcessSend(i) ==
    /\ starter[i] = "pending"
    /\ starter' = [starter EXCEPT ![i] = "over"]
    /\ StartStep(i, 0)
    /\ UNCHANGED <<instance, run, ended, repeated, failed, faults>>

ProcessSendFails(i) ==
    /\ starter[i] = "pending"
    /\ FailureOf(i)
    /\ starter' = [starter EXCEPT ![i] = "over"]
    /\ instance' = [instance EXCEPT ![i].status = "E"]
    /\ UNCHANGED <<queue, run, started, ended, repeated>>

ProcessLost(i) ==
    /\ starter[i] \in {"created", "pending"}
    /\ FailureOf(i)
    /\ starter' = [starter EXCEPT ![i] = "over"]
    /\ UNCHANGED <<instance, queue, run, started, ended, repeated>>

-----------------------------------------------------------------------------
(* Workers *)

Works(w, pc, kind) == run[w].pc = pc /\ run[w].message.kind = kind

Goes(w, pc) == run' = [run EXCEPT ![w].pc = pc]

Of(w) == run[w].message.instance

Take(w) ==
    /\ run[w] = Idle
    /\ \E m \in Message :
          /\ queue[m] > 0
          /\ queue' = [queue EXCEPT ![m] = @ - 1]
          /\ run' = [run EXCEPT ![w] = [pc |-> "run", message |-> m, copy |-> NoRow]]
    /\ UNCHANGED <<instance, starter, started, ended, repeated, failed, faults>>

Acknowledge(w) ==
    /\ run[w].pc = "end"
    /\ run' = [run EXCEPT ![w] = Idle]
    /\ UNCHANGED <<instance, starter, queue, started, ended, repeated, failed, faults>>

\* The connection is lost, the broker delivers the message again; the child works on.
Redeliver(w) ==
    /\ run[w].pc # "idle"
    /\ Fault
    /\ Send(run[w].message.kind, Of(w), run[w].message.order)
    /\ repeated' = repeated \cup {Of(w)}
    /\ UNCHANGED <<instance, starter, run, started, ended, failed>>

\* A lost child's message is acknowledged (CELERY_TASK_REJECT_ON_WORKER_LOST is off).
LoseChild(w) ==
    /\ run[w].pc \notin {"idle", "end"}
    /\ FailureOf(Of(w))
    /\ run' = [run EXCEPT ![w] = Idle]
    /\ UNCHANGED <<instance, starter, queue, started, ended, repeated>>

\* Every task logs what went wrong, at most, and stops: no configuration, no
\* answer, no scheme, a file that cannot be parsed.
Fails(w) ==
    /\ run[w].pc = "run"
    /\ FailureOf(Of(w))
    /\ Goes(w, "end")
    /\ UNCHANGED <<instance, starter, queue, started, ended, repeated>>

-----------------------------------------------------------------------------
(* process_procedure_async and DataProcedureProcess.process *)

\* Mutant: the next step is begun as soon as the data have come.
DataStepAdvances(w) ==
    /\ Works(w, "run", "step")
    /\ IsData(Of(w), run[w].message.order)
    /\ Send("json", Of(w), run[w].message.order)
    /\ run' = [run EXCEPT ![w].pc = "next",
                          ![w].copy = [instance[Of(w)] EXCEPT !.current = @ + 1]]
    /\ UNCHANGED <<instance, starter, started, ended, repeated, failed, faults>>

DataStep(w) ==
    /\ Works(w, "run", "step")
    /\ IsData(Of(w), run[w].message.order)
    /\ Send("json", Of(w), run[w].message.order)
    /\ Goes(w, "end")
    /\ UNCHANGED <<instance, starter, started, ended, repeated, failed, faults>>

\* A pricing, an expression or a file procedure.
OtherStep(w) ==
    /\ Works(w, "run", "step")
    /\ ~IsData(Of(w), run[w].message.order)
    /\ Goes(w, "end")
    /\ UNCHANGED <<instance, starter, queue, started, ended, repeated, failed, faults>>

ByProcedureJson(w) ==
    /\ Works(w, "run", "json")
    /\ Send("import", Of(w), run[w].message.order)
    /\ Goes(w, "end")
    /\ UNCHANGED <<instance, starter, started, ended, repeated, failed, faults>>

-----------------------------------------------------------------------------
(* The import and ScheduleInstance.run_next_procedure.  Errors of rows and *)
(* of the whole file do not keep the import from calling it.               *)

\* Mutant: an import with errors does not call it.
ImportWithoutErrorsEnds(w) ==
    /\ Works(w, "run", "import")
    /\ \/ run' = [run EXCEPT ![w].pc = "next",
                             ![w].copy = [instance[Of(w)] EXCEPT !.current = @ + 1]]
       \/ Goes(w, "end")
    /\ ended' = [ended EXCEPT ![Of(w)] = @ \cup {run[w].message.order}]
    /\ UNCHANGED <<instance, starter, queue, started, repeated, failed, faults>>

\* The instance is loaded here, by way of the procedure instance.
ImportEnds(w) ==
    /\ Works(w, "run", "import")
    /\ run' = [run EXCEPT ![w].pc = "next",
                          ![w].copy = [instance[Of(w)] EXCEPT !.current = @ + 1]]
    /\ ended' = [ended EXCEPT ![Of(w)] = @ \cup {run[w].message.order}]
    /\ UNCHANGED <<instance, starter, queue, started, repeated, failed, faults>>

\* Mutant: one procedure too many.
HasOneMore(k) == k <= Steps

HasProcedure(k) == k \in Order

GoesOn(copy) == HasProcedure(copy.current) /\ (copy.status # "E" \/ Continue)

NoNext(w) ==
    /\ run[w].pc = "next"
    /\ ~GoesOn(run[w].copy)
    /\ Goes(w, "end")
    /\ UNCHANGED <<instance, starter, queue, started, ended, repeated, failed, faults>>

\* Mutant: the counted instance is not saved.
NextUnsaved(w) ==
    /\ run[w].pc = "next"
    /\ GoesOn(run[w].copy)
    /\ Goes(w, "send")
    /\ UNCHANGED <<instance, starter, queue, started, ended, repeated, failed, faults>>

NextSave(w) ==
    /\ run[w].pc = "next"
    /\ GoesOn(run[w].copy)
    /\ instance' = [instance EXCEPT ![Of(w)] = run[w].copy]
    /\ Goes(w, "send")
    /\ UNCHANGED <<starter, queue, started, ended, repeated, failed, faults>>

NextSend(w) ==
    /\ run[w].pc = "send"
    /\ StartStep(Of(w), run[w].copy.current)
    /\ Goes(w, "end")
    /\ UNCHANGED <<instance, starter, ended, repeated, failed, faults>>

NextSendFails(w) ==
    /\ run[w].pc = "send"
    /\ FailureOf(Of(w))
    /\ instance' = [instance EXCEPT ![Of(w)] = [run[w].copy EXCEPT !.status = "E"]]
    /\ Goes(w, "end")
    /\ UNCHANGED <<starter, queue, started, ended, repeated>>

-----------------------------------------------------------------------------
Starts(i) == ProcessPending(i) \/ ProcessSend(i)

WorkerRuns(w) ==
    \/ Take(w) \/ Acknowledge(w)
    \/ DataStep(w) \/ OtherStep(w) \/ ByProcedureJson(w) \/ ImportEnds(w)
    \/ NoNext(w) \/ NextSave(w) \/ NextSend(w)

Next ==
    \/ \E i \in Instance : 
          \/ \E s \in Schedule : ProcessCreate(i, s)
          \/ Starts(i) \/ ProcessSendFails(i) \/ ProcessLost(i)
    \/ \E w \in Worker :
          WorkerRuns(w) \/ Redeliver(w) \/ LoseChild(w) \/ Fails(w) \/ NextSendFails(w)

\* Tasks go on and workers take messages; nobody has to start a schedule.
Fairness ==
    /\ \A i \in Instance : WF_vars(Starts(i))
    /\ \A w \in Worker : WF_vars(WorkerRuns(w))

Spec == Init /\ [][Next]_vars /\ Fairness

-----------------------------------------------------------------------------
(* Properties *)

(***************************************************************************)
(* Type invariant: the number that is saved or sent is that of a step.     *)
(***************************************************************************)
TypeOK ==
    /\ instance \in [Instance -> {NoRow} \cup {row \in Row : row.current \in Order}]
    /\ starter \in [Instance -> {"none", "created", "pending", "over"}]
    /\ queue \in [Message -> 0 .. 1 + MaxFaults]
    /\ run \in [Worker -> [pc : {"idle", "run", "next", "send", "end"},
                           message : Message \cup {NoMessage},
                           copy : Row \cup {NoRow}]]
    /\ started \in [Instance -> SUBSET Order]
    /\ ended \in [Instance -> SUBSET Order]
    /\ repeated \subseteq Instance
    /\ failed \subseteq Instance
    /\ faults \in 0 .. MaxFaults

Waiting(i) == {m \in Message : m.instance = i /\ queue[m] > 0}

Working(i) == {w \in Worker : run[w].pc \notin {"idle", "end"} /\ Of(w) = i}

\* Nothing more will happen to the instance, unless a finished task is repeated.
Quiet(i) == starter[i] = "over" /\ Waiting(i) = {} /\ Working(i) = {}

Reachable(i, k) == \A j \in 0 .. k - 1 : IsData(i, j)

(***************************************************************************)
(* No step is skipped: when all is quiet and nothing failed, every step up *)
(* to the first that is not a data procedure was sent, although two runs   *)
(* of run_next_procedure may have overwritten each other's count.  (Later  *)
(* ones may have been sent too: a repeated import counts on from a step    *)
(* that does not.)                                                         *)
(***************************************************************************)
QuietChainIsComplete ==
    \A i \in Instance :
        Quiet(i) /\ i \notin failed => {k \in Order : Reachable(i, k)} \subseteq started[i]

(***************************************************************************)
(* Without a redelivery the steps of an instance never overlap: a step is  *)
(* sent when the import of the one before has ended, and only one message  *)
(* or run belongs to the instance, whatever fails.                         *)
(***************************************************************************)
StepsInOrder ==
    \A i \in Instance \ repeated :
        /\ \A k \in started[i] : k = 0 \/ k - 1 \in ended[i]
        /\ \A m, n \in Waiting(i) : m = n /\ queue[m] = 1
        /\ \A v, w \in Working(i) : v = w
        /\ Waiting(i) = {} \/ Working(i) = {}

(***************************************************************************)
(* An instance comes to an end.  Two runs that overwrite each other's      *)
(* count repeat steps, but not for ever.                                   *)
(***************************************************************************)
Ends == \A i \in Instance : instance[i] # NoRow ~> Quiet(i)
=============================================================================
