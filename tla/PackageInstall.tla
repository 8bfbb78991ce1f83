--------------------------- MODULE PackageInstall ---------------------------
(***************************************************************************)
(* The installation of configurations from the marketplace                 *)
(* (poms/configuration): a package is a Celery task that calls the         *)
(* installation of each of its dependencies, one after the other in its    *)
(* own process; a single configuration is installed by a task of its own.  *)
(*                                                                         *)
(* Every installation records the release in a row of Configuration first  *)
(* and imports the items of the archive afterwards, each on its own.       *)
(* configuration_code is not unique and the primary module is switched by  *)
(* two statements, so that installations beside each other meet.           *)
(*                                                                         *)
(* A message may be delivered again while its first delivery is at work    *)
(* (CELERY_ACKS_LATE).  Every write of the row of a task is a write of the *)
(* whole copy that the process has.                                        *)
(***************************************************************************)
EXTENDS Naturals, Sequences, FiniteSets

CONSTANTS
    Job,       \* tasks of the users (bound); each installs a release of its own
    Code,      \* configuration codes
    Item,      \* items of an archive
    Orders,    \* what the users may install, job by job: see OrderOK
    Worker,
    MaxFaults, \* redeliveries, lost children, failures, refused items (bound)
    NoCode, NoRow, NoCopy

\* package: the code of the package, NoCode when a single configuration is
\* installed; primary: "primary_module" of its manifest.
OrderOK(o) ==
    /\ o.package \in Code \cup {NoCode}
    /\ o.deps \in Seq(Code) /\ Len(o.deps) > 0
    /\ o.primary \in Code \cup {NoCode}
    /\ o.actions \in BOOLEAN
    /\ o.package = NoCode => Len(o.deps) = 1 /\ o.primary = NoCode /\ ~o.actions

ASSUME OrdersAssumption == \A o \in Orders : DOMAIN o = Job /\ \A j \in Job : OrderOK(o[j])
ASSUME FaultsAssumption == MaxFaults \in Nat
ASSUME CodeAssumption == NoCode \notin Code

VARIABLES
    order,   \* what each job installs
    row,     \* the task of each job
    queue,   \* job -> messages that wait
    begun,   \* job -> deliveries that were begun
    child,   \* tasks of the dependencies: <<job, delivery, step>> -> status
    import,  \* tasks of the imports: <<job, delivery, step>> -> status
    conf,    \* the table of Configuration: code -> its rows
    content, \* code -> item -> the release it is from
    run,     \* worker -> what it does
    faults,
    raced,   \* history: codes for which two processes created a row at once
    crossed, \* history: a primary row was saved while another was about to be
    settled, \* history: code -> items refused by its last, undisturbed installation
    spoilt,  \* history: jobs with a failure or two deliveries
    lost,    \* history: jobs that lost a process
    ended    \* history: deliveries that came to their end

tables == <<row, child, import, conf, content>>
histories == <<raced, crossed, settled, spoilt, lost, ended>>
vars == <<order, row, queue, begun, child, import, conf, content, run, faults,
          raced, crossed, settled, spoilt, lost, ended>>

Deliveries == 1 .. MaxFaults + 1
Version == Job \cup {"", "0.0.0"}

\* split: the options hold "dependencies" and "actions".
Row == [status : {"I", "P", "D", "E"}, split : BOOLEAN]
ASSUME RowAssumption == NoRow \notin Row /\ NoCopy \notin Row

Configuration == [version : Version, primary : BOOLEAN]
Copy == [pos : Nat \ {0}, version : Version, primary : BOOLEAN]

Idle == [pc |-> "idle"]

Unsettled == {NoCode}

Init ==
    /\ order \in Orders
    /\ row = [j \in Job |-> NoRow]
    /\ queue = [j \in Job |-> 0]
    /\ begun = [j \in Job |-> 0]
    /\ child = [x \in {} |-> "I"]
    /\ import = [x \in {} |-> "P"]
    /\ conf = [c \in Code |-> <<>>]
    /\ content = [c \in Code |-> [i \in Item |-> ""]]
    /\ run = [w \in Worker |-> Idle]
    /\ faults = 0
    /\ raced = {}
    /\ crossed = FALSE
    /\ settled = [c \in Code |-> Unsettled]
    /\ spoilt = {}
    /\ lost = {}
    /\ ended = {}

-----------------------------------------------------------------------------
(* What a process works on *)

At(w, pcs) == run[w].pc \in pcs

JobOf(w) == run[w].job

IsPackage(j) == order[j].package # NoCode

Last(j) == Len(order[j].deps)

\* Step 0 is the package itself, the step after the last its primary module.
InDependency(w) == run[w].step \in 1 .. Last(JobOf(w))

CodeOf(w) ==
    LET o == order[JobOf(w)]
    IN  IF run[w].step = 0 THEN o.package
        ELSE IF InDependency(w) THEN o.deps[run[w].step] ELSE o.primary

KeyAt(w, k) == <<JobOf(w), run[w].delivery, k>>
Key(w) == KeyAt(w, run[w].step)

Set(f, k, v) == [x \in DOMAIN f \cup {k} |-> IF x = k THEN v ELSE f[x]]

Goes(w, pc) == run' = [run EXCEPT ![w].pc = pc]

\* Between the look at a configuration and the end of its installation.
Inside(u, c) ==
    /\ At(u, {"create", "clear", "save", "refresh", "progress", "download", "items",
              "refreshAgain", "progressAgain", "childDone"})
    /\ CodeOf(u) = c

Others(w, c) == {u \in Worker \ {w} : Inside(u, c)}

Fault == faults < MaxFaults /\ faults' = faults + 1

Spoils(w) == Fault /\ spoilt' = spoilt \cup {JobOf(w)}

-----------------------------------------------------------------------------
(* The request, the broker and the hooks of BaseTask *)

Request(j) ==
    /\ row[j] = NoRow
    /\ row' = [row EXCEPT ![j] = [status |-> "I", split |-> FALSE]]
    /\ queue' = [queue EXCEPT ![j] = 1]
    /\ UNCHANGED <<order, begun, child, import, conf, content, run, faults, histories>>

\* before_start reads the row; this copy is kept until the end.
Take(w, j) ==
    /\ At(w, {"idle"})
    /\ queue[j] > 0
    /\ queue' = [queue EXCEPT ![j] = @ - 1]
    /\ begun' = [begun EXCEPT ![j] = @ + 1]
    /\ run' = [run EXCEPT ![w] =
                 [pc |-> "start", job |-> j, delivery |-> begun[j] + 1,
                  step |-> IF IsPackage(j) THEN 0 ELSE 1,
                  hook |-> [row[j] EXCEPT !.status = "P"], body |-> NoCopy,
                  parent |-> NoCopy, copy |-> NoCopy, left |-> {}, refused |-> {},
                  alone |-> FALSE]]
    /\ UNCHANGED <<order, tables, faults, histories>>

BeforeStart(w) ==
    /\ At(w, {"start"})
    /\ row' = [row EXCEPT ![JobOf(w)] = run[w].hook]
    /\ Goes(w, "get")
    /\ UNCHANGED <<order, queue, begun, child, import, conf, content, faults, histories>>

\* The task reads its row once more, for itself.
Get(w) ==
    /\ At(w, {"get"})
    /\ run' = [run EXCEPT ![w].pc = IF IsPackage(JobOf(w)) THEN "find" ELSE "child",
                          ![w].body = row[JobOf(w)]]
    /\ UNCHANGED <<order, tables, queue, begun, faults, histories>>

Hook(w, s) ==
    /\ row' = [row EXCEPT ![JobOf(w)] = [run[w].hook EXCEPT !.status = s]]
    /\ run' = [run EXCEPT ![w] = Idle]
    /\ ended' = ended \cup {<<JobOf(w), run[w].delivery>>}
    /\ UNCHANGED <<order, queue, begun, child, import, conf, content, faults,
                   raced, crossed, settled, spoilt, lost>>

\* Mutant: the status is left as before_start set it.
OnSuccessStatusKept(w) == At(w, {"success"}) /\ Hook(w, "P")

OnSuccess(w) == At(w, {"success"}) /\ Hook(w, "D")

OnFailure(w) == At(w, {"failure"}) /\ Hook(w, "E")

\* The connection is lost and the broker delivers the message again; the
\* child works on.
Redeliver(w) ==
    /\ ~At(w, {"idle"})
    /\ Spoils(w)
    /\ queue' = [queue EXCEPT ![JobOf(w)] = @ + 1]
    /\ UNCHANGED <<order, tables, begun, run, raced, crossed, settled, lost, ended>>

\* The message of a lost child is acknowledged.
LoseChild(w) ==
    /\ ~At(w, {"idle"})
    /\ Spoils(w)
    /\ run' = [run EXCEPT ![w] = Idle]
    /\ lost' = lost \cup {JobOf(w)}
    /\ UNCHANGED <<order, tables, queue, begun, raced, crossed, settled, ended>>

-----------------------------------------------------------------------------
(* Exceptions.  An installation called by a package raises into the loop   *)
(* of the package; there are no hooks for it.                              *)

\* Mutant: the loop goes on with the next dependency.
AfterRaiseNext(w) ==
    IF IsPackage(JobOf(w)) /\ run[w].step > 0 THEN "next" ELSE "failure"

AfterRaise(w) == IF IsPackage(JobOf(w)) /\ run[w].step > 0 THEN "cancel" ELSE "failure"

\* The status that the installation writes on its own row.
Mark(w, s) ==
    IF IsPackage(JobOf(w)) /\ run[w].step > 0
    THEN child' = Set(child, Key(w), s) /\ UNCHANGED row
    ELSE row' = [row EXCEPT ![JobOf(w)] = [run[w].body EXCEPT !.status = s]] /\ UNCHANGED child

\* The marketplace answers with an error, or not at all; the archive cannot be
\* stored or unpacked, or a file in it cannot be read, with items before it.
Fails(w) ==
    /\ \/ At(w, {"find", "download"}) /\ Mark(w, "E")
       \/ At(w, {"find", "download", "items"}) /\ UNCHANGED <<row, child>>
    /\ Spoils(w)
    /\ Goes(w, AfterRaise(w))
    /\ UNCHANGED <<order, queue, begun, import, conf, content,
                   raced, crossed, settled, lost, ended>>

\* Mutant: the child after the failed one is left out.
CanceledFrom(w) == run[w].step + 2
CancelableFrom(w) == run[w].step + 1

CancelRest(w) ==
    /\ At(w, {"cancel"})
    /\ child' = [x \in DOMAIN child |->
                   IF \E k \in CancelableFrom(w) .. Last(JobOf(w)) : x = KeyAt(w, k)
                   THEN "C" ELSE child[x]]
    /\ Goes(w, "failure")
    /\ UNCHANGED <<order, row, queue, begun, import, conf, content, faults, histories>>

-----------------------------------------------------------------------------
(* The row of a configuration *)

\* "task.celery_task_id = ...; task.status = PENDING; task.save()"
Child(w) ==
    /\ At(w, {"child"})
    /\ Mark(w, "P")
    /\ Goes(w, "find")
    /\ UNCHANGED <<order, queue, begun, import, conf, content, faults, histories>>

\* What is saved of the row that was found: the installed release, or
\* is_primary of the primary module.
Changed(w, r) ==
    IF At(w, {"primary"})
    THEN [pos |-> 1, version |-> r.version, primary |-> TRUE]
    ELSE [pos |-> 1, version |-> JobOf(w), primary |-> r.primary]

\* Mutant: the row that is there is not found.
FoundNever(c) == FALSE

\* objects.get raises for no row and for more than one.
Found(c) == Len(conf[c]) = 1

\* Mutant: the other rows keep their flag.
SavesWithoutClear(copy) == "save"

\* Configuration.save: the other rows first.
Saves(copy) == IF copy.primary THEN "clear" ELSE "save"

AfterPrimary(j) == IF order[j].actions THEN "actions" ELSE "done"

AfterSave(w) ==
    IF run[w].step = 0 THEN "split"
    ELSE IF ~InDependency(w) THEN AfterPrimary(JobOf(w))
    ELSE IF IsPackage(JobOf(w)) THEN "refresh" ELSE "download"

\* Whoever else is inside the configuration disturbs, and is disturbed.
Enters(w, pc, copy) ==
    LET c == CodeOf(w)
    IN  run' = [u \in Worker |->
                  IF u = w THEN [run[w] EXCEPT !.pc = pc, !.copy = copy,
                                               !.alone = Others(w, c) = {}]
                  ELSE IF u \in Others(w, c) THEN [run[u] EXCEPT !.alone = FALSE]
                  ELSE run[u]]

\* The release was found in the marketplace, or the primary module is looked up.
Look(w) ==
    LET c == CodeOf(w)
    IN  /\ At(w, {"find", "primary"})
        /\ IF Found(c) THEN LET copy == Changed(w, conf[c][1])
                            IN  Enters(w, Saves(copy), copy)
           ELSE IF At(w, {"primary"}) THEN Goes(w, AfterSave(w))
           ELSE Enters(w, "create", NoCopy)
        /\ settled' = IF InDependency(w) THEN [settled EXCEPT ![c] = Unsettled] ELSE settled
        /\ UNCHANGED <<order, tables, queue, begun, faults, raced, crossed, spoilt, lost, ended>>

\* Mutant: the row is created without its version.
FirstVersionNull(w) == NoCode

\* A package is created without a version, which is the empty string.
FirstVersion(w) == IF InDependency(w) THEN "0.0.0" ELSE ""

Create(w) ==
    LET c == CodeOf(w)
    IN  /\ At(w, {"create"})
        /\ conf' = [conf EXCEPT ![c] = Append(@, [version |-> FirstVersion(w), primary |-> FALSE])]
        /\ run' = [run EXCEPT ![w].pc = "save",
                              ![w].copy = [pos |-> Len(conf[c]) + 1, version |-> JobOf(w),
                                           primary |-> FALSE]]
        /\ raced' = IF \E u \in Others(w, c) : At(u, {"create"}) THEN raced \cup {c} ELSE raced
        /\ UNCHANGED <<order, row, child, import, content, queue, begun, faults,
                       crossed, settled, spoilt, lost, ended>>

ClearOthers(w) ==
    /\ At(w, {"clear"})
    /\ conf' = [c \in Code |-> [p \in DOMAIN conf[c] |->
                  IF c = CodeOf(w) /\ p = run[w].copy.pos THEN conf[c][p]
                  ELSE [conf[c][p] EXCEPT !.primary = FALSE]]]
    /\ Goes(w, "save")
    /\ UNCHANGED <<order, row, child, import, content, queue, begun, faults, histories>>

SavingPrimary(u) == At(u, {"save"}) /\ run[u].copy.primary

Save(w) ==
    /\ At(w, {"save"})
    /\ conf' = [conf EXCEPT ![CodeOf(w)][run[w].copy.pos] =
                  [version |-> run[w].copy.version, primary |-> run[w].copy.primary]]
    /\ run' = [run EXCEPT ![w].pc = AfterSave(w), ![w].copy = NoCopy]
    /\ crossed' = (crossed \/ (SavingPrimary(w) /\ \E u \in Worker \ {w} : SavingPrimary(u)))
    /\ UNCHANGED <<order, row, child, import, content, queue, begun, faults,
                   raced, settled, spoilt, lost, ended>>

-----------------------------------------------------------------------------
(* The package: its tasks, and the loop over them *)

\* Mutant: the dependencies are not written into the options.
SplitOptionsForgotten(w) == run[w].body

SplitOptions(w) == [run[w].body EXCEPT !.split = TRUE]

\* One transaction.  Its select_for_update is never evaluated and locks nothing.
Split(w) ==
    /\ At(w, {"split"})
    /\ row' = [row EXCEPT ![JobOf(w)] = SplitOptions(w)]
    /\ child' = [x \in DOMAIN child \cup {KeyAt(w, k) : k \in 1 .. Last(JobOf(w))} |->
                   IF x \in DOMAIN child THEN child[x] ELSE "I"]
    /\ run' = [run EXCEPT ![w].pc = "child", ![w].step = 1, ![w].body = SplitOptions(w)]
    /\ UNCHANGED <<order, queue, begun, import, conf, content, faults, histories>>

\* task.parent.refresh_from_db(), then len(options["dependencies"]), before
\* and after the import: KeyError when the options were overwritten.
Refresh(w) ==
    LET j == JobOf(w)
    IN  /\ At(w, {"refresh", "refreshAgain"})
        /\ run' = IF row[j].split
                  THEN [run EXCEPT ![w].parent = row[j],
                                   ![w].pc = IF @ = "refresh" THEN "progress" ELSE "progressAgain"]
                  ELSE [run EXCEPT ![w].pc = AfterRaise(w)]
        /\ UNCHANGED <<order, tables, queue, begun, faults, histories>>

Progress(w) ==
    /\ At(w, {"progress", "progressAgain"})
    /\ row' = [row EXCEPT ![JobOf(w)] = run[w].parent]
    /\ run' = [run EXCEPT ![w].parent = NoCopy,
                          ![w].pc = IF @ = "progress" THEN "download" ELSE "childDone"]
    /\ UNCHANGED <<order, queue, begun, child, import, conf, content, faults, histories>>

ChildDone(w) ==
    LET c == CodeOf(w)
    IN  /\ At(w, {"childDone"})
        /\ Mark(w, "D")
        /\ run' = [run EXCEPT ![w].pc = "next", ![w].refused = {}, ![w].alone = FALSE]
        /\ settled' = IF run[w].alone THEN [settled EXCEPT ![c] = run[w].refused] ELSE settled
        /\ UNCHANGED <<order, queue, begun, import, conf, content, faults,
                       raced, crossed, spoilt, lost, ended>>

NextDependency(w) ==
    /\ At(w, {"next"})
    /\ run' = IF ~IsPackage(JobOf(w)) THEN [run EXCEPT ![w].pc = "success"]
              ELSE IF run[w].step = Last(JobOf(w)) THEN [run EXCEPT ![w].pc = "complete"]
              ELSE [run EXCEPT ![w].pc = "child", ![w].step = @ + 1]
    /\ UNCHANGED <<order, tables, queue, begun, faults, histories>>

\* "Installation complete"; then the primary module, whose errors are logged.
Complete(w) ==
    LET j == JobOf(w)
    IN  /\ At(w, {"complete"})
        /\ row' = [row EXCEPT ![j] = run[w].body]
        /\ run' = [run EXCEPT ![w].step = Last(j) + 1,
                              ![w].pc = IF order[j].primary = NoCode THEN AfterPrimary(j) ELSE "primary"]
        /\ UNCHANGED <<order, queue, begun, child, import, conf, content, faults, histories>>

\* Failures of an action are logged; the progress after it is saved.
Actions(w) ==
    LET j == JobOf(w)
    IN  /\ At(w, {"actions"})
        /\ row' = [row EXCEPT ![j] = run[w].body]
        /\ Goes(w, "done")
        /\ UNCHANGED <<order, queue, begun, child, import, conf, content, faults, histories>>

PackageDone(w) ==
    /\ At(w, {"done"})
    /\ row' = [row EXCEPT ![JobOf(w)] = [run[w].body EXCEPT !.status = "D"]]
    /\ Goes(w, "success")
    /\ UNCHANGED <<order, queue, begun, child, import, conf, content, faults, histories>>

-----------------------------------------------------------------------------
(* import_configuration, called in the same process with a task of its own *)

Download(w) ==
    /\ At(w, {"download"})
    /\ import' = Set(import, Key(w), "P")
    /\ run' = [run EXCEPT ![w].pc = "items", ![w].left = Item]
    /\ UNCHANGED <<order, row, child, conf, content, queue, begun, faults, histories>>

\* Mutant: an item that is there already is left as it is.
ImportedOnce(old, release) == IF old = "" THEN release ELSE old

\* The serializer gets the instance with the item's user code, if there is one.
Imported(old, release) == release

ImportItem(w, i) ==
    /\ At(w, {"items"})
    /\ i \in run[w].left
    /\ content' = [content EXCEPT ![CodeOf(w)][i] = Imported(@, JobOf(w))]
    /\ run' = [run EXCEPT ![w].left = @ \ {i}]
    /\ UNCHANGED <<order, row, child, import, conf, queue, begun, faults, histories>>

\* An invalid item, or any exception: only the report of the import tells.
RefuseItem(w, i) ==
    /\ At(w, {"items"})
    /\ i \in run[w].left
    /\ Fault
    /\ run' = [run EXCEPT ![w].left = @ \ {i}, ![w].refused = @ \cup {i}]
    /\ UNCHANGED <<order, tables, queue, begun, histories>>

ImportDone(w) ==
    /\ At(w, {"items"})
    /\ run[w].left = {}
    /\ import' = Set(import, Key(w), "D")
    /\ Goes(w, IF IsPackage(JobOf(w)) THEN "refreshAgain" ELSE "childDone")
    /\ UNCHANGED <<order, row, child, conf, content, queue, begun, faults, histories>>

-----------------------------------------------------------------------------
Work(w) ==
    \/ \E j \in Job : Take(w, j)
    \/ BeforeStart(w) \/ Get(w) \/ OnSuccess(w) \/ OnFailure(w)
    \/ CancelRest(w)
    \/ Child(w) \/ Look(w) \/ Create(w) \/ ClearOthers(w) \/ Save(w)
    \/ Split(w) \/ Refresh(w) \/ Progress(w) \/ ChildDone(w) \/ NextDependency(w)
    \/ Complete(w) \/ Actions(w) \/ PackageDone(w)
    \/ Download(w) \/ ImportDone(w)
    \/ \E i \in Item : ImportItem(w, i)

Disturb(w) ==
    \/ Redeliver(w) \/ LoseChild(w) \/ Fails(w)
    \/ \E i \in Item : RefuseItem(w, i)

Next ==
    \/ \E j \in Job : Request(j)
    \/ \E w \in Worker : Work(w) \/ Disturb(w)

\* Workers work; users need not ask and nothing need go wrong.
Spec == Init /\ [][Next]_vars /\ \A w \in Worker : WF_vars(Work(w))

-----------------------------------------------------------------------------
Keys == Job \X Deliveries \X (Nat \ {0})

Running ==
    [pc : {"start", "get", "find", "child", "primary", "create", "clear", "save", "split",
           "refresh", "progress", "download", "items", "refreshAgain", "progressAgain",
           "childDone", "next", "complete", "actions", "done", "cancel",
           "success", "failure"},
     job : Job, delivery : Deliveries, step : Nat,
     hook : {r \in Row : r.status = "P"}, body : Row \cup {NoCopy},
     parent : Row \cup {NoCopy}, copy : Copy \cup {NoCopy}, left : SUBSET Item,
     refused : SUBSET Item, alone : BOOLEAN]

\* Types of the state; a row is never without its version.
TypeOK ==
    /\ order \in Orders
    /\ row \in [Job -> Row \cup {NoRow}]
    /\ queue \in [Job -> Nat] /\ begun \in [Job -> 0 .. MaxFaults + 1]
    /\ DOMAIN child \subseteq Keys /\ \A x \in DOMAIN child : child[x] \in {"I", "P", "D", "E", "C"}
    /\ DOMAIN import \subseteq Keys /\ \A x \in DOMAIN import : import[x] \in {"P", "D"}
    /\ conf \in [Code -> Seq(Configuration)]
    /\ content \in [Code -> [Item -> Job \cup {""}]]
    /\ run \in [Worker -> Running \cup {Idle}]
    /\ faults \in 0 .. MaxFaults
    /\ raced \subseteq Code /\ crossed \in BOOLEAN
    /\ settled \in [Code -> (SUBSET Item) \cup {Unsettled}]
    /\ spoilt \subseteq Job /\ lost \subseteq Job /\ ended \subseteq Job \X Deliveries

\* A task that is DONE has a delivery that installed and imported every
\* dependency, whatever other deliveries wrote over its row since.
DoneIsInstalled ==
    \A j \in Job : row[j] # NoRow /\ row[j].status = "D" =>
        \E d \in 1 .. begun[j] : \A k \in 1 .. Last(j) :
            LET x == <<j, d, k>>
            IN  /\ x \in DOMAIN import /\ import[x] = "D"
                /\ IsPackage(j) => x \in DOMAIN child /\ child[x] = "D"

\* No dependency waits for a delivery that is over: each was installed, was
\* begun and failed, or was canceled.
NoChildWaits ==
    \A x \in DOMAIN child : <<x[1], x[2]>> \in ended => child[x] # "I"

\* A configuration code has one row, unless two processes looked for it
\* before either created it.
OneRowPerCode == \A c \in Code : Len(conf[c]) > 1 => c \in raced

\* One configuration is primary, unless the saves of two primary modules met.
AtMostOnePrimary ==
    LET primary == {x \in Code \X (1 .. Cardinality(Job) * (MaxFaults + 1)) :
                       x[2] \in DOMAIN conf[x[1]] /\ conf[x[1]][x[2]].primary}
    IN  Cardinality(primary) > 1 => crossed

\* After the last installation of a configuration, when nobody else was
\* inside it and it came to its end, the recorded release is the one every
\* item is from, the refused items excepted.
SettledShowsContent ==
    \A c \in Code : settled[c] # Unsettled =>
        \A i \in Item \ settled[c] : content[c][i] = conf[c][Len(conf[c])].version

\* A job fails only after a failure, or when two of its deliveries met.
FailureHasCause ==
    \A j \in Job : row[j] # NoRow /\ row[j].status = "E" => j \in spoilt

Over(j) ==
    /\ row[j] # NoRow /\ row[j].status \in {"D", "E"}
    /\ queue[j] = 0
    /\ \A w \in Worker : At(w, {"idle"}) \/ JobOf(w) # j

\* Every job that was asked for ends, and its row says how: jobs and faults
\* are bounded, so at last nothing is on the way.
InstallsEnd == <>[](\A j \in Job : row[j] = NoRow \/ j \in lost \/ Over(j))
=============================================================================
