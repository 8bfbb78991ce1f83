# Formal models of finmars-core

TLA+ modules, TLC configurations and TLAPS proofs about the parts of
finmars-core whose correctness depends on the order in which several actors
act: HTTP handlers, Celery workers, Celery Beat, the message broker, the
PostgreSQL rows they all write and the object storage.

finmars-core is a Django application. One deployment serves many *spaces*, one
PostgreSQL schema each. Requests run in web workers, long jobs in Celery
workers (one child process per worker), periodic jobs are started by Beat. The
actors share nothing but the database, the broker, the cache and the storage;
almost no code takes a lock or a long transaction, and Django's `Model.save()`
writes all columns of a row from an object that was read earlier. Nearly every
hard behaviour of the system comes from there.

## 1. Inventory

| component | state | operations | hard part | what makes it correct |
|---|---|---|---|---|
| CeleryTask lifecycle (`celery_tasks`, `common/celery.py`) | table of task rows; messages; the copies that hooks, bodies, views and sweeps hold | create + send, before_start, body, on_success/on_failure, cancel, update-status, abort, TTL sweep, clear_celery, retention | whole-row saves of stale copies, redelivery (late ack), lost children, row limit | no row pending without an owner; the last hook's outcome stays; every message is dealt with |
| Finmars Database import (`integrations`) | task row, imported object, finisher message | request, answer (data / task / error), callback, `ttl_finisher` | request, callback and finisher save copies of one row; duplicated and late callbacks | DONE means fully imported; a task does not wait for ever; a full object is not degraded |
| Journal archive (`history`, `common/storage.py`) | journal table, files | daily export, export by a user, clearing | look / read / write / delete without a lock, overwriting in two steps, faults in between | nothing is lost, nothing young is taken, old records leave |
| EcosystemDefault cache (`common/models.py`) | shared cache, one row per space | get_cache, save, delete | fill against invalidation; keys common to all spaces | an old row is not revived, old copies expire, no foreign row |
| Recycle bin (`FakeDeletableModel`) | `is_deleted`, `user_code`, `deleted_user_code`, the counter of codes | destroy, bulk_delete, bulk_restore | "delete what is marked" against redelivery; codes taken meanwhile; stale copies | the own code survives; nothing is deleted for good by one request |
| Schedules and procedures | schedule instance, current step, procedure instances | process, process_procedure_async, run_next_procedure | chain advanced from import handlers, failures, redelivery | each step once and in order, the instance ends |
| Tenant context (`middleware`, `common/celery.py`) | `search_path` per connection, active task id | request start/end, task prerun/postrun, nested `apply()` | leftovers of the previous unit of work | a statement runs in its own space |
| Simple, transaction and complex import | items, task row, reports | per-row processing, error scenario, redelivery | no savepoints: a failed row stays half-booked; status order | a reported success is booked; an item in error stays so; overwriting heals |
| Transactions | complex and base transactions, schedules, number sequence | book, rebook, pending, delete | unique code looked up, counted and saved without a constraint | one live transaction per unique code unless bookings overlap |
| Instruments, portfolios, reconciliation | events, accruals, register records, history | generation tasks | recalculation against edits | idempotent regeneration |
| Configuration packages (`configuration`) | `Configuration` rows, tasks of a package and of its dependencies, imported items | install a package, install a configuration, import items | failing step, overlapping deliveries, get-or-create and the primary flag in two statements | installed means every dependency installed; one row for a code, one primary; recorded release is the imported one |
| Explorer | files in the storage | upload, delete, move, copy, rename, unzip | read, save, delete of a move in three steps | a move loses nothing |
| Reports | none kept (SQL) | balance, P&L, performance | groups of tasks joined inside a task | workers do not wait for each other in a circle |
| iam, users, widgets, vault, ui, notifications, ... | CRUD tables | CRUD | none of interest to a model checker | - |

Interactions: views create CeleryTask rows and send messages; workers consume
them through `BaseTask`; import handlers call `run_next_procedure` of a
schedule instance; most modules read EcosystemDefault through the cache; every
task and request selects its space through the tenant context; almost every
write leaves a journal record.

`PROJECT.json` lists the components with their state of modelling, the hazards
at their lines, and for each definition the code it stands for.

## 2. Modules

| module | models |
|---|---|
| `CeleryTaskLifecycle` | life of the task rows of one space |
| `DatabaseImport` | the imports from the Finmars Database service |
| `JournalPromise` | what the journal's archive promises (abstract) |
| `JournalArchive` | the journal's way into files |
| `ScheduleChain` | the procedures of a schedule, one after another |
| `RowPromise` | what a caller of the cache may rely on (abstract) |
| `EcosystemCache` | the cache before the defaults of the spaces |
| `TransactionBooking` | booking of complex transactions, by requests and by an import |
| `TransactionImport` | the transaction import, which extends `TransactionBooking` |
| `BookingPromise` | what the owner of a space may rely on while a file is imported (abstract) |
| `RecycleBin` | deletion in two stages, and restoring |
| `PackageInstall` | installation of packages and configurations |
| `..._proofs` | the theorems about the module in front, section 4 |
| `MC...` | TLC instances |

An operator whose comment begins with *Mutant* is a plausible bug of the
definition that follows it. No specification uses it: substituting it shows
that a property notices the bug.

### CeleryTaskLifecycle

* `db` is the table; a row keeps the columns that the properties tell apart:
  `status`, whether `celery_task_id`, `expiry_at` and `finished_at` are set.
* Every object that the code holds between a read and a save is a variable:
  `run[w].hook` (`BaseTask.finmars_task`), `run[w].body` (the object the task
  function loads), `admin.copy` (the API view), `sweep.copies` (the evaluated
  queryset of a sweep). A save is `Saved`: the whole copy, inserted again if the
  row was deleted, then the row limit of `CeleryTask.save`.
* `BeforeStart`, `BodyLoad` ... `BodyError`, `OnSuccess`, `OnFailure`, `Ack` are
  the worker. Task functions differ; a body is any mixture of what they do:
  mark the row PENDING, report progress with or without a refresh, record DONE
  or ERROR and return or raise. Those shapes are all found in
  `explorer/tasks.py`, `portfolios/tasks.py` and `celery_tasks/tasks.py`.
* `AdminRead`/`AdminWrite`/`AbortWrite` are the API, `TtlSelect`/`TtlWrite` and
  `ClearSelect`/`ClearWrite` the sweeps, `RemoveOld` the retention.
* `KillChild`, `LoseWorker`, `LoseConnection`, `Terminate`, `Discard` follow the
  settings: `CELERY_ACKS_LATE` on, `CELERY_TASK_REJECT_ON_WORKER_LOST` off, one
  child per worker, revocations remembered in memory only.
* `unhooked` and `verdict` are history variables of the properties.

Properties: `PendingHasOwner`, `OutcomeRecorded`, `Settles` hold. What the view
says of a canceled row ("Task is already finished, update impossible") does
not: `before_start` makes it PENDING. Neither does an ERROR that a body records
and then returns: `on_success` saves DONE over it.

### DatabaseImport

* `row` is the task row (status, what its result holds), `object` the instrument
  (or currency, company): absent, the inactive *stub* of
  `create_simple_instrument`, or *full*.
* `handler[<<t, "request">>]` is the API view, `handler[<<t, "callback">>]` the
  callback view; both hold a copy loaded at their start, go through
  look-up, write and record (`Find`, `Write` or `Fail`, `Record`).
* `finisher` is `ttl_finisher` *with* the hooks of `BaseTask`: `FinisherStart`
  is `before_start`, `FinisherEnd` is `on_success`, both of which save the row
  of the import because the finisher is called with its `task_id`.
* `FinisherStart` waits for the request to have reached its post: the countdown
  (`FINMARS_DATABASE_TIMEOUT`) outlasts the steps before it, which wait for
  nothing, but not the post itself, which is tried up to three times with a
  time limit each. `late` remembers that the request was still at work.
* All instrument tasks of an instance import the same user code.

`DoneNamesFull`, `InTimeSettled`, `FullStaysFull`, `Expires` hold. Two comments
do not: "no action required" of `ttl_finisher` (the hooks around it rewrite the
finished row) and "Do not change status" (the whole row is saved, with the
status of an old copy).

### JournalArchive

* A record is a day and a number; `file` maps the day files
  `<<d, 0>>` and the chunk files `<<cutoff, n>>` to their records.
* The export is five steps per day: `exists()`, serialize, delete the old file,
  write the new one, delete the records by querying the day again. The clearing
  evaluates its queryset once, writes chunk after chunk and deletes *all* ids
  after each.
* `ClearStart` takes a set between "before the cutoff day" and "up to it",
  because the cutoff is a time of that day.
* The chunk file stored by an encrypting storage is empty (`Encrypts`), since
  `save_to_remote_storage` does not rewind the temporary file.

`ExportLosesNothing`, `RecentKept`, `OldLeave` hold; `ClearedAreFiled`, the
docstring of the clearing, is violated. With `Encrypts = FALSE` (a local
server) TLC violates it as well: a second run on the same day overwrites the
first chunk, and a storage error at a later chunk comes after the deletion of
all records.

`ExportLosesNothing` is stated for days that are over and one exporter. With
`Runner = {beat, user}` TLC refutes it: between `exists()` and the serialization
of one run the other deletes the records, and the first overwrites the day's
file with an empty one. The same happens if a user exports up to the current
day while records are written.

`JournalPromise` knows nothing of files, jobs or faults: records are *kept* in
the table and *held*, that is, can be had; a step may keep a new record, release
old ones that stay held, or begin a day. `KeepsPromise` says that the archive
implements it, with the journal as `kept` and the records of the table and of
all files as `held`. A record that `clear_old_journal_records` removed counts as
held there: that its chunk file has it is `ClearedAreFiled`, which fails.

### ScheduleChain

* `instance` is the table of `ScheduleInstance`: status and
  `current_processing_procedure_number`. `STATUS_DONE` is not among the
  statuses: no line sets it, an instance whose steps have all run stays PENDING.
* `starter` follows `schedules.process`: the row, PENDING, the first message.
  It is not redelivered in the model: a repeated `process` creates an instance
  of its own.
* `queue` counts the messages of the three tasks a data procedure passes
  through: `process_procedure_async` (*step*), the `..._by_procedure_json` task
  (*json*), `transaction_import` or `simple_import` (*import*). `run[w]` is a
  worker with its message and the copy of the instance that
  `run_next_procedure` counts up, saves and sends.
* `ImportEnds` loads the instance where the import first asks for it, after its
  rows, and counts; `NextSave`, `NextSend` and `NextSendFails` are the iteration
  of `run_next_procedure` that finds the procedure, `NoNext` the case that none
  does.
* `DataStep` is a data procedure of the universal provider, request and answer
  included. `OtherStep` is everything else. The import of a file procedure's
  answer is started without the procedure instance, so it does not call
  `run_next_procedure` either.
* `Fails` stands for every exception before an import reaches its end. The rows
  of procedure instances and import tasks get statuses there that the chain
  never reads, and `error_handler = "continue"` concerns only the status of the
  instance, which a failed step does not change: it never lets a chain go on.
  The rows are left out.
* Orders are 0, 1, ... without gaps. The API stores them as they are sent; a gap
  ends the chain like a last step. A schedule is not edited while it runs.

`QuietChainIsComplete`, `StepsInOrder`, `Ends` hold. The first is an inclusion:
a repeated import of the last data step counts the instance once more, past a
step that is not one. That step is where the chain ends, so the docstring of
`Schedule` ("actions just executes one after another") does not hold.

### EcosystemCache

* A row is named by its space and the number of saves that made it. `table` is
  the database, `cache` the one Redis of all spaces with the ticks that a copy
  has left, `call[c]` a request or task between two statements of `get_cache`
  (`Fetch`, `Fill`), `save` (`SaveBegins` removes the key, `SaveEnds` writes the
  row) or `delete`.
* `PkOf` gives the primary key of the master user of a space, which is all that
  the cache key is made of. Every space counts its own keys, so that in a real
  deployment they coincide; nothing is assumed of the constant, and the runs have
  two spaces with one key and a third with another.
* Every exception of the cache counts as a miss (`GetMiss` with a fault).

`RowPromise` is the promise: an answer shows a row of a space that has the key of
the asking one (its own, when no other has it), and a row that no answer can
show any more never comes back. `KeepsPromise` says that the cache implements
it, spaces that overwrite and drop each other's entry included; `alive` is
mapped to the rows in the table, in the cache and in the hands of a filling
caller. `OldRowsExpire` says that the copies that a fill stored after an
invalidation go away, which rests on the timeout alone. That the row is the
caller's own (`OwnRow`) is what a test expects, and is violated where spaces
share a key.

### TransactionBooking and TransactionImport

* `trn` are the complex transactions by number, with their unique code, the
  `is_deleted` mark and how much of their base transactions exists (`none`,
  `part` after an error, `full`); `schedules` the rows of an instrument's
  schedule; `sequence` the `FakeSequence` of numbers.
* An API request is one database transaction: it reads (`ViewLoad`, `ViewBook`,
  `ViewRebook`) and then commits everything at once (`ViewCommitBook`,
  `ViewCommitRebook`, `ViewDelete`) or nothing (`ViewRollback`). The import runs
  the same process statement by statement: `ClearSchedules`, `WriteSchedules`,
  `Look` and `Drop` (the uniqueness expression), `Check` (the count), `NextValue`
  and `Insert`, `WriteBase`, `Finish`. `Verdict` is
  `execute_uniqueness_expression` with all its branches.
* `TransactionImport` adds the rows of a file: rule value (`RowBegins`), fields
  (`FieldsFail`), the scenarios in order (`Book`, `BookEnds`), the error scenario
  (`OnError`), the end. `LoseWorker` delivers the message again and starts with
  the first row, `KillChild` ends the import; what is committed stays, since the
  savepoints are commented out.
* `stale`, `twinned`, `crowded`, `broken` are history variables: who was
  interrupted between a look and a write, and which codes, schedules and rows
  that concerns. The properties say what holds *unless* that happened.

`TwinsNeedOverlap`, `OneSchedule`, `ErrorSticks`, `SuccessIsBooked`,
`OverwriteHeals`, `Finishes` hold. What the model shows beside them: the error
scenario of an import never runs, because `book` refuses an item in error
(`OnError`); a type that books a procedure (`TYPE_PROCEDURE`) and the reaction
`TREAT_AS_ERROR` always end in an error, the one after it deleted its own row,
the other because it deletes a row that was never saved; a schedule action that
names the instrument of another action looks it up by primary key in a map of
orders (`PhantomMissing`); with OVERWRITE the old transaction is deleted before
the errors of the new one are looked at.

`BookingPromise` is a table of transactions with two things that may happen to
it: a transaction appears, whole and with a code that no other has (`Book`), or
transactions of one code go, if the scheme overwrites (`Replace`). Deliveries
and crashes are not among them. `KeepsPromise` says that an import implements
this until the first request beside it. A row counts as booked (`Stands`) when it is
live, has all its base transactions, and is not in the hands of the process that
may still give it up (`InHand`): `Finish` is where it appears, and so is the loss
of the worker just before it. Incomplete rows that a lost worker leaves are not
booked; that they go away is `OverwriteHeals`.

### RecycleBin

* `row` is a table of a `FakeDeletableModel`; a code is one that a user chose, the
  name that `NamedModel.save` falls back on, or a generated one from the counter
  of the master user.
* `request` is a destroy request, `job` a bulk task: `JobBegins` evaluates its
  queryset, then `JobTakes`, `JobMarks` and `JobDeletes` treat one instance each
  from the copy of the beginning. Both read the counter in one statement and
  write it in another. `LoseWorker` delivers a bulk task again.

`asked` counts the delete requests of an object since it was last restored; one
that is open at the time still counts, since it may be carried out later.

`CodeKept`, `GoneNeedsTwo`, `JobOver` hold. `GoneNeedsTwo` has to except objects
of a bulk_delete that was delivered twice: the second delivery finds what the
first one marked and deletes it for good, although the user asked once.
`CodeKept` excepts objects that were written from an outdated copy.

### PackageInstall

* `row` is the task of a job; of its options only *split* is kept: whether they
  hold the dependencies that `install_package_from_marketplace` wrote. `child` and
  `import` are the tasks it creates, `conf` the table of `Configuration`,
  `content` the release that each item of a configuration is from.
* `run[w]` is a worker: its step (0 the package itself, then its dependencies,
  then its primary module) and all the copies it holds: `hook`
  (`BaseTask.finmars_task`), `body` (`parent_task`), `parent` (what
  `task.parent.refresh_from_db()` read) and `copy` (the `Configuration`).
* `Look`, `Create`, `ClearOthers`, `Save` are get-or-create and
  `Configuration.save`; `Split` the transaction that creates the children;
  `Child` ... `ChildDone` the installation of a dependency in the process of the
  package, with `Download`, `ImportItem`, `RefuseItem`, `ImportDone` for the
  archive. An exception leads to `CancelRest` and `OnFailure`. A configuration
  alone takes the same steps with `Mark` writing its own row.
* Each job installs a release of its own, so that releases tell whose write is
  seen. Items are updated whole.

`DoneIsInstalled`, `NoChildWaits`, `OneRowPerCode`, `AtMostOnePrimary`,
`SettledShowsContent`, `FailureHasCause`, `InstallsEnd` hold. The exceptions that
they name are real: after two processes created a row for one code, `get` raises
for ever and every later installation adds a row; two primary modules are left
when two saves meet between their statements; a release whose download fails is
recorded all the same; a second delivery of a package fails when a hook of the
first writes back the options without dependencies.

## 3. Runs

Every run exhausts its state space. `CHECK_DEADLOCK FALSE` everywhere: rows,
days, requests and faults are bounded, so every instance may stop.

| run | instance | shows |
|---|---|---|
| `lifecycle_overlap` | 1 row, 2 workers, 1 fault, cancel and finish requests, clear_celery | 1.7 million states: a redelivered row is run twice at once while API and sweep write it; `PendingHasOwner`, `OutcomeRecorded` |
| `lifecycle_retention` | 2 rows, row limit 1, 1 worker, 1 fault, abort and error requests, TTL sweep | 0.4 million states: rows vanish under their tasks and are inserted again; `Settles` |
| `dbimport_race` | 2 imports of one instrument, 1 callback each, 1 fault | 2.5 million states; safety and `FullStaysFull` |
| `dbimport_expiry` | a currency and a price import | `Expires` under fairness |
| `journal_daily` | 3 days, 2 records a day, chunk size 1, ages 1, 1 fault | 0.13 million states; safety, `KeepsPromise`, and `OldLeave` under fairness |
| `journal_clear` | the same without faults | violation of `ClearedAreFiled` |
| `schedule_chain` | 1 instance, 3 steps, 2 workers, 2 faults | 77 thousand states: steps delivered up to three times, failures; safety, and `Ends` under fairness |
| `cache_shared` | 2 spaces with one key, 1 with another, 2 callers, timeout 2, 2 saves, 1 fault | 1.1 million states; the refinement `KeepsPromise`, and `OldRowsExpire` |
| `cache_one_key` | the same spaces, timeout 1, no saves, no faults | violation of `OwnRow` |
| `import_beside` | 2 rows of a file (three files), 3 reactions, 1 request beside, 1 fault | 0.75 million states: an import redelivered, killed and interrupted; all properties of the import |
| `recycle_requests` | 3 objects (one takes the code of a deleted one), 3 requests, 1 fault | 0.14 million states; safety and `JobOver` |
| `package_install` | 2 jobs, 2 workers, 2 codes and a package, 1 item, 1 fault, two combinations of orders | 0.8 million states; safety and `InstallsEnd` |

Why the bounds are enough. *One row and two workers* is the smallest instance
in which two runs of a row overlap; rows interact only through the row limit
and through one worker's time, which the two-row run covers. *One fault* gives
every single crash, at every step; where there are proofs they cover any
number. *Two imports* are needed for a race on one user code; a second callback
of one task repeats what the callback of the other does to the object, and
`Callback` may follow the finisher, so one callback per task covers late
delivery. *Three days* let the export of one day run while the next two begin,
two records a day distinguish a partly exported day, chunk size 1 makes every
clearing of two records take two chunks. *One schedule instance* is enough
because instances share nothing but the workers; *two faults* put three
deliveries of one message side by side, so that two of them overwrite the
third's count, and *three steps* leave a step to fall back to and one to go on
to. The two schedules of the run are one that stops after its first step and one
of data procedures only.

*Cache*: two spaces with one key overwrite and drop each other's entry, the third
shows a row under a wrong key, two callers a fill beside a save, timeout 2 a copy
that is renewed or not. *Import*: the files (`SomeFiles`) have one code
twice, a row with two scenarios, a procedure, rows that are filtered out and
rows without a code; one code and one request are enough for any race on it, and
`MaxNum` is more numbers than the deliveries of two rows and the requests of the
run take. The request may come at any step or never: the steps before it are
what `KeepsPromise` is about, the behaviours without it `OverwriteHeals`.
*Recycle bin*: two of the requests may be deletions and one a restore, the third
object is created with the code of the first, and the counter (8) is never
exhausted by three requests of at most three objects one of which is redelivered;
where it were, `FakeDelete` would stop, not go wrong. *Packages*: one of the two
orders has two releases of one package with different primary modules, which
share the row of the package and meet in the primary flag; the other has a
package and one of its two dependencies alone, which share a row and its items.
One redelivery lets a package run beside itself.

Symmetry is used for workers and for instrument tasks, in runs without liveness
properties only.

Fairness. Workers that run consume messages and go on with what they began
(`CELERY_TASK_TIME_LIMIT` ends a body that hangs), HTTP calls have time limits,
Beat starts the daily export, days pass. A `schedules.process` that has begun
goes on; nobody has to start one. Redis counts time down (`Tick`); a caller of
the cache goes on with its fill. A worker goes on with the import
(`ImportStep`), the bulk task (`JobStep`), the installation (`Work(w)` for each
worker). No fairness is assumed of users, of the external service's callbacks,
or of faults.

## 4. Proofs

Eight modules hold theorems, each about the module in its name. All start from
`Spec` and from the `ASSUME`s that the modules state about their constants
(numbers are natural, a null value is none of the values, the files and orders
are of the shape that the code accepts); none concerns behaviour. Some
theorems have a hypothesis about the deployment, named below: `OneDailyExport`
(the journal) and `PackagesApart` (packages). Sizes are unbounded everywhere: any
number of rows, workers, requests, faults, and so on.
One typing lemma per action is under every invariant; where an invariant speaks
of what a process holds, the lemma of an action says what becomes of the other
processes.

| module | theorems (the property) |
|---|---|
| `CeleryTaskLifecycle_proofs` | `TypeCorrect`, `PendingRowsHaveOwners` (`PendingHasOwner`), `LastHookIsRecorded` (`OutcomeRecorded`) |
| `DatabaseImport_proofs` | `TypeCorrect`, `DoneIsImported` (`DoneNamesFull`), `SettledInTime` (`InTimeSettled`), `FullIsKept` (`FullStaysFull`) |
| `JournalArchive_proofs` | `TypeCorrect`, `NothingIsLost` (`ExportLosesNothing`), `RecentAreKept` (`RecentKept`), `PromiseIsKept` (`KeepsPromise`) |
| `ScheduleChain_proofs` | `TypeCorrect`, `NoStepIsSkipped` (`QuietChainIsComplete`), `StepsStayInOrder` (`StepsInOrder`) |
| `EcosystemCache_proofs` | `TypeCorrect`, `PromiseIsKept` (`KeepsPromise`) |
| `RecycleBin_proofs` | `TypeCorrect`, `CodeSurvivesTheBin` (`CodeKept`), `GoneForGoodNeedsTwo` (`GoneNeedsTwo`) |
| `PackageInstall_proofs` | `TypeCorrect`, `RowsComeFromRaces` (`OneRowPerCode`), `PrimariesComeFromCrossing` (`AtMostOnePrimary`), `FailuresHaveCauses` (`FailureHasCause`), `DoneInstalledAll` (`DoneIsInstalled`), `NoChildLeftWaiting` (`NoChildWaits`), `ReleaseIsShown` (`SettledShowsContent`) |
| `TransactionImport_proofs` | `TypeCorrect`, `TwinsComeFromOverlap` (`TwinsNeedOverlap`), `OneScheduleIsLeft` (`OneSchedule`), `SuccessIsThere` (`SuccessIsBooked`), `ErrorStaysError` (`ErrorSticks`), `OverwritesHeal` (`OverwriteHeals`), `PromiseIsKept` (`KeepsPromise`), `ImportAloneRefines` |

### CeleryTaskLifecycle

Neither property is inductive. The inductive invariant `IInv` has three parts.

* `WellFormed`: `TypeOK`; `RunsWellFormed` (an idle worker holds nothing, a
  worker in a body holds a loaded object, a child that is to be terminated has
  not run its hook) and `AdminWellFormed`.
* `PendingHeld` is stronger than `PendingHasOwner`: a delivery that only waits
  for its acknowledgement no longer counts as an owner. Otherwise `Ack` could
  leave a PENDING row quiet.
* `OutcomeKept` is stronger than `OutcomeRecorded`: it asks for the recorded
  outcome as soon as no delivery of the row is *executed*, although its message
  may still wait or be acknowledged. Otherwise the discarding or the
  acknowledgement of the last message would have to establish it.

`StepInvariant` has one lemma per action; the lemmas about `Saved` and
`Trimmed` say that a save changes a row only to the copy or to nothing.

### DatabaseImport

`DoneNamesFull` reads the table, but any copy of the row that the request, the
callback, the finisher's body or its hook holds may be saved later. So
`HonestCopies` asks the same of all of them, and `WrittenInFull` of a handler
between its write to the object and its record; both rest on `FullStaysFull`.
`PendingCopy` says why the request's own copy is a PENDING one: until it has
posted, nobody else writes the row. `InTime` follows from the order of
`FinisherStart` and the request's return, which `late` remembers.

### JournalArchive

`NothingIsLost`, `RecentAreKept` and `PromiseIsKept` hold under one assumption,
`OneDailyExport`: at most one worker exports at a time, and Beat starts it, so
that it exports days that are over. Without it the first theorem is false, see
section 2. Clearings beside it are unrestricted. The inductive invariant says
what an exporter between two steps relies on:

* `WorksOnOld`, `LeftOld`: an export and a clearing only ever hold days or
  records that a policy has released, however long they take;
* `Recorded`: a record is in the table, cleared, or in the file of *its own*
  day;
* `DayFiles`: a day's file is either not needed, or its day is over, has no
  records left and no exporter is beyond its look at it, so that nobody is
  about to replace the file;
* `CopyCovers`: what an exporter has read covers the day's records, and after
  the save the file does, so that neither the deletion of the old file nor that
  of the records takes anything away.

`PromiseIsKept` uses the invariant in each step: a write adds a record that no
file has, deletions take released records that are held elsewhere, everything
else stutters. `TypeCorrect` needs no assumption about exporters; it needs
`DaysAhead` and `ChunksAhead`, which bound what a job will still name.

### ScheduleChain

The danger to `QuietChainIsComplete` is that two runs of `run_next_procedure`
overwrite each other's count. The inductive invariant:

* `CountedIsSent`: every step up to the count in the table was sent, or is about
  to be by a worker that has just saved that count; `CopyIsSent` says the same
  of the steps below the count of a copy that is not saved yet;
* `Carried`: an instance of which nothing failed has reached a step that is not
  a data procedure, or the last one, or some message or worker will count it on
  *from the number that is in the table*. A run that sets the count back does
  not break this, because the same run then sends the step of that number.

`StepsInOrder` counts. `Tasks(i)` is the number of messages and workers of an
instance: `Counted` bounds it by one as long as nothing of the instance was
delivered again, and `InTurn` says for that one task which steps have started
and ended when it is where it is.

### EcosystemCache

The cache key is the primary key of the master user, and `KeepsPromise` is proved
for every assignment of primary keys to spaces. `RowsInPlace` is inductive: a
copy is stored under the key of its own space, so that whoever finds it has that
key, and a caller carries rows of its own space only. `SavesFit` counts saves
from their beginning, which bounds the versions. `TypeOK` of this module is
proved (`TypeCorrect`) and no run repeats it.
The refinement then maps each step: `Fill` and `SaveEnds` keep alive
what was alive, invalidation and time let rows go, an answer is of a row that is
alive.

### RecycleBin

`CodeKept` is inductive together with the forms of requests and jobs: what a
request or a bulk task is about to mark was not marked when it was read.
`GoneNeedsTwo` needs the books of `Accounted`: the requests made for an object
since it was last brought back are at least those that are still open plus the
one that marked it, and two if it is gone. The proof attempt showed that a
restore may not set `asked` to 0: a request that has read the marked object
stays open over the restore, and removes the object when it was marked again
under the same generated code, so that the copy is like the row (two readers of
the counter can draw one number; the run has too few requests for it). `asked`
therefore starts again from the request that is still open.

### PackageInstall

* `TypeInv`: where a worker may be for the step it is at (`Zone`), what it
  holds there (`Holds`), and that deliveries of a job are told apart
  (`Delivered`, `OwnDelivery`).
* `Ledger`, for `DoneIsInstalled` and `NoChildWaits`: for each delivery, which
  of its children and imports exist and in which status, step by step of the
  worker that has it (`LedgerAt`). The row of the package, and every copy of it
  that a worker may still save, says DONE only if some delivery has its ledger
  full (`Honest`); entries never go back.
* `ConfInv`: who is about to create a row found none, unless the code was
  raced; who is about to save a primary row has cleared the others, unless two
  such saves crossed.
* `Causes`: ERROR is in a row or a copy only if the job is `spoilt`, and without
  that the options with the dependencies are still in the row.
* `ShowInv`, for `ReleaseIsShown`: a worker that is alone inside a configuration
  knows that the last row of the code shows its release and that the items it is
  through with are of that release (`LoneAt`, `StageOf`); in a settled
  configuration only workers that switch the primary module are at work, and
  what they save shows the release already there (`KeepsRelease`). TLC checked
  `ShowInv` before it was proved. The theorem assumes `PackagesApart`: no package
  has the code of a dependency. The row of a package gets the release of the
  package, but no item comes with it, and writing it does not unsettle the
  configuration of that code.

### TransactionImport

* `BookingInv`, for twins and schedules: a booker that nobody interrupted
  (`~stale`) still knows what it looked up (`Knows`): no live owner of its code
  when it is about to insert, no schedule when it is about to write one.
  `SuccessIsBooked` follows for the step that reports it.
* `LineInv`, for `ErrorSticks`: what the phase says of the status of the line,
  and that a process that is over has a verdict.
* `HealInv`, for `OverwriteHeals`: with an overwriting import and no requests,
  the codes of the bookings that are over are whole (one live row, complete),
  unless a broken row names them or the process is replacing their row at this
  moment (`Redoing`). A redelivery starts from the first line, where nothing is
  claimed, so what the lost worker left does not matter; TLC checked `HealInv`
  before it was proved.
* `Handed`, for `KeepsPromise`: the row that the process writes is live, has the
  process's code and is complete exactly when there were no errors; and the
  process is about to take rows away only if its scheme overwrites. With
  `BookingInv` an import that nobody disturbs also knows that no other row has
  its code. So `Drop` and `Check` are `Replace`, `Finish` is `Book`, `LoseWorker`
  and `KillChild` are `Book` when the row in hand is complete, and every other
  step stutters. All this is claimed of the steps up to the first request only: a
  rebooking takes a transaction away under any scheme, which the promise does not
  allow. `ImportAloneRefines` is the case without any request (`NoRequests`):
  there `Spec` implies the whole of `BookingPromise`. TLC checked `Handed` on an
  instance without requests before it was proved.

### Only model-checked

* The liveness properties `Settles`, `Expires`, `OldLeave`, `Ends`,
  `OldRowsExpire`, `Finishes`, `JobOver`, `InstallsEnd`: liveness under fairness
  is out of the prover's reach.
* The two properties that are violated are refuted by a trace; there is nothing
  to prove.

## 5. Findings

| run | the source says | the code does |
|---|---|---|
| `journal_clear` | history/tasks.py:60 "save them into a file" | the file is empty, the records are deleted |
| `cache_one_key` | test__get_existing_cache expects the row of the caller's master user | the key holds its primary key only, which another space's has too: a caller is answered with the row of another space |

Other disagreements between code, comments and tests are described with the
modules in section 2; the properties checked there hold with them.

## 6. What is not modelled

Within the modelled components: `check_for_died_workers` (not scheduled),
attachments and progress texts, `handle_task_failure` (it never gets to its
save), the task row of a user's journal export (an ordinary row of
`CeleryTaskLifecycle`), the update-status API on an import's row, cron
expressions and the registration of periodic tasks, `process_as_pending` and
`recalculate` of a transaction type (the second writes nothing), `bulk_restore`
of complex transactions (it gives a code back unless another row has it, and
brings the base transactions back in any case), their `update-properties` and
`bulk-update-properties` (whole-row saves of status and visibility), the conversion
of a file to rows, exporting and pushing a configuration, the workflows that the
actions of a manifest start.

One simplification is worth a line of its own. A scheme with
`USE_TRANSACTION_TYPE_SETTING` leaves the uniqueness reaction to the transaction
type of each scenario (`TransactionTypeProcess.uniqueness_reaction`), so that the
scenarios of one import may differ in it; the model gives an import one reaction
for all of its scenarios. Requests choose theirs each time.

* *Tenant context.* What a database connection keeps between two units of work
  is decided by Django and the connection pool, which are not part of the
  repository; a model would state our assumptions about them and check those.
* *Reports.* SQL text. The groups of tasks that would be joined inside a task are
  commented out in the builders, except for one that Celery refuses to join.
* *Explorer.* The synchronisation that would fill `StorageObject` is never called
  (`SyncViewSet` creates a "fake task", `start_update_create_path_in_storage` has
  no caller), so that there is no tree that could differ from the storage. The
  bodies of its tasks are the bodies of `CeleryTaskLifecycle`.
* *Simple import, instruments, portfolios, reconciliation.* Next in the plan; the
  ends of the imports are part of `ScheduleChain`.
* Expressions are a language of their own; the CRUD modules (iam, users, widgets,
  vault, ui, notifications, file reports, auth tokens) have no interleaving worth
  a model beyond the whole-row save that `CeleryTaskLifecycle` treats.

## 7. Plan

Done: the task rows, the database import, the journal with its promise, the
schedule chain, the cache with its promise, booking, the transaction import with
its promise, the recycle bin, the installation of packages; proofs of every
safety invariant, action property and refinement of the passing runs. To come,
the most important first:

1. Moves and copies in the storage (read, save, delete; names for copies).
2. The simple import; instrument events and the portfolio register.
