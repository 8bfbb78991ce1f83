----------------------------- MODULE RecycleBin -----------------------------
(***************************************************************************)
(* The recycle bin (FakeDeletableModel, poms/common): objects of a model   *)
(* that are marked as deleted, restored, or deleted for good, by requests  *)
(* (destroy) and by the Celery tasks bulk_delete and bulk_restore.         *)
(*                                                                         *)
(* An object keeps its user code in deleted_user_code while it is marked   *)
(* and carries a generated code from a counter of the master user instead, *)
(* so that its own code may be given to a new object.  Every actor works   *)
(* on a copy of the row that it read before.  A task of a lost worker is   *)
(* delivered again and reads the rows as its first delivery left them.     *)
(***************************************************************************)
EXTENDS Naturals, FiniteSets

CONSTANTS
    Object,      \* the objects that ever exist
    Code,        \* the user codes that users choose
    Home,        \* object -> the code it is created with
    AtFirst,     \* the objects that exist from the start
    MaxCounter,  \* values of the counter (bound)
    MaxRequests, \* requests to delete or to restore (bound)
    MaxFaults,   \* lost workers and children (bound)
    NoCode,      \* deleted_user_code is None
    NoRow        \* no such row

\* A user code: one that a user chose, the name of an object, a generated one.
Own(o) == <<"own", Home[o]>>
Name(o) == <<"name", o>>
Generated(n) == <<"del", n>>
Codes == ({"own"} \X Code) \cup ({"name"} \X Object) \cup ({"del"} \X (1 .. MaxCounter))

Row == [code : Codes, kept : Codes \cup {NoCode}, deleted : BOOLEAN]

ASSUME ObjectsAssumption == AtFirst \subseteq Object /\ Home \in [Object -> Code]
ASSUME CodesAssumption == \A o, p \in AtFirst : Home[o] = Home[p] => o = p
ASSUME BoundsAssumption == MaxCounter \in Nat /\ MaxRequests \in Nat /\ MaxFaults \in Nat
ASSUME NoneAssumption == NoCode \notin Codes /\ NoRow \notin Row \cup Object

VARIABLES
    row,      \* the table: object -> row, or NoRow
    born,     \* the objects that were created
    counter,  \* user_code_counters[0] of the master user
    request,  \* the destroy request that is open
    job,      \* the bulk task
    asked,    \* history: object -> delete requests since it was last restored,
              \* the one that was open then included
    again,    \* history: objects of a bulk_delete that was delivered again
    spoiled,  \* history: objects restored while they were live, or written
              \* from a copy that was no longer what the row said
    requests, \* requests so far
    faults    \* faults so far

vars == <<row, born, counter, request, job, asked, again, spoiled, requests, faults>>

Exists(o) == row[o] # NoRow
Taken(code, o) == \E p \in Object \ {o} : Exists(p) /\ row[p].code = code

NoRequest == [object |-> NoRow, copy |-> NoRow, count |-> 0]
NoJob == [kind |-> "none", state |-> "idle", ids |-> {}, todo |-> {},
          copies |-> [o \in Object |-> NoRow], object |-> NoRow, count |-> 0]

Init ==
    /\ row = [o \in Object |-> IF o \in AtFirst
                THEN [code |-> Own(o), kept |-> NoCode, deleted |-> FALSE] ELSE NoRow]
    /\ born = AtFirst
    /\ counter = 0
    /\ request = NoRequest
    /\ job = NoJob
    /\ asked = [o \in Object |-> 0]
    /\ again = {}
    /\ spoiled = {}
    /\ requests = 0
    /\ faults = 0

-----------------------------------------------------------------------------
(* What the methods of a model instance write, from the copy they hold. *)

\* Mutant: the code is not put aside.
BinnedForgetful(copy, n) == [code |-> Generated(n), kept |-> NoCode, deleted |-> TRUE]

Binned(copy, n) == [code |-> Generated(n), kept |-> copy.code, deleted |-> TRUE]

\* Mutant: the kept code is written back, even if it is None.
UnbinnedNull(o, copy) == [code |-> copy.kept, kept |-> NoCode, deleted |-> FALSE]

\* A copy without deleted_user_code: NamedModel.save falls back on the name.
Unbinned(o, copy) ==
    [code |-> IF copy.kept = NoCode THEN Name(o) ELSE copy.kept,
     kept |-> NoCode, deleted |-> FALSE]

Spoils(o, bad) == spoiled' = IF bad THEN spoiled \cup {o} ELSE spoiled

\* fake_delete: the counter was read as n; it is saved first.  A code that is
\* taken, or a row that is gone, raises.
FakeDelete(o, copy, n) ==
    /\ n < MaxCounter
    /\ counter' = n + 1
    /\ IF Exists(o) /\ ~Taken(Generated(n + 1), o)
       THEN /\ row' = [row EXCEPT ![o] = Binned(copy, n + 1)]
            /\ Spoils(o, row[o] # copy)
       ELSE UNCHANGED <<row, spoiled>>

\* Mutant: what is marked is not looked at.
ForGoodAlways(copy) == TRUE

\* perform_destroy and bulk_delete: what is marked already is really deleted.
ForGood(copy) == copy.deleted

Delete(o, copy) ==
    /\ row' = [row EXCEPT ![o] = NoRow]
    /\ Spoils(o, row[o] # copy)
    /\ UNCHANGED counter

RestoreFails(o, copy) == ~Exists(o) \/ Taken(Unbinned(o, copy).code, o)

Restore(o, copy) ==
    /\ row' = [row EXCEPT ![o] = Unbinned(o, copy)]
    /\ Spoils(o, row[o] # copy \/ ~copy.deleted)
    /\ asked' = [asked EXCEPT ![o] = IF request.object = o THEN 1 ELSE 0]
    /\ again' = again \ {o}

-----------------------------------------------------------------------------
(* Requests. *)

\* A new object may take the code of one that is marked.
Create(o) ==
    /\ o \notin born
    /\ ~Taken(Own(o), o)
    /\ row' = [row EXCEPT ![o] = [code |-> Own(o), kept |-> NoCode, deleted |-> FALSE]]
    /\ born' = born \cup {o}
    /\ UNCHANGED <<counter, request, job, asked, again, spoiled, requests, faults>>

Asks == requests < MaxRequests /\ requests' = requests + 1

\* destroy: get_object, and the counter as fake_delete is about to read it.
Destroy(o) ==
    /\ Asks
    /\ request = NoRequest
    /\ Exists(o)
    /\ request' = [object |-> o, copy |-> row[o], count |-> counter]
    /\ asked' = [asked EXCEPT ![o] = @ + 1]
    /\ UNCHANGED <<row, born, counter, job, again, spoiled, faults>>

PerformDestroy ==
    LET o == request.object IN
    /\ request # NoRequest
    /\ IF ForGood(request.copy)
       THEN Delete(o, request.copy)
       ELSE FakeDelete(o, request.copy, request.count)
    /\ request' = NoRequest
    /\ UNCHANGED <<born, job, asked, again, requests, faults>>

\* bulk-delete and bulk-restore create the task and send it.
SendBulk(kind, ids) ==
    /\ Asks
    /\ job.state = "idle"
    /\ ids # {}
    /\ job' = [NoJob EXCEPT !.kind = kind, !.state = "queued", !.ids = ids]
    /\ UNCHANGED <<row, born, counter, request, spoiled, faults>>

BulkDelete(ids) ==
    /\ SendBulk("delete", ids)
    /\ asked' = [o \in Object |-> IF o \in ids THEN asked[o] + 1 ELSE asked[o]]
    /\ UNCHANGED again

\* Refused when an object is missing or an existing one has a code it would get.
BulkRestore(ids) ==
    /\ \A o \in ids : Exists(o)
    /\ \A o \in ids, p \in Object : Exists(p) => row[p].code # row[o].kept
    /\ SendBulk("restore", ids)
    /\ UNCHANGED <<asked, again>>

-----------------------------------------------------------------------------
(* The tasks. *)

\* The queryset is evaluated once: copies of all rows.
JobBegins ==
    LET found == {o \in job.ids : Exists(o)} IN
    /\ job.state = "queued"
    /\ job' = [job EXCEPT !.state = "running", !.todo = found,
                          !.copies = [o \in Object |-> IF o \in found THEN row[o] ELSE NoRow]]
    /\ UNCHANGED <<row, born, counter, request, asked, again, spoiled, requests, faults>>

\* fake_delete of the next instance reads the counter.
JobTakes(o) ==
    /\ job.state = "running" /\ job.kind = "delete" /\ job.object = NoRow
    /\ o \in job.todo
    /\ ~ForGood(job.copies[o])
    /\ job' = [job EXCEPT !.object = o, !.count = counter]
    /\ UNCHANGED <<row, born, counter, request, asked, again, spoiled, requests, faults>>

\* An exception of one instance is kept for the end; the others are done.
JobMarks(o) ==
    /\ job.state = "running" /\ job.object = o
    /\ FakeDelete(o, job.copies[o], job.count)
    /\ job' = [job EXCEPT !.object = NoRow, !.todo = @ \ {o}, !.count = 0]
    /\ UNCHANGED <<born, request, asked, again, requests, faults>>

JobDeletes(o) ==
    /\ job.state = "running" /\ job.kind = "delete" /\ job.object = NoRow
    /\ o \in job.todo
    /\ ForGood(job.copies[o])
    /\ Delete(o, job.copies[o])
    /\ job' = [job EXCEPT !.todo = @ \ {o}]
    /\ UNCHANGED <<born, request, asked, again, requests, faults>>

\* Mutant: the task is retried when an instance cannot be restored.
JobRestoresRetried(o) ==
    /\ job.state = "running" /\ job.kind = "restore"
    /\ o \in job.todo
    /\ IF RestoreFails(o, job.copies[o])
       THEN /\ job' = [job EXCEPT !.state = "queued"]
            /\ UNCHANGED <<row, spoiled, asked, again>>
       ELSE /\ job' = [job EXCEPT !.todo = @ \ {o}]
            /\ Restore(o, job.copies[o])
    /\ UNCHANGED <<born, counter, request, requests, faults>>

\* The first exception of a restore ends the task; what is restored stays.
JobRestores(o) ==
    /\ job.state = "running" /\ job.kind = "restore"
    /\ o \in job.todo
    /\ IF RestoreFails(o, job.copies[o])
       THEN /\ job' = NoJob
            /\ UNCHANGED <<row, spoiled, asked, again>>
       ELSE /\ job' = [job EXCEPT !.todo = @ \ {o}]
            /\ Restore(o, job.copies[o])
    /\ UNCHANGED <<born, counter, request, requests, faults>>

JobEnds ==
    /\ job.state = "running"
    /\ job.todo = {}
    /\ job' = NoJob
    /\ UNCHANGED <<row, born, counter, request, asked, again, spoiled, requests, faults>>

\* The worker is lost: the task is delivered again, with the same ids.
LoseWorker ==
    /\ job.state = "running"
    /\ faults < MaxFaults
    /\ faults' = faults + 1
    /\ job' = [NoJob EXCEPT !.kind = job.kind, !.state = "queued", !.ids = job.ids]
    /\ again' = IF job.kind = "delete" THEN again \cup job.ids ELSE again
    /\ UNCHANGED <<row, born, counter, request, asked, spoiled, requests>>

\* Only the child is lost: the task is not delivered again.
KillChild ==
    /\ job.state = "running"
    /\ faults < MaxFaults
    /\ faults' = faults + 1
    /\ job' = NoJob
    /\ UNCHANGED <<row, born, counter, request, asked, again, spoiled, requests>>

JobStep ==
    \/ JobBegins
    \/ \E o \in Object : JobTakes(o) \/ JobMarks(o) \/ JobDeletes(o) \/ JobRestores(o)
    \/ JobEnds

Next ==
    \/ \E o \in Object : Create(o) \/ Destroy(o)
    \/ PerformDestroy
    \/ \E ids \in SUBSET born : BulkDelete(ids) \/ BulkRestore(ids)
    \/ JobStep
    \/ LoseWorker
    \/ KillChild

\* A worker goes on with its task; users need not do anything.
Spec == Init /\ [][Next]_vars /\ WF_vars(JobStep)

-----------------------------------------------------------------------------
(* Properties. *)

Copy == Row \cup {NoRow}

\* Types: a row always has a user code.
TypeOK ==
    /\ row \in [Object -> Copy]
    /\ born \subseteq Object
    /\ counter \in 0 .. MaxCounter
    /\ request \in [object : Object \cup {NoRow}, copy : Copy, count : 0 .. MaxCounter]
    /\ job \in [kind : {"none", "delete", "restore"}, state : {"idle", "queued", "running"},
                ids : SUBSET Object, todo : SUBSET Object, copies : [Object -> Copy],
                object : Object \cup {NoRow}, count : 0 .. MaxCounter]
    /\ asked \in [Object -> 0 .. MaxRequests]
    /\ again \subseteq Object
    /\ spoiled \subseteq Object
    /\ requests \in 0 .. MaxRequests
    /\ faults \in 0 .. MaxFaults

Gone(o) == o \in born /\ ~Exists(o)

\* The code of an object survives the bin: it is the object's while it is
\* live and in deleted_user_code while it is marked, whatever fails or is
\* delivered again, unless a restore met it live or a copy was out of date.
CodeKept ==
    \A o \in Object \ spoiled :
        Exists(o) => IF row[o].deleted
                     THEN row[o].kept = Own(o) /\ row[o].code[1] = "del"
                     ELSE row[o].code = Own(o) /\ row[o].kept = NoCode

\* An object goes for good only after it was deleted twice since it was last
\* restored (a request that was open at the time counts), or when its
\* bulk_delete was delivered twice.
GoneNeedsTwo == \A o \in Object \ spoiled : Gone(o) => asked[o] > 1 \/ o \in again

\* A bulk task ends, whatever single instances do.
JobOver == job.state = "queued" ~> job.state = "idle"
=============================================================================
