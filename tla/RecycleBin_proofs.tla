-------------------------- MODULE RecycleBin_proofs --------------------------
(***************************************************************************)
(* Proofs about RecycleBin: an object keeps its user code in the bin, and  *)
(* goes for good only when it was deleted twice, for any number of         *)
(* objects, codes, requests and lost workers.                              *)
(***************************************************************************)
EXTENDS RecycleBin, TLAPS

Marked(o) == Exists(o) /\ row[o].deleted

JobType == [kind : {"none", "delete", "restore"}, state : {"idle", "queued", "running"},
            ids : SUBSET Object, todo : SUBSET Object, copies : [Object -> Copy],
            object : Object \cup {NoRow}, count : 0 .. MaxCounter]

\* The task has still to delete o.
JobWillDelete(o) ==
    /\ job.kind = "delete"
    /\ \/ job.state = "queued" /\ o \in job.ids
       \/ job.state = "running" /\ o \in job.todo

One(b) == IF b THEN 1 ELSE 0

\* Delete requests of o that are not carried out yet.
Open(o) == One(request.object = o) + One(JobWillDelete(o))

\* A request and a running task hold copies of what they still have to do;
\* what they are about to mark was not marked when they read it.
RequestWellFormed ==
    request # NoRequest =>
        /\ request.object \in born
        /\ request.copy \in Row
        /\ asked[request.object] > 0

JobWellFormed ==
    /\ job.state # "idle" => job.kind # "none"
    /\ job.ids \subseteq born
    /\ job.todo \subseteq job.ids
    /\ \A o \in job.todo : job.copies[o] \in Row
    /\ job.object # NoRow =>
          /\ job.state = "running" /\ job.kind = "delete"
          /\ job.object \in job.todo
          /\ ~job.copies[job.object].deleted

\* Every delete request that was made is accounted for: it is open, has marked
\* the object, or has removed it.
Accounted ==
    \A o \in born \ (spoiled \cup again) :
        asked[o] >= IF ~Exists(o) THEN 2 ELSE One(Marked(o)) + Open(o)

BornCovers == \A o \in Object : Exists(o) => o \in born

IInv ==
    /\ TypeOK
    /\ BornCovers
    /\ \A o \in Object : asked[o] <= requests
    /\ RequestWellFormed /\ JobWellFormed
    /\ CodeKept /\ Accounted

-----------------------------------------------------------------------------
(* Rows and copies. *)

LEMMA CodeTypes ==
    ASSUME NEW o \in Object
    PROVE  /\ Own(o) \in Codes /\ Name(o) \in Codes
           /\ Own(o) # NoCode
           /\ Own(o)[1] # "del"
           /\ \A n \in 1 .. MaxCounter : Generated(n) \in Codes /\ Generated(n)[1] = "del"
BY ObjectsAssumption, NoneAssumption DEF Codes, Own, Name, Generated

LEMMA BinnedType ==
    ASSUME NEW copy \in Row, NEW n \in 1 .. MaxCounter
    PROVE  /\ Binned(copy, n) \in Row
           /\ Binned(copy, n).deleted
           /\ Binned(copy, n).kept = copy.code
           /\ Binned(copy, n).code = Generated(n)
<1>1. Generated(n) \in Codes
    BY DEF Codes, Generated
<1>2. QED
    BY <1>1 DEF Binned, Row

LEMMA UnbinnedType ==
    ASSUME NEW copy \in Row, NEW o \in Object
    PROVE  /\ Unbinned(o, copy) \in Row
           /\ ~Unbinned(o, copy).deleted
           /\ Unbinned(o, copy).kept = NoCode
           /\ copy.kept # NoCode => Unbinned(o, copy).code = copy.kept
<1>1. Name(o) \in Codes
    BY CodeTypes
<1>2. QED
    BY <1>1 DEF Unbinned, Row

\* The record set that TypeOK gives the task.
LEMMA JobTypes == NoJob \in JobType /\ (IInv => job \in JobType)
<1>1. NoJob \in JobType
    BY BoundsAssumption DEF NoJob, JobType, Copy
<1>2. QED
    BY <1>1 DEF IInv, TypeOK, JobType

LEMMA InitInvariant == Init => IInv
<1> SUFFICES ASSUME Init PROVE IInv
    OBVIOUS
<1> USE ObjectsAssumption, BoundsAssumption, NoneAssumption DEF Init
<1>1. \A o \in AtFirst : [code |-> Own(o), kept |-> NoCode, deleted |-> FALSE] \in Row
    BY CodeTypes DEF Row
<1>2. NoRequest \in [object : Object \cup {NoRow}, copy : Copy, count : 0 .. MaxCounter]
    BY DEF NoRequest, Copy
<1>4. TypeOK
    BY <1>1, <1>2, JobTypes DEF TypeOK, Copy, JobType
<1>5. RequestWellFormed /\ JobWellFormed
    BY DEF RequestWellFormed, JobWellFormed, NoJob
<1>6. CodeKept /\ BornCovers
    BY <1>1 DEF CodeKept, BornCovers, Exists
<1>7. Accounted
    BY <1>1 DEF Accounted, Exists, Marked, Open, One, JobWillDelete, NoJob, NoRequest
<1>8. QED
    BY <1>4, <1>5, <1>6, <1>7 DEF IInv

-----------------------------------------------------------------------------
(* What the methods of an instance do to the table. *)

\* The new mark of an object that nobody wrote meanwhile keeps its code.
LEMMA FakeDeleteEffect ==
    ASSUME IInv, NEW o \in Object, NEW copy \in Row, ~copy.deleted,
           NEW n \in 0 .. MaxCounter, FakeDelete(o, copy, n)
    PROVE  /\ row' \in [Object -> Copy]
           /\ counter' \in 0 .. MaxCounter
           /\ spoiled \subseteq spoiled' /\ spoiled' \subseteq Object
           /\ \A p \in Object \ {o} : row'[p] = row[p]
           /\ Exists(o)' <=> Exists(o)
           /\ o \notin spoiled' => row'[o] = row[o] \/ ~Marked(o)
           /\ CodeKept'
<1> USE BoundsAssumption
<1>1. n + 1 \in 1 .. MaxCounter /\ counter' = n + 1
    BY DEF FakeDelete
<1>2. /\ Binned(copy, n + 1) \in Row
      /\ Binned(copy, n + 1).deleted
      /\ Binned(copy, n + 1).kept = copy.code
      /\ Binned(copy, n + 1).code[1] = "del"
    BY <1>1, BinnedType, CodeTypes
<1>3. row \in [Object -> Copy] /\ spoiled \subseteq Object /\ CodeKept
    BY DEF IInv, TypeOK
<1>4. CASE row' = [row EXCEPT ![o] = Binned(copy, n + 1)] /\ Exists(o) /\ Spoils(o, row[o] # copy)
  <2>1. row' \in [Object -> Copy] /\ \A p \in Object \ {o} : row'[p] = row[p]
      BY <1>2, <1>3, <1>4 DEF Copy
  <2>2. row'[o] = Binned(copy, n + 1) /\ row'[o] # NoRow
      BY <1>2, <1>3, <1>4, NoneAssumption
  <2>3. spoiled \subseteq spoiled' /\ spoiled' \subseteq Object
      BY <1>3, <1>4 DEF Spoils
  <2>4. o \notin spoiled' => row[o] = copy /\ ~Marked(o) /\ o \notin spoiled
      BY <1>4 DEF Spoils, Marked
  <2>5. o \notin spoiled' => row'[o].kept = Own(o)
      BY <1>2, <1>3, <1>4, <2>2, <2>4 DEF CodeKept
  <2>6. CodeKept'
      BY <1>2, <1>3, <2>1, <2>2, <2>3, <2>5 DEF CodeKept, Exists
  <2>7. QED
      BY <1>1, <1>4, <2>1, <2>2, <2>3, <2>4, <2>6 DEF Exists
<1>5. CASE UNCHANGED <<row, spoiled>>
    BY <1>1, <1>3, <1>5 DEF CodeKept, Exists
<1>6. QED
    BY <1>4, <1>5 DEF FakeDelete

\* What is really deleted, and was not written meanwhile, had been marked.
LEMMA DeleteEffect ==
    ASSUME IInv, NEW o \in Object, NEW copy \in Row, copy.deleted, Delete(o, copy)
    PROVE  /\ row' \in [Object -> Copy]
           /\ counter' = counter
           /\ spoiled \subseteq spoiled' /\ spoiled' \subseteq Object
           /\ \A p \in Object \ {o} : row'[p] = row[p]
           /\ ~Exists(o)'
           /\ o \notin spoiled' => Marked(o)
           /\ CodeKept'
<1>1. row \in [Object -> Copy] /\ spoiled \subseteq Object /\ CodeKept
    BY DEF IInv, TypeOK
<1>2. /\ row' \in [Object -> Copy] /\ row'[o] = NoRow
      /\ \A p \in Object \ {o} : row'[p] = row[p]
    BY <1>1 DEF Delete, Copy
<1>3. /\ spoiled \subseteq spoiled' /\ spoiled' \subseteq Object
      /\ o \notin spoiled' => row[o] = copy
    BY <1>1 DEF Delete, Spoils
<1>4. o \notin spoiled' => Marked(o)
    BY <1>3, NoneAssumption DEF Marked, Exists
<1>5. CodeKept'
    BY <1>1, <1>2, <1>3 DEF CodeKept, Exists
<1>6. QED
    BY <1>2, <1>3, <1>4, <1>5 DEF Delete, Exists

LEMMA RestoreEffect ==
    ASSUME IInv, NEW o \in Object, NEW copy \in Row, Exists(o), Restore(o, copy)
    PROVE  /\ row' \in [Object -> Copy]
           /\ spoiled \subseteq spoiled' /\ spoiled' \subseteq Object
           /\ \A p \in Object \ {o} : row'[p] = row[p]
           /\ Exists(o)' /\ ~Marked(o)'
           /\ CodeKept'
<1>1. row \in [Object -> Copy] /\ spoiled \subseteq Object /\ CodeKept
    BY DEF IInv, TypeOK
<1>2. Unbinned(o, copy) \in Row /\ ~Unbinned(o, copy).deleted
    BY UnbinnedType
<1>3. /\ row' \in [Object -> Copy] /\ row'[o] = Unbinned(o, copy)
      /\ \A p \in Object \ {o} : row'[p] = row[p]
    BY <1>1, <1>2 DEF Restore, Copy
<1>4. /\ spoiled \subseteq spoiled' /\ spoiled' \subseteq Object
      /\ o \notin spoiled' => row[o] = copy /\ copy.deleted /\ o \notin spoiled
    BY <1>1 DEF Restore, Spoils
<1>5. o \notin spoiled' => row'[o].code = Own(o) /\ row'[o].kept = NoCode
  <2> SUFFICES ASSUME o \notin spoiled' PROVE row'[o].code = Own(o) /\ row'[o].kept = NoCode
      OBVIOUS
  <2>1. copy.kept = Own(o)
      BY <1>1, <1>4 DEF CodeKept
  <2>2. QED
      BY <1>3, <2>1, UnbinnedType, CodeTypes
<1>6. CodeKept'
    BY <1>1, <1>2, <1>3, <1>4, <1>5 DEF CodeKept, Exists
<1>7. QED
    BY <1>2, <1>3, <1>4, <1>6, NoneAssumption DEF Exists, Marked

-----------------------------------------------------------------------------
(* Requests. *)

LEMMA CreateStep ==
    ASSUME IInv, NEW o \in Object, Create(o)
    PROVE  IInv'
<1> USE DEF Create, IInv
<1>1. [code |-> Own(o), kept |-> NoCode, deleted |-> FALSE] \in Row
    BY CodeTypes DEF Row
<1>2. /\ row' \in [Object -> Copy]
      /\ row'[o] = [code |-> Own(o), kept |-> NoCode, deleted |-> FALSE]
      /\ \A p \in Object \ {o} : row'[p] = row[p]
    BY <1>1 DEF TypeOK, Copy
<1>3. TypeOK'
    BY <1>2 DEF TypeOK
<1>4. RequestWellFormed' /\ JobWellFormed'
    BY DEF RequestWellFormed, JobWellFormed
<1>5. CodeKept' /\ BornCovers'
    BY <1>1, <1>2 DEF CodeKept, BornCovers, Exists
<1>6. Accounted'
  <2>1. request.object # o /\ ~JobWillDelete(o)
      BY NoneAssumption DEF RequestWellFormed, JobWellFormed, JobWillDelete, NoRequest
  <2>2. Exists(o)' /\ ~Marked(o)'
      BY <1>1, <1>2, NoneAssumption DEF Exists, Marked
  <2>3. asked[o] \in Nat
      BY BoundsAssumption DEF TypeOK
  <2>4. ASSUME NEW p \in born, p # o
        PROVE  (Exists(p)' <=> Exists(p)) /\ (Marked(p)' <=> Marked(p))
      BY <1>2, <2>4 DEF TypeOK, Exists, Marked
  <2>5. QED
      BY <2>1, <2>2, <2>3, <2>4 DEF Accounted, Open, One, JobWillDelete
<1>7. QED
    BY <1>3, <1>4, <1>5, <1>6

LEMMA DestroyStep ==
    ASSUME IInv, NEW o \in Object, Destroy(o)
    PROVE  IInv'
<1> USE BoundsAssumption DEF Destroy, IInv, Asks
<1>1. row[o] \in Row /\ o # NoRow
    BY NoneAssumption DEF TypeOK, Copy, Exists
<1>2. o \in born
    BY DEF TypeOK, Exists, BornCovers
<1>3. TypeOK' /\ \A p \in Object : asked'[p] <= requests'
    BY <1>1 DEF TypeOK, Copy
<1>4. RequestWellFormed' /\ JobWellFormed'
    BY <1>1, <1>2 DEF RequestWellFormed, JobWellFormed, TypeOK
<1>5. CodeKept' /\ BornCovers'
    BY DEF CodeKept, Exists, BornCovers
<1>6. Accounted'
    BY <1>1 DEF Accounted, Exists, Marked, Open, One, JobWillDelete, NoRequest, TypeOK
<1>7. QED
    BY <1>3, <1>4, <1>5, <1>6

\* A deletion that is carried out: it marks the object, removes it if it was
\* marked, or fails.
LEMMA OpenGoesDown ==
    ASSUME IInv, NEW o \in born,
           UNCHANGED <<born, asked, again>>,
           spoiled \subseteq spoiled',
           \A p \in Object \ {o} : row'[p] = row[p],
           Exists(o)' => Exists(o),
           o \notin spoiled' => \/ row'[o] = row[o]
                                \/ ~Marked(o) /\ (Exists(o)' <=> Exists(o))
                                \/ Marked(o) /\ ~Exists(o)',
           \A p \in born \ {o} : Open(p)' = Open(p),
           Open(o) = Open(o)' + 1
    PROVE  Accounted'
<1> SUFFICES ASSUME NEW p \in born, p \notin spoiled', p \notin again
             PROVE  asked[p] >= IF ~Exists(p)' THEN 2 ELSE One(Marked(p)') + Open(p)'
    BY DEF Accounted
<1>1. asked[p] >= IF ~Exists(p) THEN 2 ELSE One(Marked(p)) + Open(p)
    BY DEF IInv, Accounted
<1>2. p \in Object /\ asked[p] \in Nat /\ Open(p) \in Nat /\ Open(p)' \in Nat
    BY BoundsAssumption DEF IInv, TypeOK, Open, One
<1>3. CASE p = o
    BY <1>1, <1>2, <1>3 DEF Exists, Marked, One
<1>4. CASE p # o
    BY <1>1, <1>2, <1>4 DEF Exists, Marked, One
<1>5. QED
    BY <1>3, <1>4

LEMMA PerformDestroyStep ==
    ASSUME IInv, PerformDestroy
    PROVE  IInv'
<1> USE DEF PerformDestroy
<1>1. PICK o \in born : /\ o = request.object /\ o \in Object
                        /\ request.copy \in Row /\ request.count \in 0 .. MaxCounter
    BY DEF IInv, TypeOK, RequestWellFormed
<1>2. /\ row' \in [Object -> Copy]
      /\ counter' \in 0 .. MaxCounter
      /\ spoiled \subseteq spoiled' /\ spoiled' \subseteq Object
      /\ \A p \in Object \ {o} : row'[p] = row[p]
      /\ Exists(o)' => Exists(o)
      /\ o \notin spoiled' => \/ row'[o] = row[o]
                              \/ ~Marked(o) /\ (Exists(o)' <=> Exists(o))
                              \/ Marked(o) /\ ~Exists(o)'
      /\ CodeKept'
  <2>1. CASE request.copy.deleted
    <3>1. Delete(o, request.copy)
        BY <1>1, <2>1 DEF ForGood
    <3>2. QED
        BY <1>1, <2>1, <3>1, DeleteEffect DEF IInv, TypeOK, Marked
  <2>2. CASE ~request.copy.deleted
    <3>1. FakeDelete(o, request.copy, request.count)
        BY <1>1, <2>2 DEF ForGood
    <3>2. QED
        BY <1>1, <2>2, <3>1, FakeDeleteEffect
  <2>3. QED
      BY <2>1, <2>2
<1>3. NoRequest \in [object : Object \cup {NoRow}, copy : Copy, count : 0 .. MaxCounter]
    BY BoundsAssumption DEF NoRequest, Copy
<1>4. TypeOK' /\ \A p \in Object : asked'[p] <= requests'
    BY <1>2, <1>3 DEF IInv, TypeOK
<1>5. RequestWellFormed' /\ JobWellFormed'
    BY DEF IInv, RequestWellFormed, JobWellFormed
<1>6. BornCovers'
    BY <1>1, <1>2 DEF IInv, BornCovers, Exists
<1>7. \A p \in born : /\ Open(p)' = One(JobWillDelete(p))
                      /\ Open(p) = One(p = o) + One(JobWillDelete(p))
    BY <1>1, NoneAssumption DEF Open, One, JobWillDelete, NoRequest, IInv, TypeOK
<1>8. Accounted'
    BY <1>1, <1>2, <1>7, OpenGoesDown DEF One
<1>9. QED
    BY <1>2, <1>4, <1>5, <1>6, <1>8 DEF IInv

LEMMA SendBulkStep ==
    ASSUME IInv, NEW ids \in SUBSET born, BulkDelete(ids) \/ BulkRestore(ids)
    PROVE  IInv'
<1> USE BoundsAssumption DEF IInv
<1>1. /\ job.state = "idle"
      /\ requests' = requests + 1 /\ requests' <= MaxRequests
      /\ UNCHANGED <<row, born, counter, request, again, spoiled, faults>>
    BY DEF BulkDelete, BulkRestore, SendBulk, Asks, TypeOK
<1>2. ids \subseteq Object
    BY DEF TypeOK
<1>3. /\ job'.state = "queued" /\ job'.ids = ids /\ job'.todo = {} /\ job'.object = NoRow
      /\ job'.kind \in {"delete", "restore"}
      /\ job'.copies \in [Object -> Copy] /\ job'.count = 0
      /\ job' \in JobType
  <2>1. PICK kind \in {"delete", "restore"} :
          job' = [NoJob EXCEPT !.kind = kind, !.state = "queued", !.ids = ids]
      BY DEF BulkDelete, BulkRestore, SendBulk
  <2>2. job' \in JobType
      BY <1>2, <2>1, JobTypes DEF JobType
  <2>3. QED
      BY <2>1, <2>2 DEF NoJob, JobType
<1>4. /\ asked' \in [Object -> 0 .. MaxRequests]
      /\ \A o \in Object : asked[o] <= asked'[o] /\ asked'[o] <= requests'
    BY <1>1 DEF BulkDelete, BulkRestore, TypeOK
<1>5. TypeOK' /\ \A o \in Object : asked'[o] <= requests'
    BY <1>1, <1>3, <1>4 DEF TypeOK, JobType
<1>6. RequestWellFormed' /\ JobWellFormed'
    BY <1>1, <1>2, <1>3, <1>4 DEF RequestWellFormed, JobWellFormed, TypeOK
<1>7. CodeKept' /\ BornCovers'
    BY <1>1 DEF CodeKept, BornCovers, Exists
<1>8. \A o \in born : asked'[o] >= asked[o] + One(JobWillDelete(o)')
  <2>1. CASE BulkDelete(ids)
      BY <1>3, <2>1 DEF BulkDelete, JobWillDelete, One, TypeOK
  <2>2. CASE BulkRestore(ids)
      BY <1>3, <2>2 DEF BulkRestore, SendBulk, JobWillDelete, NoJob, One, TypeOK
  <2>3. QED
      BY <2>1, <2>2
<1>9. Accounted'
    BY <1>1, <1>4, <1>8 DEF Accounted, Exists, Marked, Open, One, JobWillDelete, TypeOK
<1>10. QED
    BY <1>5, <1>6, <1>7, <1>9

-----------------------------------------------------------------------------
(* The tasks. *)

\* A step that only gives up some of the deletions a task has to do.
LEMMA JobGivesUp ==
    ASSUME IInv, UNCHANGED <<row, born, counter, request, asked, spoiled, requests>>,
           again \subseteq again', again' \subseteq Object, faults' \in 0 .. MaxFaults,
           \A o \in born \ again' : JobWillDelete(o)' => JobWillDelete(o),
           job' \in JobType,
           JobWellFormed'
    PROVE  IInv'
<1> USE DEF IInv
<1>1. TypeOK' /\ \A o \in Object : asked'[o] <= requests'
    BY DEF TypeOK, JobType
<1>2. RequestWellFormed'
    BY DEF RequestWellFormed
<1>3. CodeKept' /\ BornCovers'
    BY DEF CodeKept, BornCovers, Exists
<1>4. ASSUME NEW o \in born, o \notin spoiled, o \notin again'
      PROVE  asked[o] >= IF ~Exists(o) THEN 2 ELSE One(Marked(o)) + Open(o)'
  <2>1. asked[o] >= IF ~Exists(o) THEN 2 ELSE One(Marked(o)) + Open(o)
      BY <1>4 DEF Accounted
  <2>2. /\ Open(o)' = One(request.object = o) + One(JobWillDelete(o)')
        /\ Open(o) = One(request.object = o) + One(JobWillDelete(o))
      BY DEF Open, One
  <2>3. asked[o] \in Nat
      BY BoundsAssumption DEF TypeOK
  <2>4. QED
      BY <1>4, <2>1, <2>2, <2>3 DEF One
<1>5. Accounted'
    BY <1>4 DEF Accounted, Exists, Marked
<1>6. QED
    BY <1>1, <1>2, <1>3, <1>5

LEMMA JobBeginsStep ==
    ASSUME IInv, JobBegins
    PROVE  IInv'
<1> DEFINE found == {o \in job.ids : Exists(o)}
<1>1. found \subseteq Object /\ \A o \in found : row[o] \in Row
    BY DEF IInv, TypeOK, Exists, Copy
<1>2. job' = [job EXCEPT !.state = "running", !.todo = found,
                         !.copies = [o \in Object |-> IF o \in found THEN row[o] ELSE NoRow]]
    BY DEF JobBegins
<1>3. [o \in Object |-> IF o \in found THEN row[o] ELSE NoRow] \in [Object -> Copy]
    BY <1>1 DEF Copy
<1> HIDE DEF found
<1>4. /\ job' \in JobType
      /\ job'.kind = job.kind /\ job'.state = "running" /\ job'.ids = job.ids
      /\ job'.todo = found /\ job'.object = job.object
      /\ job'.copies = [o \in Object |-> IF o \in found THEN row[o] ELSE NoRow]
    BY <1>1, <1>2, <1>3, JobTypes DEF JobType
<1>5. JobWellFormed'
    BY <1>1, <1>4 DEF JobBegins, IInv, JobWellFormed, found
<1>6. \A o \in born : JobWillDelete(o)' => JobWillDelete(o)
    BY <1>4 DEF JobBegins, JobWillDelete, found
<1>7. QED
    BY <1>4, <1>5, <1>6, JobGivesUp DEF JobBegins, IInv, TypeOK

LEMMA JobTakesStep ==
    ASSUME IInv, NEW o \in Object, JobTakes(o)
    PROVE  IInv'
<1>1. /\ job' \in JobType
      /\ job'.kind = job.kind /\ job'.state = job.state /\ job'.ids = job.ids
      /\ job'.todo = job.todo /\ job'.copies = job.copies /\ job'.object = o
    BY JobTypes DEF JobTakes, JobType, IInv, TypeOK
<1>2. JobWellFormed'
    BY <1>1 DEF JobTakes, ForGood, IInv, JobWellFormed
<1>3. \A p \in born : JobWillDelete(p)' => JobWillDelete(p)
    BY <1>1 DEF JobWillDelete
<1>4. QED
    BY <1>1, <1>2, <1>3, JobGivesUp DEF JobTakes, IInv, TypeOK

\* JobEnds, LoseWorker and KillChild.
LEMMA JobStopsStep ==
    ASSUME IInv, JobEnds \/ LoseWorker \/ KillChild
    PROVE  IInv'
<1> USE BoundsAssumption
<1>1. NoJob \in JobType /\ job \in JobType
    BY JobTypes
<1>2. faults \in 0 .. MaxFaults /\ again \subseteq Object /\ job.ids \subseteq Object
    BY DEF IInv, TypeOK
<1>3. CASE JobEnds \/ KillChild
  <2>1. job' = NoJob /\ again' = again /\ faults' \in 0 .. MaxFaults
      BY <1>2, <1>3 DEF JobEnds, KillChild
  <2>2. JobWellFormed' /\ \A o \in born : ~JobWillDelete(o)'
      BY <2>1 DEF JobWellFormed, JobWillDelete, NoJob
  <2>3. QED
      BY <1>1, <1>2, <1>3, <2>1, <2>2, JobGivesUp DEF JobEnds, KillChild
<1>4. CASE LoseWorker
  <2>1. /\ job'.kind = job.kind /\ job'.state = "queued" /\ job'.ids = job.ids
        /\ job'.todo = {} /\ job'.object = NoRow
        /\ job' \in JobType
      BY <1>1, <1>4 DEF LoseWorker, NoJob, JobType
  <2>2. JobWellFormed'
      BY <1>4, <2>1 DEF LoseWorker, IInv, JobWellFormed
  <2>3. faults' \in 0 .. MaxFaults /\ again \subseteq again' /\ again' \subseteq Object
      BY <1>2, <1>4 DEF LoseWorker
  <2>4. \A o \in born \ again' : ~JobWillDelete(o)'
      BY <1>4, <2>1 DEF LoseWorker, JobWillDelete
  <2>5. QED
      BY <1>4, <2>1, <2>2, <2>3, <2>4, JobGivesUp DEF LoseWorker
<1>5. QED
    BY <1>3, <1>4

LEMMA JobMarksStep ==
    ASSUME IInv, NEW o \in Object, JobMarks(o)
    PROVE  IInv'
<1>1. /\ o # NoRow /\ o \in job.todo /\ job.kind = "delete" /\ job.state = "running"
      /\ o \in born /\ job.copies[o] \in Row /\ ~job.copies[o].deleted
      /\ job.count \in 0 .. MaxCounter
    BY NoneAssumption DEF JobMarks, IInv, JobWellFormed, TypeOK
<1>2. /\ row' \in [Object -> Copy]
      /\ counter' \in 0 .. MaxCounter
      /\ spoiled \subseteq spoiled' /\ spoiled' \subseteq Object
      /\ \A p \in Object \ {o} : row'[p] = row[p]
      /\ Exists(o)' <=> Exists(o)
      /\ o \notin spoiled' => row'[o] = row[o] \/ ~Marked(o)
      /\ CodeKept'
    BY <1>1, FakeDeleteEffect DEF JobMarks
<1>3. /\ job' \in JobType
      /\ job'.kind = job.kind /\ job'.state = job.state /\ job'.ids = job.ids
      /\ job'.todo = job.todo \ {o} /\ job'.copies = job.copies /\ job'.object = NoRow
  <2>1. job \in JobType /\ 0 \in 0 .. MaxCounter
      BY JobTypes, BoundsAssumption
  <2>2. job' = [job EXCEPT !.object = NoRow, !.todo = job.todo \ {o}, !.count = 0]
      BY DEF JobMarks
  <2>3. QED
      BY <2>1, <2>2 DEF JobType
<1>4. JobWellFormed'
    BY <1>3 DEF JobMarks, IInv, JobWellFormed
<1>5. /\ Open(o) = Open(o)' + 1
      /\ \A p \in born \ {o} : Open(p)' = Open(p)
    BY <1>1, <1>3 DEF JobMarks, Open, One, JobWillDelete
<1>6. Accounted'
    BY <1>1, <1>2, <1>5, OpenGoesDown DEF JobMarks
<1>7. TypeOK' /\ RequestWellFormed' /\ BornCovers' /\ \A p \in Object : asked'[p] <= requests'
    BY <1>1, <1>2, <1>3 DEF JobMarks, IInv, TypeOK, JobType, RequestWellFormed, BornCovers, Exists
<1>8. QED
    BY <1>2, <1>4, <1>6, <1>7 DEF IInv

LEMMA JobDeletesStep ==
    ASSUME IInv, NEW o \in Object, JobDeletes(o)
    PROVE  IInv'
<1>1. /\ o \in job.todo /\ o \in born /\ job.copies[o] \in Row /\ job.copies[o].deleted
    BY DEF JobDeletes, ForGood, IInv, JobWellFormed
<1>2. /\ row' \in [Object -> Copy]
      /\ counter' = counter
      /\ spoiled \subseteq spoiled' /\ spoiled' \subseteq Object
      /\ \A p \in Object \ {o} : row'[p] = row[p]
      /\ ~Exists(o)'
      /\ o \notin spoiled' => Marked(o)
      /\ CodeKept'
    BY <1>1, DeleteEffect DEF JobDeletes
<1>3. /\ job' \in JobType
      /\ job'.kind = job.kind /\ job'.state = job.state /\ job'.ids = job.ids
      /\ job'.todo = job.todo \ {o} /\ job'.copies = job.copies /\ job'.object = NoRow
    BY JobTypes DEF JobDeletes, JobType
<1>4. JobWellFormed'
    BY <1>3 DEF JobDeletes, IInv, JobWellFormed
<1>5. /\ Open(o) = Open(o)' + 1
      /\ \A p \in born \ {o} : Open(p)' = Open(p)
    BY <1>1, <1>3 DEF JobDeletes, Open, One, JobWillDelete
<1>6. Accounted'
    BY <1>1, <1>2, <1>5, OpenGoesDown DEF JobDeletes, Marked
<1>7. TypeOK' /\ RequestWellFormed' /\ BornCovers' /\ \A p \in Object : asked'[p] <= requests'
    BY <1>1, <1>2, <1>3 DEF JobDeletes, IInv, TypeOK, JobType, RequestWellFormed, BornCovers, Exists
<1>8. QED
    BY <1>2, <1>4, <1>6, <1>7 DEF IInv

LEMMA JobRestoresStep ==
    ASSUME IInv, NEW o \in Object, JobRestores(o)
    PROVE  IInv'
<1>1. CASE RestoreFails(o, job.copies[o])
  <2>1. job' = NoJob /\ UNCHANGED <<row, spoiled, asked, again>>
      BY <1>1 DEF JobRestores
  <2>2. JobWellFormed' /\ \A p \in born : ~JobWillDelete(p)'
      BY <2>1 DEF JobWellFormed, JobWillDelete, NoJob
  <2>3. QED
      BY <2>1, <2>2, JobTypes, JobGivesUp DEF JobRestores, IInv, TypeOK
<1>2. CASE ~RestoreFails(o, job.copies[o])
  <2>1. /\ o \in job.todo /\ job.kind = "restore" /\ Exists(o) /\ job.copies[o] \in Row
        /\ Restore(o, job.copies[o])
        /\ UNCHANGED <<born, counter, request, requests, faults>>
      BY <1>2 DEF JobRestores, RestoreFails, IInv, JobWellFormed
  <2>2. /\ row' \in [Object -> Copy]
        /\ spoiled \subseteq spoiled' /\ spoiled' \subseteq Object
        /\ \A p \in Object \ {o} : row'[p] = row[p]
        /\ Exists(o)' /\ ~Marked(o)'
        /\ CodeKept'
      BY <2>1, RestoreEffect
  <2>3. /\ job' \in JobType
        /\ job'.kind = "restore" /\ job'.state = job.state /\ job'.ids = job.ids
        /\ job'.todo = job.todo \ {o} /\ job'.copies = job.copies /\ job'.object = job.object
      BY <1>2, <2>1, JobTypes DEF JobRestores, JobType
  <2>4. JobWellFormed'
      BY <2>1, <2>3 DEF IInv, JobWellFormed
  <2>5. /\ asked' \in [Object -> 0 .. MaxRequests] /\ again' \subseteq Object
        /\ asked'[o] = One(request.object = o)
        /\ \A p \in Object : /\ p # o => asked'[p] = asked[p]
                             /\ asked'[p] <= requests
                             /\ request # NoRequest /\ request.object = p => asked'[p] > 0
      <3>1. request.object = o => asked[o] > 0
          BY NoneAssumption DEF IInv, RequestWellFormed, NoRequest
      <3>2. asked \in [Object -> 0 .. MaxRequests] /\ \A p \in Object : asked[p] <= requests
          BY DEF IInv, TypeOK
      <3>3. requests \in Nat /\ MaxRequests \in Nat
          BY BoundsAssumption DEF IInv, TypeOK
      <3>4. asked' = [asked EXCEPT ![o] = One(request.object = o)] /\ again' = again \ {o}
          BY <2>1 DEF Restore, One
      <3>5. One(request.object = o) \in 0 .. MaxRequests /\ One(request.object = o) <= requests
          BY <3>1, <3>2, <3>3 DEF One
      <3>6. QED
          BY <3>1, <3>2, <3>4, <3>5 DEF IInv, TypeOK, RequestWellFormed, One
  <2>6. TypeOK' /\ \A p \in Object : asked'[p] <= requests'
      BY <2>1, <2>2, <2>3, <2>5 DEF IInv, TypeOK, JobType
  <2>7. RequestWellFormed' /\ BornCovers'
      BY <2>1, <2>2, <2>5 DEF IInv, TypeOK, RequestWellFormed, BornCovers, Exists
  <2>8. Accounted'
    <3> SUFFICES ASSUME NEW p \in born, p \notin spoiled', p \notin again'
                 PROVE  asked'[p] >= IF ~Exists(p)' THEN 2 ELSE One(Marked(p)') + Open(p)'
        BY <2>1 DEF Accounted
    <3>1. Open(p)' = One(request.object = p) /\ Open(p) = One(request.object = p)
        BY <2>1, <2>3 DEF Open, One, JobWillDelete
    <3>2. CASE p = o
        BY <2>2, <2>5, <3>1, <3>2 DEF One
    <3>3. CASE p # o
      <4>1. p \in Object /\ p \notin again /\ p \notin spoiled
          BY <2>1, <2>2, <3>3 DEF IInv, TypeOK, Restore
      <4>2. QED
          BY <2>2, <2>5, <3>1, <3>3, <4>1 DEF IInv, Accounted, Exists, Marked, One
    <3>4. QED
        BY <3>2, <3>3
  <2>9. QED
      BY <2>2, <2>4, <2>6, <2>7, <2>8 DEF IInv
<1>3. QED
    BY <1>1, <1>2

-----------------------------------------------------------------------------
(* The theorems. *)

LEMMA StepInvariant == IInv /\ [Next]_vars => IInv'
<1> SUFFICES ASSUME IInv, [Next]_vars PROVE IInv'
    OBVIOUS
<1>1. ASSUME NEW o \in Object, Create(o) \/ Destroy(o) PROVE IInv'
    BY <1>1, CreateStep, DestroyStep
<1>2. CASE PerformDestroy
    BY <1>2, PerformDestroyStep
<1>3. ASSUME NEW ids \in SUBSET born, BulkDelete(ids) \/ BulkRestore(ids) PROVE IInv'
    BY <1>3, SendBulkStep
<1>4. CASE JobBegins
    BY <1>4, JobBeginsStep
<1>5. ASSUME NEW o \in Object, JobTakes(o) \/ JobMarks(o) \/ JobDeletes(o) \/ JobRestores(o)
      PROVE  IInv'
    BY <1>5, JobTakesStep, JobMarksStep, JobDeletesStep, JobRestoresStep
<1>6. CASE JobEnds \/ LoseWorker \/ KillChild
    BY <1>6, JobStopsStep
<1>7. CASE UNCHANGED vars
    BY <1>7 DEF vars, IInv, TypeOK, RequestWellFormed, JobWellFormed, BornCovers, CodeKept,
        Accounted, Exists, Marked, Open, JobWillDelete
<1>8. QED
    BY <1>1, <1>2, <1>3, <1>4, <1>5, <1>6, <1>7 DEF Next, JobStep

LEMMA InvariantImplies == IInv => TypeOK /\ CodeKept /\ GoneNeedsTwo
<1> SUFFICES ASSUME IInv, NEW o \in Object \ spoiled, Gone(o), o \notin again
             PROVE  asked[o] > 1
    BY DEF IInv, GoneNeedsTwo
<1>1. asked[o] >= 2
    BY DEF Gone, IInv, Accounted
<1>2. QED
    BY <1>1 DEF IInv, TypeOK

LEMMA AlwaysInvariant == Spec => []IInv
BY InitInvariant, StepInvariant, PTL DEF Spec

\* Every reachable state is well typed: no operation leaves an object without
\* a user code, for any number of objects, requests and lost workers.
THEOREM TypeCorrect == Spec => []TypeOK
BY AlwaysInvariant, InvariantImplies, PTL

\* The code of an object survives the bin (fake_delete and restore write whole
\* copies): it is the object's while it is live and in deleted_user_code while
\* it is marked, unless a copy was out of date or a live object was restored.
THEOREM CodeSurvivesTheBin == Spec => []CodeKept
BY AlwaysInvariant, InvariantImplies, PTL

\* One delete request, or one bulk_delete that is delivered once, never removes
\* an object for good, whatever is beside it.
THEOREM GoneForGoodNeedsTwo == Spec => []GoneNeedsTwo
BY AlwaysInvariant, InvariantImplies, PTL
=============================================================================
