------------------------ MODULE ScheduleChain_proofs ------------------------
(***************************************************************************)
(* Proofs about ScheduleChain: no step of a schedule is skipped, whatever  *)
(* the number of redeliveries and of workers that overwrite each other's   *)
(* count; and as long as nothing is redelivered, an instance has one       *)
(* message or one run, and its steps come one after another.               *)
(***************************************************************************)
EXTENDS ScheduleChain, FiniteSetTheorems, TLAPS

Exists(i) == instance[i] # NoRow

Number(i) == instance[i].current

\* schedules.process has not sent the first step yet.
Early(i) == starter[i] \in {"created", "pending"}

At(w, i, pc) == run[w].pc = pc /\ Of(w) = i

StoredRow == {row \in Row : row.current \in Order}

Typed ==
    /\ instance \in [Instance -> StoredRow \cup {NoRow}]
    /\ starter \in [Instance -> {"none", "created", "pending", "over"}]
    /\ queue \in [Message -> Nat]
    /\ run \in [Worker -> [pc : {"idle", "run", "next", "send", "end"},
                           message : Message \cup {NoMessage},
                           copy : Row \cup {NoRow}]]
    /\ started \in [Instance -> SUBSET Order]
    /\ failed \subseteq Instance

\* What a worker holds belongs to a started instance; errors come from failures.
WorkersWellFormed ==
    \A w \in Worker : run[w].pc # "idle" =>
        /\ run[w].message \in Message
        /\ starter[Of(w)] = "over"
        /\ run[w].pc \in {"next", "send"} =>
              /\ run[w].copy \in Row
              /\ run[w].copy.schedule = instance[Of(w)].schedule
              /\ run[w].copy.status = "E" => Of(w) \in failed
        /\ run[w].pc = "send" => run[w].copy.current \in Order

InstancesWellFormed ==
    /\ \A m \in Message : queue[m] > 0 => starter[m.instance] = "over"
    /\ \A i \in Instance :
          /\ Exists(i) <=> starter[i] # "none"
          /\ Early(i) => Number(i) = 0
          /\ Exists(i) /\ instance[i].status = "E" => i \in failed

\* Step k of i was sent or is just about to be.
Sent(i, k) ==
    \/ k \in started[i]
    \/ Early(i) /\ k = 0
    \/ \E w \in Worker : At(w, i, "send") /\ run[w].copy.current = k

\* The count of the table, and that of every copy, is one of sent steps.
CountedIsSent ==
    \A i \in Instance : Exists(i) /\ i \notin failed =>
        \A k \in Order : k <= Number(i) => Sent(i, k)

CopyIsSent ==
    \A w \in Worker : run[w].pc = "next" /\ Of(w) \notin failed =>
        \A k \in Order : k < run[w].copy.current => Sent(Of(w), k)

\* Someone will count the instance on from its present number.
Carries(w, i) ==
    \/ At(w, i, "run") /\ run[w].message.order = Number(i)
    \/ At(w, i, "next") /\ run[w].copy.current = Number(i) + 1
    \/ At(w, i, "send") /\ run[w].copy.current = Number(i)

WaitsFor(i) == \E m \in Message : queue[m] > 0 /\ m.instance = i /\ m.order = Number(i)

IsLast(i) == ~IsData(i, Number(i)) \/ Number(i) + 1 \notin Order

Carried ==
    \A i \in Instance : Exists(i) /\ i \notin failed =>
        Early(i) \/ IsLast(i) \/ WaitsFor(i) \/ \E w \in Worker : Carries(w, i)

IInv ==
    /\ Typed /\ WorkersWellFormed /\ InstancesWellFormed
    /\ CountedIsSent /\ CopyIsSent /\ Carried

-----------------------------------------------------------------------------
(* The operators that the actions share. *)

\* A sent message waits; the others wait as before.
LEMMA SendAdds ==
    ASSUME Typed, NEW kind \in {"step", "json", "import"}, NEW i \in Instance, NEW k \in Order,
           Send(kind, i, k)
    PROVE  /\ queue' \in [Message -> Nat]
           /\ \A m \in Message : queue[m] > 0 => queue'[m] > 0
           /\ \A m \in Message : queue'[m] > 0 => queue[m] > 0 \/ m.instance = i
           /\ \E m \in Message : queue'[m] > 0 /\ m.instance = i /\ m.order = k
<1> DEFINE sent == [kind |-> kind, instance |-> i, order |-> k]
<1>1. sent \in Message /\ sent.instance = i /\ sent.order = k
    BY DEF Message
<1> HIDE DEF sent
<1>2. queue' = [queue EXCEPT ![sent] = queue[sent] + 1] /\ queue \in [Message -> Nat]
    BY DEF Send, Typed, sent
<1>3. queue'[sent] = queue[sent] + 1 /\ \A m \in Message : m # sent => queue'[m] = queue[m]
    BY <1>1, <1>2
<1>4. QED
    BY <1>1, <1>2, <1>3

\* A worker that goes on keeps its message and its copy.
LEMMA GoesKeeps ==
    ASSUME Typed, NEW w \in Worker, NEW pc \in {"run", "next", "send", "end"}, Goes(w, pc)
    PROVE  /\ run' \in [Worker -> [pc : {"idle", "run", "next", "send", "end"},
                                    message : Message \cup {NoMessage},
                                    copy : Row \cup {NoRow}]]
           /\ run'[w].pc = pc
           /\ run'[w].message = run[w].message
           /\ run'[w].copy = run[w].copy
           /\ \A v \in Worker : v # w => run'[v] = run[v]
BY DEF Typed, Goes

LEMMA MessageFields ==
    /\ \A m \in Message : m.instance \in Instance /\ m.order \in Order
    /\ IInv => \A w \in Worker : run[w].pc # "idle" =>
          Of(w) \in Instance /\ run[w].message.order \in Order /\ Exists(Of(w))
<1>1. \A m \in Message : m.instance \in Instance /\ m.order \in Order
    BY DEF Message
<1>2. ASSUME IInv, NEW w \in Worker, run[w].pc # "idle"
      PROVE  Of(w) \in Instance /\ run[w].message.order \in Order /\ Exists(Of(w))
  <2>1. run[w].message \in Message /\ starter[Of(w)] = "over"
      BY <1>2 DEF IInv, WorkersWellFormed
  <2>2. Of(w) \in Instance /\ run[w].message.order \in Order
      BY <1>1, <2>1 DEF Of
  <2>3. Exists(Of(w))
      BY <1>2, <2>1, <2>2 DEF IInv, InstancesWellFormed
  <2>4. QED
      BY <2>2, <2>3
<1>3. QED
    BY <1>1, <1>2

LEMMA InitInvariant == Init => IInv
<1> SUFFICES ASSUME Init PROVE IInv
    OBVIOUS
<1> USE DEF Init
<1>1. Typed
    BY DEF Typed, Idle
<1>2. WorkersWellFormed /\ CopyIsSent
    BY DEF WorkersWellFormed, CopyIsSent, Idle
<1>3. InstancesWellFormed
    BY MessageFields DEF InstancesWellFormed, Exists, Early
<1>4. CountedIsSent /\ Carried
    BY DEF CountedIsSent, Carried, Exists
<1>5. QED
    BY <1>1, <1>2, <1>3, <1>4 DEF IInv

-----------------------------------------------------------------------------
(* Steps after which an instance counts as failed *)

\* Nothing is said of the failed instance, and nothing changes for the others.
LEMMA FailureStep ==
    ASSUME IInv, NEW i \in Instance, failed' = failed \cup {i},
           Typed', WorkersWellFormed', InstancesWellFormed', UNCHANGED <<queue, started>>,
           \A j \in Instance \ {i} : instance'[j] = instance[j] /\ starter'[j] = starter[j],
           \A w \in Worker : \/ run'[w] = run[w]
                             \/ /\ run[w].pc # "idle" => Of(w) = i
                                /\ run'[w].pc # "idle" => Of(w)' = i
    PROVE  IInv'
<1>1. \A j \in Instance \ {i}, w \in Worker :
         At(w, j, "run") \/ At(w, j, "next") \/ At(w, j, "send") => run'[w] = run[w]
    BY DEF At
<1>2. \A j \in Instance \ {i} : \A k \in Order : Sent(j, k) => Sent(j, k)'
    BY <1>1 DEF Sent, Early, At, Of
<1>3. CountedIsSent'
    BY <1>2 DEF IInv, CountedIsSent, Exists, Number
<1>4. CopyIsSent'
  <2>1. ASSUME NEW w \in Worker, (run[w].pc = "next")', Of(w)' \notin failed'
        PROVE  /\ run'[w] = run[w] /\ Of(w) \in Instance \ {i} /\ Of(w) \notin failed
               /\ Of(w)' = Of(w)
    <3>1. run'[w].pc = "next" /\ Of(w)' # i
        BY <2>1
    <3>2. run'[w] = run[w]
        BY <3>1
    <3>3. Of(w)' = Of(w) /\ run[w].pc # "idle"
        BY <3>1, <3>2 DEF Of
    <3>4. QED
        BY <2>1, <3>1, <3>2, <3>3, MessageFields
  <2>2. QED
      BY <1>2, <2>1 DEF IInv, CopyIsSent
<1>5. Carried'
  <2> SUFFICES ASSUME NEW j \in Instance, Exists(j)', j \notin failed'
               PROVE  Early(j)' \/ IsLast(j)' \/ WaitsFor(j)' \/ \E w \in Worker : Carries(w, j)'
      BY DEF Carried
  <2>1. j \in Instance \ {i} /\ Exists(j) /\ j \notin failed
      BY DEF Exists
  <2>2. CASE Early(j) \/ IsLast(j) \/ WaitsFor(j)
      BY <2>1, <2>2 DEF Early, IsLast, IsData, Number, WaitsFor
  <2>3. ASSUME NEW w \in Worker, Carries(w, j)
        PROVE  Carries(w, j)'
      BY <1>1, <2>1, <2>3 DEF Number, Carries, At, Of
  <2>4. QED
      BY <2>1, <2>2, <2>3 DEF IInv, Carried
<1>6. QED
    BY <1>3, <1>4, <1>5 DEF IInv

LEMMA ProcessFailsStep ==
    ASSUME IInv, NEW i \in Instance, ProcessSendFails(i) \/ ProcessLost(i)
    PROVE  IInv'
<1>1. /\ failed' = failed \cup {i} /\ UNCHANGED <<queue, run, started>>
      /\ starter[i] \in {"created", "pending"}
      /\ starter' = [starter EXCEPT ![i] = "over"]
      /\ \A j \in Instance \ {i} : instance'[j] = instance[j] /\ starter'[j] = starter[j]
    BY DEF ProcessSendFails, ProcessLost, FailureOf, IInv, Typed
<1>2. instance[i] \in StoredRow /\ instance[i] # NoRow
    BY <1>1 DEF IInv, Typed, InstancesWellFormed, Exists
<1>3. /\ instance' \in [Instance -> StoredRow \cup {NoRow}]
      /\ instance'[i] \in StoredRow /\ instance'[i].schedule = instance[i].schedule
    BY <1>2 DEF ProcessSendFails, ProcessLost, IInv, Typed, StoredRow, Row
<1>4. Typed'
    BY <1>1, <1>3 DEF IInv, Typed, StoredRow
<1>5. WorkersWellFormed'
  <2>1. ASSUME NEW w \in Worker, run[w].pc # "idle"
        PROVE  Of(w) \in Instance \ {i} /\ Of(w)' = Of(w)
      BY <1>1, <2>1, MessageFields DEF IInv, WorkersWellFormed, Of
  <2>2. QED
      BY <1>1, <2>1 DEF IInv, WorkersWellFormed
<1>6. InstancesWellFormed'
    BY <1>1, <1>3, NullAssumption DEF IInv, Typed, InstancesWellFormed, Exists, Early, Number, StoredRow
<1>7. QED
    BY <1>1, <1>4, <1>5, <1>6, FailureStep

LEMMA WorkerFailsStep ==
    ASSUME IInv, NEW w \in Worker, Fails(w) \/ LoseChild(w) \/ NextSendFails(w)
    PROVE  IInv'
<1> DEFINE i == run[w].message.instance
<1>1. run[w].pc # "idle" /\ i \in Instance /\ i = Of(w)
    BY MessageFields DEF Fails, LoseChild, NextSendFails, Of
<1> HIDE DEF i
<1>2. /\ failed' = failed \cup {i} /\ UNCHANGED <<queue, started, starter>>
      /\ \A j \in Instance \ {i} : instance'[j] = instance[j]
    BY <1>1 DEF Fails, LoseChild, NextSendFails, FailureOf, IInv, Typed
<1>3. /\ instance' \in [Instance -> StoredRow \cup {NoRow}]
      /\ instance[i] \in StoredRow /\ instance'[i] \in StoredRow
      /\ instance'[i].schedule = instance[i].schedule
  <2>1. instance[i] \in StoredRow
      BY <1>1, MessageFields DEF IInv, Typed, Exists
  <2>2. CASE UNCHANGED instance
      BY <2>1, <2>2 DEF IInv, Typed
  <2>3. CASE NextSendFails(w)
    <3> DEFINE row == [run[w].copy EXCEPT !.status = "E"]
    <3>1. row \in StoredRow /\ row.schedule = instance[i].schedule
        BY <1>1, <2>3 DEF IInv, WorkersWellFormed, NextSendFails, StoredRow, Row
    <3>2. instance' = [instance EXCEPT ![i] = row]
        BY <1>1, <2>3 DEF NextSendFails
    <3> HIDE DEF row
    <3>3. QED
        BY <1>1, <2>1, <3>1, <3>2 DEF IInv, Typed
  <2>4. QED
      BY <2>2, <2>3 DEF Fails, LoseChild
<1>4. /\ run' \in [Worker -> [pc : {"idle", "run", "next", "send", "end"},
                              message : Message \cup {NoMessage},
                              copy : Row \cup {NoRow}]]
      /\ \A v \in Worker : v # w => run'[v] = run[v]
      /\ run'[w] = Idle \/ (run'[w].pc = "end" /\ run'[w].message = run[w].message)
    BY GoesKeeps DEF Fails, LoseChild, NextSendFails, IInv, Typed, Idle
<1>5. Typed'
    BY <1>1, <1>2, <1>3, <1>4 DEF IInv, Typed, StoredRow
<1>6. WorkersWellFormed'
  <2>1. ASSUME NEW v \in Worker, v # w, run[v].pc # "idle"
        PROVE  /\ run'[v] = run[v] /\ Of(v)' = Of(v)
               /\ instance'[Of(v)].schedule = instance[Of(v)].schedule
      BY <1>2, <1>3, <1>4, <2>1, MessageFields DEF Of
  <2>2. run'[w].pc # "idle" => /\ run'[w].message \in Message /\ run'[w].pc = "end"
                               /\ starter'[Of(w)'] = "over"
      BY <1>1, <1>2, <1>4 DEF IInv, WorkersWellFormed, Idle, Of
  <2>3. QED
      BY <1>2, <1>4, <2>1, <2>2 DEF IInv, WorkersWellFormed
<1>7. InstancesWellFormed'
    BY <1>1, <1>2, <1>3, NullAssumption, MessageFields
    DEF IInv, Typed, InstancesWellFormed, WorkersWellFormed, Exists, Early, Number, StoredRow
<1>8. \A v \in Worker : \/ run'[v] = run[v]
                        \/ /\ run[v].pc # "idle" => Of(v) = i
                           /\ run'[v].pc # "idle" => Of(v)' = i
    BY <1>1, <1>4 DEF Idle, Of
<1>9. QED
    BY <1>1, <1>2, <1>5, <1>6, <1>7, <1>8, FailureStep

-----------------------------------------------------------------------------
(* schedules.process *)

LEMMA ProcessCreateStep ==
    ASSUME IInv, NEW i \in Instance, NEW s \in Schedule, ProcessCreate(i, s)
    PROVE  IInv'
<1> DEFINE row == [schedule |-> s, status |-> "I", current |-> 0]
<1> USE DEF ProcessCreate
<1>1. row \in StoredRow /\ row # NoRow /\ row.current = 0 /\ row.status = "I"
    BY StepsAssumption, NullAssumption DEF StoredRow, Row, Order
<1>2. instance' = [instance EXCEPT ![i] = row]
    OBVIOUS
<1> HIDE DEF row
<1>3. Typed'
    BY <1>1, <1>2 DEF IInv, Typed, StoredRow
<1>4. /\ ~Exists(i) /\ Exists(i)' /\ Early(i)' /\ Number(i)' = 0
      /\ \A j \in Instance \ {i} : instance'[j] = instance[j] /\ starter'[j] = starter[j]
    BY <1>1, <1>2 DEF IInv, Typed, InstancesWellFormed, Exists, Early, Number
<1>5. \A w \in Worker : run[w].pc # "idle" => Of(w) \in Instance \ {i} /\ Of(w)' = Of(w)
    BY <1>4, MessageFields DEF Of
<1>6. WorkersWellFormed'
    BY <1>4, <1>5 DEF IInv, WorkersWellFormed
<1>7. InstancesWellFormed'
    BY <1>1, <1>2, <1>4, MessageFields
    DEF IInv, Typed, InstancesWellFormed, Exists, Early, Number
<1>8. \A j \in Instance \ {i} : \A k \in Order : Sent(j, k) => Sent(j, k)'
    BY <1>4 DEF Sent, Early, At, Of
<1>9. CountedIsSent'
  <2>1. \A k \in Order : k <= 0 => k = 0
      BY DEF Order
  <2>2. \A k \in Order : k <= Number(i)' => Sent(i, k)'
      BY <1>4, <2>1 DEF Sent
  <2>3. QED
      BY <1>4, <1>8, <2>2 DEF IInv, CountedIsSent, Exists, Number
<1>10. CopyIsSent'
    BY <1>5, <1>8 DEF IInv, CopyIsSent
<1>11. Carried'
  <2> SUFFICES ASSUME NEW j \in Instance \ {i}, Exists(j)', j \notin failed'
               PROVE  Early(j)' \/ IsLast(j)' \/ WaitsFor(j)' \/ \E w \in Worker : Carries(w, j)'
      BY <1>4 DEF Carried
  <2>1. Early(j) \/ IsLast(j) \/ WaitsFor(j) \/ \E w \in Worker : Carries(w, j)
      BY <1>4 DEF IInv, Carried, Exists
  <2>2. QED
      BY <1>4, <2>1 DEF Early, IsLast, IsData, Number, WaitsFor, Carries, At, Of
<1>12. QED
    BY <1>3, <1>6, <1>7, <1>9, <1>10, <1>11 DEF IInv

LEMMA ProcessPendingStep ==
    ASSUME IInv, NEW i \in Instance, ProcessPending(i)
    PROVE  IInv'
<1> USE DEF ProcessPending
<1>1. /\ instance[i] \in StoredRow
      /\ instance' = [instance EXCEPT ![i] = [instance[i] EXCEPT !.status = "P"]]
    BY DEF IInv, Typed, InstancesWellFormed, Exists
<1>2. /\ instance'[i] \in StoredRow /\ instance'[i] # NoRow
      /\ instance'[i].schedule = instance[i].schedule
      /\ instance'[i].current = instance[i].current
      /\ instance'[i].status = "P"
    BY <1>1, NullAssumption DEF StoredRow, Row, IInv, Typed
<1>3. /\ \A j \in Instance \ {i} : instance'[j] = instance[j]
      /\ \A j \in Instance : /\ instance'[j].schedule = instance[j].schedule
                             /\ Number(j)' = Number(j)
                             /\ Exists(j)' <=> Exists(j)
                             /\ Early(j)' <=> Early(j)
                             /\ starter[j] = "over" <=> starter'[j] = "over"
    BY <1>1, <1>2, NullAssumption DEF IInv, Typed, Number, Exists, Early, StoredRow
<1>4. Typed'
    BY <1>1, <1>2 DEF IInv, Typed, StoredRow
<1>5. WorkersWellFormed'
    BY <1>3, MessageFields DEF IInv, WorkersWellFormed, Of
<1>6. InstancesWellFormed'
    BY <1>2, <1>3, MessageFields DEF IInv, InstancesWellFormed, Exists, Early, Typed, Number
<1>7. \A j \in Instance : \A k \in Order : Sent(j, k)' <=> Sent(j, k)
    BY <1>3 DEF Sent, At, Of
<1>8. CountedIsSent' /\ CopyIsSent'
    BY <1>3, <1>7, MessageFields DEF IInv, CountedIsSent, CopyIsSent, Of
<1>9. Carried'
    BY <1>3 DEF IInv, Carried, IsLast, IsData, WaitsFor, Carries, At, Of
<1>10. QED
    BY <1>4, <1>5, <1>6, <1>8, <1>9 DEF IInv

LEMMA ProcessSendStep ==
    ASSUME IInv, NEW i \in Instance, ProcessSend(i)
    PROVE  IInv'
<1> USE DEF ProcessSend
<1>1. /\ 0 \in Order /\ Send("step", i, 0)
      /\ started' = [started EXCEPT ![i] = started[i] \cup {0}]
      /\ UNCHANGED <<instance, run, failed>>
    BY StepsAssumption DEF Order, StartStep
<1>2. /\ queue' \in [Message -> Nat]
      /\ \A m \in Message : queue[m] > 0 => queue'[m] > 0
      /\ \A m \in Message : queue'[m] > 0 => queue[m] > 0 \/ m.instance = i
      /\ \E m \in Message : queue'[m] > 0 /\ m.instance = i /\ m.order = 0
    BY <1>1, SendAdds DEF IInv
<1>3. /\ Early(i) /\ Number(i) = 0
      /\ starter'[i] = "over"
      /\ \A j \in Instance \ {i} : starter'[j] = starter[j] /\ started'[j] = started[j]
      /\ \A j \in Instance : started[j] \subseteq started'[j]
      /\ 0 \in started'[i]
    BY <1>1 DEF IInv, Typed, InstancesWellFormed, Early
<1>4. Typed'
    BY <1>1, <1>2 DEF IInv, Typed
<1>5. WorkersWellFormed'
    BY <1>1, <1>3, MessageFields DEF IInv, WorkersWellFormed, Of
<1>6. InstancesWellFormed'
    BY <1>1, <1>2, <1>3, MessageFields DEF IInv, InstancesWellFormed, Exists, Early, Number
<1>7. \A j \in Instance : \A k \in Order : Sent(j, k) => Sent(j, k)'
    BY <1>1, <1>3 DEF Sent, Early, At, Of
<1>8. CountedIsSent' /\ CopyIsSent'
    BY <1>1, <1>7, MessageFields DEF IInv, CountedIsSent, CopyIsSent, Exists, Number, Of
<1>9. Carried'
  <2> SUFFICES ASSUME NEW j \in Instance, Exists(j)', j \notin failed'
               PROVE  Early(j)' \/ IsLast(j)' \/ WaitsFor(j)' \/ \E w \in Worker : Carries(w, j)'
      BY DEF Carried
  <2>1. CASE j = i
      BY <1>1, <1>2, <1>3, <2>1 DEF WaitsFor, Number
  <2>2. CASE j # i
    <3>1. Early(j) \/ IsLast(j) \/ WaitsFor(j) \/ \E w \in Worker : Carries(w, j)
        BY <1>1 DEF IInv, Carried, Exists
    <3>2. QED
        BY <1>1, <1>2, <1>3, <2>2, <3>1 DEF Early, IsLast, IsData, Number, WaitsFor, Carries, At, Of
  <2>3. QED
      BY <2>1, <2>2
<1>10. QED
    BY <1>4, <1>5, <1>6, <1>8, <1>9 DEF IInv

-----------------------------------------------------------------------------
(* Steps of a worker that leave the instances alone *)

\* Such a step keeps the invariant if it takes no message and no worker's part
\* in the instance away without giving another.
LEMMA WorkerStep ==
    ASSUME IInv, NEW w \in Worker,
           UNCHANGED <<instance, starter, started, failed>>,
           Typed',
           \A v \in Worker : v # w => run'[v] = run[v],
           run[w].pc # "send" \/ run'[w] = run[w],
           run'[w].pc # "idle" => run'[w].message \in Message /\ starter[Of(w)'] = "over",
           run'[w] = run[w] \/ run'[w].pc \in {"idle", "run", "end"},
           \A m \in Message : queue'[m] > 0 => starter[m.instance] = "over",
           \A i \in Instance \ failed : \/ IsLast(i) \/ WaitsFor(i)' \/ Carries(w, i)'
                                       \/ ~(WaitsFor(i) \/ Carries(w, i))
    PROVE  IInv'
<1>1. ASSUME NEW v \in Worker, run'[v].pc \in {"next", "send"}
      PROVE  run'[v] = run[v]
    BY <1>1
<1>2. ASSUME NEW v \in Worker, run[v].pc = "send"
      PROVE  run'[v] = run[v]
    BY <1>2
<1>3. WorkersWellFormed'
  <2> SUFFICES ASSUME NEW v \in Worker, run'[v].pc # "idle"
               PROVE  /\ run'[v].message \in Message
                      /\ starter'[Of(v)'] = "over"
                      /\ run'[v].pc \in {"next", "send"} =>
                            /\ run'[v].copy \in Row
                            /\ run'[v].copy.schedule = instance'[Of(v)'].schedule
                            /\ run'[v].copy.status = "E" => Of(v)' \in failed'
                      /\ run'[v].pc = "send" => run'[v].copy.current \in Order
      BY DEF WorkersWellFormed
  <2>1. CASE run'[v] = run[v]
      BY <2>1 DEF IInv, WorkersWellFormed, Of
  <2>2. CASE run'[v] # run[v]
      BY <1>1, <2>2
  <2>3. QED
      BY <2>1, <2>2
<1>4. InstancesWellFormed'
    BY DEF IInv, InstancesWellFormed, Exists, Early, Number
<1>5. \A i \in Instance : \A k \in Order : Sent(i, k) => Sent(i, k)'
    BY <1>2 DEF Sent, Early, At, Of
<1>6. CountedIsSent'
    BY <1>5 DEF IInv, CountedIsSent, Exists, Number
<1>7. CopyIsSent'
  <2>1. ASSUME NEW v \in Worker, run'[v].pc = "next"
        PROVE  run'[v] = run[v] /\ Of(v)' = Of(v) /\ Of(v) \in Instance
      BY <1>1, <2>1, MessageFields DEF Of
  <2>2. QED
      BY <1>5, <2>1 DEF IInv, CopyIsSent
<1>8. Carried'
  <2> SUFFICES ASSUME NEW i \in Instance, Exists(i)', i \notin failed'
               PROVE  Early(i)' \/ IsLast(i)' \/ WaitsFor(i)' \/ \E v \in Worker : Carries(v, i)'
      BY DEF Carried
  <2>1. Early(i) \/ IsLast(i) \/ WaitsFor(i) \/ \E v \in Worker : Carries(v, i)
      BY DEF IInv, Carried, Exists
  <2>2. CASE Early(i) \/ IsLast(i)
      BY <2>2 DEF Early, IsLast, IsData, Number
  <2>3. ASSUME NEW v \in Worker, v # w, Carries(v, i)
        PROVE  Carries(v, i)'
      BY <2>3 DEF Carries, At, Of, Number
  <2>4. QED
      BY <2>1, <2>2, <2>3
<1>9. QED
    BY <1>3, <1>4, <1>6, <1>7, <1>8 DEF IInv

LEMMA TakeStep ==
    ASSUME IInv, NEW w \in Worker, Take(w)
    PROVE  IInv'
<1>1. PICK m \in Message :
         /\ queue[m] > 0
         /\ queue' = [queue EXCEPT ![m] = queue[m] - 1]
         /\ run' = [run EXCEPT ![w] = [pc |-> "run", message |-> m, copy |-> NoRow]]
    BY DEF Take
<1>2. run[w].pc = "idle" /\ UNCHANGED <<instance, starter, started, failed>>
    BY DEF Take, Idle
<1>3. /\ queue' \in [Message -> Nat]
      /\ \A n \in Message : n # m => queue'[n] = queue[n]
      /\ \A n \in Message : queue'[n] > 0 => queue[n] > 0
    BY <1>1 DEF IInv, Typed
<1>4. run'[w] = [pc |-> "run", message |-> m, copy |-> NoRow]
    BY <1>1 DEF IInv, Typed
<1>5. Typed'
    BY <1>1, <1>2, <1>3 DEF IInv, Typed
<1>6. starter[m.instance] = "over" /\ Of(w)' = m.instance
    BY <1>1, <1>4 DEF IInv, InstancesWellFormed, Of
<1>7. ASSUME NEW i \in Instance, WaitsFor(i) \/ Carries(w, i)
      PROVE  WaitsFor(i)' \/ Carries(w, i)'
  <2>1. PICK n \in Message : queue[n] > 0 /\ n.instance = i /\ n.order = Number(i)
      BY <1>2, <1>7 DEF WaitsFor, Carries, At
  <2>2. CASE n = m
      BY <1>2, <1>4, <1>6, <2>1, <2>2 DEF Carries, At, Number
  <2>3. CASE n # m
      BY <1>2, <1>3, <2>1, <2>3 DEF WaitsFor, Number
  <2>4. QED
      BY <2>2, <2>3
<1>8. \A v \in Worker : v # w => run'[v] = run[v]
    BY <1>1 DEF IInv, Typed
<1>9. \A n \in Message : queue'[n] > 0 => starter[n.instance] = "over"
    BY <1>3 DEF IInv, InstancesWellFormed
<1>10. QED
    BY <1>2, <1>4, <1>5, <1>6, <1>7, <1>8, <1>9, WorkerStep

LEMMA AcknowledgeStep ==
    ASSUME IInv, NEW w \in Worker, Acknowledge(w)
    PROVE  IInv'
<1>1. /\ run[w].pc = "end" /\ run'[w] = Idle
      /\ \A v \in Worker : v # w => run'[v] = run[v]
      /\ UNCHANGED <<instance, starter, started, failed, queue>>
    BY DEF Acknowledge, IInv, Typed
<1>2. Typed'
    BY DEF Acknowledge, IInv, Typed, Idle
<1>3. \A i \in Instance : /\ WaitsFor(i) => WaitsFor(i)'
                          /\ ~Carries(w, i)
    BY <1>1 DEF WaitsFor, Carries, At, Number
<1>4. \A m \in Message : queue'[m] > 0 => starter[m.instance] = "over"
    BY <1>1 DEF IInv, InstancesWellFormed
<1>5. run'[w].pc = "idle"
    BY <1>1 DEF Idle
<1>6. QED
    BY <1>1, <1>2, <1>3, <1>4, <1>5, WorkerStep

LEMMA RedeliverStep ==
    ASSUME IInv, NEW w \in Worker, Redeliver(w)
    PROVE  IInv'
<1>1. /\ run[w].message \in Message /\ starter[Of(w)] = "over"
      /\ run[w].message.kind \in {"step", "json", "import"}
      /\ Of(w) \in Instance /\ run[w].message.order \in Order
    BY MessageFields DEF Redeliver, IInv, WorkersWellFormed, Message
<1>2. /\ Send(run[w].message.kind, Of(w), run[w].message.order)
      /\ UNCHANGED <<instance, starter, started, failed, run>>
    BY DEF Redeliver
<1>3. /\ queue' \in [Message -> Nat]
      /\ \A m \in Message : queue[m] > 0 => queue'[m] > 0
      /\ \A m \in Message : queue'[m] > 0 => queue[m] > 0 \/ m.instance = Of(w)
    BY <1>1, <1>2, SendAdds DEF IInv
<1>4. Typed'
    BY <1>2, <1>3 DEF IInv, Typed
<1>5. \A m \in Message : queue'[m] > 0 => starter[m.instance] = "over"
    BY <1>1, <1>3 DEF IInv, InstancesWellFormed
<1>6. \A i \in Instance : /\ WaitsFor(i) => WaitsFor(i)'
                          /\ Carries(w, i) => Carries(w, i)'
    BY <1>2, <1>3 DEF WaitsFor, Carries, At, Of, Number
<1>7. Of(w)' = Of(w)
    BY <1>2 DEF Of
<1>8. QED
    BY <1>1, <1>2, <1>4, <1>5, <1>6, <1>7, WorkerStep

\* The task ends; a data step and its json task hand their order on.
LEMMA TaskEndsStep ==
    ASSUME IInv, NEW w \in Worker,
           DataStep(w) \/ OtherStep(w) \/ ByProcedureJson(w) \/ NoNext(w)
    PROVE  IInv'
<1> DEFINE i == run[w].message.instance
           k == run[w].message.order
<1>1. /\ run[w].pc \in {"run", "next"} /\ Goes(w, "end")
      /\ UNCHANGED <<instance, starter, started, failed>>
    BY DEF DataStep, OtherStep, ByProcedureJson, NoNext, Works
<1>2. /\ run[w].message \in Message /\ starter[i] = "over"
      /\ i \in Instance /\ k \in Order /\ i = Of(w)
    BY <1>1, MessageFields DEF IInv, WorkersWellFormed, Of
<1> HIDE DEF i, k
<1>3. /\ queue' \in [Message -> Nat]
      /\ \A m \in Message : queue[m] > 0 => queue'[m] > 0
      /\ \A m \in Message : queue'[m] > 0 => queue[m] > 0 \/ m.instance = i
      /\ DataStep(w) \/ ByProcedureJson(w) =>
            \E m \in Message : queue'[m] > 0 /\ m.instance = i /\ m.order = k
  <2>1. CASE DataStep(w) \/ ByProcedureJson(w)
    <3>1. Send("json", i, k) \/ Send("import", i, k)
        BY <1>2, <2>1 DEF DataStep, ByProcedureJson, k
    <3>2. QED
        BY <1>2, <3>1, SendAdds DEF IInv
  <2>2. CASE UNCHANGED queue /\ ~(DataStep(w) \/ ByProcedureJson(w))
      BY <2>2 DEF IInv, Typed
  <2>3. QED
      BY <2>1, <2>2 DEF OtherStep, NoNext
<1>4. /\ run'[w].pc = "end" /\ run'[w].message = run[w].message
      /\ \A v \in Worker : v # w => run'[v] = run[v]
    BY <1>1, GoesKeeps DEF IInv
<1>5. Typed'
    BY <1>1, <1>3, GoesKeeps DEF IInv, Typed
<1>6. \A m \in Message : queue'[m] > 0 => starter[m.instance] = "over"
    BY <1>2, <1>3 DEF IInv, InstancesWellFormed
<1>7. \A j \in Instance : WaitsFor(j) => WaitsFor(j)'
    BY <1>1, <1>3 DEF WaitsFor, Number
<1>8. ASSUME NEW j \in Instance \ failed, Carries(w, j)
      PROVE  IsLast(j) \/ WaitsFor(j)'
  <2>1. i = j
      BY <1>2, <1>8 DEF Carries, At
  <2>2. CASE DataStep(w) \/ ByProcedureJson(w)
    <3>1. k = Number(j)
        BY <1>2, <1>8, <2>1, <2>2 DEF Carries, At, DataStep, ByProcedureJson, Works, k
    <3>2. PICK m \in Message : queue'[m] > 0 /\ m.instance = j /\ m.order = Number(j)
        BY <1>3, <2>1, <2>2, <3>1
    <3>3. Number(j)' = Number(j)
        BY <1>1 DEF Number
    <3>4. QED
        BY <3>2, <3>3 DEF WaitsFor
  <2>3. CASE OtherStep(w)
    <3>1. k = Number(i) /\ ~IsData(i, k)
        BY <1>2, <1>8, <2>1, <2>3 DEF Carries, At, OtherStep, Works, k
    <3>2. QED
        BY <2>1, <3>1 DEF IsLast
  <2>4. CASE NoNext(w)
    <3>1. run[w].copy.current = Number(i) + 1 /\ run[w].copy.status # "E"
        BY <1>2, <1>8, <2>1, <2>4 DEF Carries, At, NoNext, IInv, WorkersWellFormed
    <3>2. QED
        BY <2>1, <2>4, <3>1 DEF NoNext, GoesOn, HasProcedure, IsLast
  <2>5. QED
      BY <2>2, <2>3, <2>4
<1>9. starter[Of(w)'] = "over"
    BY <1>2, <1>4 DEF Of, i
<1>10. QED
    BY <1>1, <1>2, <1>4, <1>5, <1>6, <1>7, <1>8, <1>9, WorkerStep


-----------------------------------------------------------------------------
(* run_next_procedure *)

LEMMA ImportEndsStep ==
    ASSUME IInv, NEW w \in Worker, ImportEnds(w)
    PROVE  IInv'
<1>1. PICK j \in Instance : j = Of(w)
    BY MessageFields DEF ImportEnds, Works
<1>2. /\ run[w].pc = "run" /\ run[w].message \in Message
      /\ starter[j] = "over" /\ instance[j] \in StoredRow
      /\ UNCHANGED <<instance, starter, queue, started, failed>>
    BY <1>1, MessageFields DEF ImportEnds, Works, IInv, WorkersWellFormed, Typed, Exists
<1>3. PICK c \in Row : c = [instance[j] EXCEPT !.current = instance[j].current + 1]
  <2> DEFINE new == [instance[j] EXCEPT !.current = instance[j].current + 1]
  <2>1. /\ instance[j].current + 1 \in 0 .. Steps
        /\ instance[j] \in [schedule : Schedule, status : {"I", "P", "E"}, current : 0 .. Steps]
      BY <1>2, StepsAssumption DEF StoredRow, Row, Order
  <2>2. new \in Row
      BY <2>1 DEF Row
  <2>3. QED
      BY <2>2
<1>4. c.schedule = instance[j].schedule /\ c.status = instance[j].status /\ c.current = Number(j) + 1
    BY <1>2, <1>3 DEF StoredRow, Row, Number
<1>5. run' = [run EXCEPT ![w].pc = "next", ![w].copy = c]
  <2>1. c = [instance[j] EXCEPT !.current = @ + 1]
      BY <1>3
  <2>2. QED
      BY <1>1, <2>1 DEF ImportEnds
<1>6. /\ run'[w].pc = "next" /\ run'[w].message = run[w].message /\ run'[w].copy = c
      /\ \A v \in Worker : v # w => run'[v] = run[v]
      /\ Of(w)' = j
    BY <1>1, <1>5 DEF IInv, Typed, Of
<1>7. Typed'
  <2>1. Typed
      BY DEF IInv
  <2>2. run' \in [Worker -> [pc : {"idle", "run", "next", "send", "end"},
                            message : Message \cup {NoMessage},
                            copy : Row \cup {NoRow}]]
    <3>1. PICK new : new = [run[w] EXCEPT !.pc = "next", !.copy = c]
        OBVIOUS
    <3>2. new \in [pc : {"idle", "run", "next", "send", "end"},
                   message : Message \cup {NoMessage}, copy : Row \cup {NoRow}]
        BY <1>3, <2>1, <3>1 DEF Typed
    <3>3. run' = [run EXCEPT ![w] = new]
        BY <1>5, <3>1
    <3>4. QED
        BY <2>1, <3>2, <3>3 DEF Typed
  <2>3. QED
      BY <1>2, <2>1, <2>2 DEF Typed
<1>8. WorkersWellFormed'
  <2>1. UNCHANGED <<instance, starter, failed>>
      BY <1>1 DEF ImportEnds
  <2>2. ASSUME NEW v \in Worker, v # w, run'[v].pc # "idle"
        PROVE  /\ run'[v].message \in Message /\ starter'[Of(v)'] = "over"
               /\ run'[v].pc \in {"next", "send"} =>
                     /\ run'[v].copy \in Row
                     /\ run'[v].copy.schedule = instance'[Of(v)'].schedule
                     /\ run'[v].copy.status = "E" => Of(v)' \in failed'
               /\ run'[v].pc = "send" => run'[v].copy.current \in Order
      BY <1>6, <2>1, <2>2 DEF IInv, WorkersWellFormed, Of
  <2>3. /\ run'[w].message \in Message /\ starter'[j] = "over"
        /\ c.status = "E" => j \in failed'
      BY <1>1, <1>2, <1>4, <1>6, <2>1 DEF IInv, WorkersWellFormed, InstancesWellFormed, Exists
  <2>4. QED
      BY <1>3, <1>4, <1>6, <2>1, <2>2, <2>3 DEF WorkersWellFormed
<1>9. InstancesWellFormed'
    BY <1>2 DEF IInv, InstancesWellFormed, Exists, Early, Number
<1>10. \A i \in Instance : \A k \in Order : Sent(i, k) => Sent(i, k)'
    BY <1>2, <1>6 DEF Sent, Early, At, Of
<1>11. CountedIsSent'
    BY <1>2, <1>10 DEF IInv, CountedIsSent, Exists, Number
<1>12. CopyIsSent'
  <2> SUFFICES ASSUME NEW v \in Worker, run'[v].pc = "next", Of(v)' \notin failed,
                      NEW k \in Order, k < run'[v].copy.current
               PROVE  Sent(Of(v), k)'
      BY <1>2 DEF CopyIsSent
  <2>1. CASE v = w
    <3>1. Number(j) \in Order /\ Exists(j)
        BY <1>2, NullAssumption DEF StoredRow, Number, Exists
    <3>2. k <= Number(j)
        BY <1>4, <1>6, <2>1, <3>1 DEF Order
    <3>3. Sent(j, k)
        BY <1>6, <2>1, <3>1, <3>2 DEF IInv, CountedIsSent
    <3>4. Sent(j, k)'
        BY <1>10, <3>3
    <3>5. QED
        BY <1>6, <2>1, <3>4 DEF Sent, At, Early
  <2>2. CASE v # w
    <3>1. PICK i \in Instance : i = Of(v) /\ i = Of(v)'
        BY <1>6, <2>2, MessageFields DEF Of
    <3>2. Sent(i, k)'
        BY <1>6, <1>10, <2>2, <3>1 DEF IInv, CopyIsSent
    <3>3. QED
        BY <3>1, <3>2 DEF Sent, At, Early
  <2>3. QED
      BY <2>1, <2>2
<1>13. Carried'
  <2> SUFFICES ASSUME NEW i \in Instance, Exists(i)', i \notin failed'
               PROVE  Early(i)' \/ IsLast(i)' \/ WaitsFor(i)' \/ \E v \in Worker : Carries(v, i)'
      BY DEF Carried
  <2>1. Early(i) \/ IsLast(i) \/ WaitsFor(i) \/ \E v \in Worker : Carries(v, i)
      BY <1>2 DEF IInv, Carried, Exists
  <2>2. CASE Early(i) \/ IsLast(i) \/ WaitsFor(i)
      BY <1>2, <2>2 DEF Early, IsLast, IsData, Number, WaitsFor
  <2>3. ASSUME NEW v \in Worker, v # w, Carries(v, i)
        PROVE  Carries(v, i)'
      BY <1>2, <1>6, <2>3 DEF Carries, At, Of, Number
  <2>4. CASE Carries(w, i)
      BY <1>1, <1>2, <1>4, <1>6, <2>4 DEF Carries, At, Number
  <2>5. QED
      BY <2>1, <2>2, <2>3, <2>4
<1>14. QED
    BY <1>7, <1>8, <1>9, <1>11, <1>12, <1>13 DEF IInv

LEMMA NextSaveStep ==
    ASSUME IInv, NEW w \in Worker, NextSave(w)
    PROVE  IInv'
<1>1. PICK j \in Instance : j = Of(w)
    BY MessageFields DEF NextSave
<1>2. /\ run[w].pc = "next" /\ run[w].message \in Message
      /\ starter[j] = "over" /\ Exists(j)
      /\ UNCHANGED <<starter, queue, started, failed>>
    BY <1>1, MessageFields DEF NextSave, IInv, WorkersWellFormed
<1>3. PICK c \in StoredRow : /\ c = run[w].copy
                             /\ c.schedule = instance[j].schedule
                             /\ c.status = "E" => j \in failed
    BY <1>1, <1>2 DEF NextSave, GoesOn, HasProcedure, StoredRow, IInv, WorkersWellFormed
<1>4. /\ instance'[j] = c
      /\ instance' \in [Instance -> StoredRow \cup {NoRow}]
      /\ \A i \in Instance \ {j} : instance'[i] = instance[i]
      /\ \A i \in Instance : instance'[i].schedule = instance[i].schedule
    BY <1>1, <1>3 DEF NextSave, IInv, Typed
<1>5. /\ run'[w].pc = "send" /\ run'[w].message = run[w].message /\ run'[w].copy = c
      /\ \A v \in Worker : v # w => run'[v] = run[v]
    BY <1>3, GoesKeeps DEF NextSave, IInv
<1>6. Of(w)' = j /\ At(w, j, "send")'
    BY <1>1, <1>5 DEF Of, At
<1>7. Typed'
    BY <1>2, <1>4, GoesKeeps DEF NextSave, IInv, Typed, StoredRow
<1>8. WorkersWellFormed'
  <2>1. ASSUME NEW v \in Worker, v # w, run'[v].pc # "idle"
        PROVE  run'[v] = run[v] /\ Of(v)' = Of(v) /\ Of(v) \in Instance
      BY <1>5, <2>1, MessageFields DEF Of
  <2>2. QED
      BY <1>2, <1>3, <1>4, <1>5, <1>6, <2>1 DEF IInv, WorkersWellFormed, StoredRow
<1>9. InstancesWellFormed'
    BY <1>2, <1>3, <1>4, NullAssumption
    DEF IInv, InstancesWellFormed, Exists, Early, Number, StoredRow
<1>10. \A i \in Instance : \A k \in Order : Sent(i, k) => Sent(i, k)'
    BY <1>2, <1>5 DEF Sent, Early, At, Of
<1>11. CountedIsSent'
  <2>1. ASSUME NEW k \in Order, k <= c.current, j \notin failed
        PROVE  Sent(j, k)'
    <3>1. CASE k = c.current
        BY <1>5, <1>6, <3>1 DEF Sent
    <3>2. CASE k < c.current
        BY <1>1, <1>2, <1>3, <1>10, <2>1, <3>2 DEF IInv, CopyIsSent
    <3>3. QED
        BY <2>1, <3>1, <3>2 DEF StoredRow, Order
  <2>2. ASSUME NEW i \in Instance, i # j
        PROVE  (Exists(i)' <=> Exists(i)) /\ Number(i)' = Number(i)
      BY <1>4, <2>2 DEF Exists, Number
  <2>3. Number(j)' = c.current
      BY <1>4 DEF Number
  <2>4. QED
      BY <1>2, <1>10, <2>1, <2>2, <2>3 DEF IInv, CountedIsSent
<1>12. CopyIsSent'
  <2>1. ASSUME NEW v \in Worker, run'[v].pc = "next"
        PROVE  run'[v] = run[v] /\ Of(v)' = Of(v) /\ Of(v) \in Instance
      BY <1>5, <2>1, MessageFields DEF Of
  <2>2. QED
      BY <1>2, <1>10, <2>1 DEF IInv, CopyIsSent
<1>13. Carried'
  <2> SUFFICES ASSUME NEW i \in Instance, Exists(i)', i \notin failed'
               PROVE  Early(i)' \/ IsLast(i)' \/ WaitsFor(i)' \/ \E v \in Worker : Carries(v, i)'
      BY DEF Carried
  <2>1. CASE i = j
      BY <1>4, <1>5, <1>6, <2>1 DEF Carries, Number
  <2>2. CASE i # j
    <3>1. Early(i) \/ IsLast(i) \/ WaitsFor(i) \/ \E v \in Worker : Carries(v, i)
        BY <1>2, <1>4, <2>2 DEF IInv, Carried, Exists
    <3>2. ASSUME NEW v \in Worker, Carries(v, i)
          PROVE  Carries(v, i)'
        BY <1>1, <1>4, <1>5, <2>2, <3>2 DEF Carries, At, Of, Number
    <3>3. QED
        BY <1>2, <1>4, <2>2, <3>1, <3>2 DEF Early, IsLast, IsData, Number, WaitsFor
  <2>3. QED
      BY <2>1, <2>2
<1>14. QED
    BY <1>7, <1>8, <1>9, <1>11, <1>12, <1>13 DEF IInv

LEMMA NextSendStep ==
    ASSUME IInv, NEW w \in Worker, NextSend(w)
    PROVE  IInv'
<1>1. PICK j \in Instance : j = Of(w)
    BY MessageFields DEF NextSend
<1>2. PICK c \in Order : c = run[w].copy.current
    BY DEF NextSend, IInv, WorkersWellFormed
<1>3. /\ run[w].pc = "send" /\ run[w].message \in Message /\ starter[j] = "over"
      /\ UNCHANGED <<instance, starter, failed>>
      /\ Send("step", j, c) /\ started' = [started EXCEPT ![j] = started[j] \cup {c}]
    BY <1>1, <1>2 DEF NextSend, StartStep, IInv, WorkersWellFormed
<1>4. /\ queue' \in [Message -> Nat]
      /\ \A m \in Message : queue[m] > 0 => queue'[m] > 0
      /\ \A m \in Message : queue'[m] > 0 => queue[m] > 0 \/ m.instance = j
      /\ \E m \in Message : queue'[m] > 0 /\ m.instance = j /\ m.order = c
    BY <1>3, SendAdds DEF IInv
<1>5. /\ run'[w].pc = "end" /\ run'[w].message = run[w].message
      /\ \A v \in Worker : v # w => run'[v] = run[v]
    BY GoesKeeps DEF NextSend, IInv
<1>6. c \in started'[j] /\ \A i \in Instance : started[i] \subseteq started'[i]
    BY <1>3 DEF IInv, Typed
<1>7. Typed'
    BY <1>3, <1>4, GoesKeeps DEF NextSend, IInv, Typed
<1>8. WorkersWellFormed'
    BY <1>1, <1>3, <1>5 DEF IInv, WorkersWellFormed, Of
<1>9. InstancesWellFormed'
    BY <1>3, <1>4 DEF IInv, InstancesWellFormed, Exists, Early, Number
<1>10. \A i \in Instance : \A k \in Order : Sent(i, k) => Sent(i, k)'
    BY <1>1, <1>2, <1>3, <1>5, <1>6 DEF Sent, Early, At, Of
<1>11. CountedIsSent'
    BY <1>3, <1>10 DEF IInv, CountedIsSent, Exists, Number
<1>12. CopyIsSent'
  <2>1. ASSUME NEW v \in Worker, run'[v].pc = "next"
        PROVE  run'[v] = run[v] /\ Of(v)' = Of(v) /\ Of(v) \in Instance
      BY <1>5, <2>1, MessageFields DEF Of
  <2>2. QED
      BY <1>3, <1>10, <2>1 DEF IInv, CopyIsSent
<1>13. Carried'
  <2> SUFFICES ASSUME NEW i \in Instance, Exists(i)', i \notin failed'
               PROVE  Early(i)' \/ IsLast(i)' \/ WaitsFor(i)' \/ \E v \in Worker : Carries(v, i)'
      BY DEF Carried
  <2>1. Early(i) \/ IsLast(i) \/ WaitsFor(i) \/ \E v \in Worker : Carries(v, i)
      BY <1>3 DEF IInv, Carried, Exists
  <2>2. CASE Early(i) \/ IsLast(i) \/ WaitsFor(i)
      BY <1>3, <1>4, <2>2 DEF Early, IsLast, IsData, Number, WaitsFor
  <2>3. ASSUME NEW v \in Worker, v # w, Carries(v, i)
        PROVE  Carries(v, i)'
      BY <1>3, <1>5, <2>3 DEF Carries, At, Of, Number
  <2>4. CASE Carries(w, i)
      BY <1>1, <1>2, <1>3, <1>4, <2>4 DEF Carries, At, Number, WaitsFor
  <2>5. QED
      BY <2>1, <2>2, <2>3, <2>4
<1>14. QED
    BY <1>7, <1>8, <1>9, <1>11, <1>12, <1>13 DEF IInv

-----------------------------------------------------------------------------
(* The theorem *)

LEMMA StepInvariant == IInv /\ [Next]_vars => IInv'
<1> SUFFICES ASSUME IInv, [Next]_vars PROVE IInv'
    OBVIOUS
<1>1. ASSUME NEW i \in Instance, NEW s \in Schedule, ProcessCreate(i, s) PROVE IInv'
    BY <1>1, ProcessCreateStep
<1>2. ASSUME NEW i \in Instance, Starts(i) PROVE IInv'
    BY <1>2, ProcessPendingStep, ProcessSendStep DEF Starts
<1>3. ASSUME NEW i \in Instance, ProcessSendFails(i) \/ ProcessLost(i) PROVE IInv'
    BY <1>3, ProcessFailsStep
<1>4. ASSUME NEW w \in Worker, WorkerRuns(w) PROVE IInv'
    BY <1>4, TakeStep, AcknowledgeStep, TaskEndsStep, ImportEndsStep, NextSaveStep, NextSendStep
    DEF WorkerRuns
<1>5. ASSUME NEW w \in Worker, Redeliver(w) PROVE IInv'
    BY <1>5, RedeliverStep
<1>6. ASSUME NEW w \in Worker, LoseChild(w) \/ Fails(w) \/ NextSendFails(w) PROVE IInv'
    BY <1>6, WorkerFailsStep
<1>7. CASE UNCHANGED vars
    BY <1>7 DEF vars, IInv, Typed, WorkersWellFormed, InstancesWellFormed, CountedIsSent,
        CopyIsSent, Carried, Sent, Carries, WaitsFor, IsLast, IsData, At, Of, Early, Exists, Number
<1>8. QED
    BY <1>1, <1>2, <1>3, <1>4, <1>5, <1>6, <1>7 DEF Next

\* The count of a quiet instance is that of the last step it can reach.
LEMMA InvariantImplies == IInv => QuietChainIsComplete
<1> SUFFICES ASSUME IInv, NEW i \in Instance, Quiet(i), i \notin failed,
                    NEW k \in Order, Reachable(i, k)
             PROVE  k \in started[i]
    BY DEF QuietChainIsComplete
<1>1. Exists(i) /\ ~Early(i) /\ Number(i) \in Order
    BY DEF Quiet, IInv, InstancesWellFormed, Early, Typed, Exists, StoredRow, Number
<1>2. ~WaitsFor(i) /\ \A w \in Worker : ~At(w, i, "run") /\ ~At(w, i, "next") /\ ~At(w, i, "send")
    BY DEF Quiet, Waiting, Working, WaitsFor, At
<1>3. IsLast(i)
    BY <1>1, <1>2 DEF IInv, Carried, Carries
<1>4. k <= Number(i)
  <2>1. CASE ~IsData(i, Number(i))
      BY <1>1, <2>1, StepsAssumption DEF Reachable, Order
  <2>2. CASE Number(i) + 1 \notin Order
      BY <1>1, <2>2, StepsAssumption DEF Order
  <2>3. QED
      BY <1>3, <2>1, <2>2 DEF IsLast
<1>5. Sent(i, k)
    BY <1>1, <1>4 DEF IInv, CountedIsSent
<1>6. QED
    BY <1>1, <1>2, <1>5 DEF Sent

(***************************************************************************)
(* No step of a schedule is skipped, for any number of instances, steps,   *)
(* workers and faults: run_next_procedure sends the steps one by one, and  *)
(* a count that is overwritten by an older one is counted on again by the  *)
(* run that overwrote it.                                                  *)
(***************************************************************************)
THEOREM NoStepIsSkipped == Spec => []QuietChainIsComplete
<1>1. Spec => []IInv
    BY InitInvariant, StepInvariant, PTL DEF Spec
<1>2. QED
    BY <1>1, InvariantImplies, PTL

-----------------------------------------------------------------------------
(* How many messages and runs an instance has *)

\* The copies of messages that wait for an instance, one by one.
Queued(i) == {t \in Message \X (Nat \ {0}) : t[1].instance = i /\ t[2] <= queue[t[1]]}

Tasks(i) == Cardinality(Queued(i)) + Cardinality(Working(i))

\* schedules.process sends one message, and every redelivery adds one.
Bounded(i) ==
    /\ Tasks(i) <= 1 + faults
    /\ i \notin repeated => Tasks(i) <= 1
    /\ starter[i] # "over" => Tasks(i) = 0

Counted ==
    \A i \in Instance : IsFiniteSet(Queued(i)) /\ IsFiniteSet(Working(i)) /\ Bounded(i)

\* What belongs to an instance is about the step that its row counts, or, on
\* the way to the next one, about the step after it.
InTurn(i) ==
    /\ \A k \in started[i] : k = 0 \/ k - 1 \in ended[i]
    /\ \A m \in Message : m.instance = i /\ queue[m] > 0 => m.order = Number(i)
    /\ \A w \in Worker :
          /\ At(w, i, "run") => run[w].message.order = Number(i)
          /\ At(w, i, "next") => run[w].copy.current = Number(i) + 1 /\ Number(i) \in ended[i]
          /\ At(w, i, "send") => run[w].copy.current = Number(i) /\ Number(i) - 1 \in ended[i]

OrderInv ==
    /\ IInv
    /\ ended \in [Instance -> SUBSET Order]
    /\ repeated \subseteq Instance
    /\ faults \in 0 .. MaxFaults
    /\ Counted
    /\ \A i \in Instance \ repeated : InTurn(i)

LEMMA AddOne ==
    ASSUME NEW S, IsFiniteSet(S), NEW x
    PROVE  /\ IsFiniteSet(S \cup {x})
           /\ Cardinality(S) \in Nat /\ Cardinality(S \cup {x}) \in Nat
           /\ Cardinality(S \cup {x}) <= Cardinality(S) + 1
BY FS_AddElement, FS_CardinalityType

LEMMA TakeOne ==
    ASSUME NEW S, IsFiniteSet(S), NEW x \in S
    PROVE  /\ IsFiniteSet(S \ {x})
           /\ Cardinality(S) \in Nat /\ Cardinality(S \ {x}) \in Nat
           /\ Cardinality(S \ {x}) = Cardinality(S) - 1
BY FS_RemoveElement, FS_CardinalityType

\* The one message that a Send adds.
LEMMA SendIsOne ==
    ASSUME Typed, NEW kind \in {"step", "json", "import"}, NEW i \in Instance, NEW k \in Order,
           Send(kind, i, k)
    PROVE  \E m \in Message :
              /\ m.instance = i /\ m.order = k
              /\ queue'[m] = queue[m] + 1
              /\ \A n \in Message \ {m} : queue'[n] = queue[n]
<1>1. PICK m : m = [kind |-> kind, instance |-> i, order |-> k]
    OBVIOUS
<1>2. m \in Message /\ m.instance = i /\ m.order = k
    BY <1>1 DEF Message
<1>3. queue' = [queue EXCEPT ![m] = queue[m] + 1] /\ queue \in [Message -> Nat]
    BY <1>1 DEF Send, Typed
<1>4. QED
    BY <1>2, <1>3

LEMMA QueueGrows ==
    ASSUME Typed, NEW m \in Message, queue'[m] = queue[m] + 1,
           \A n \in Message \ {m} : queue'[n] = queue[n]
    PROVE  /\ Queued(m.instance)' = Queued(m.instance) \cup {<<m, queue[m] + 1>>}
           /\ \A j \in Instance \ {m.instance} : Queued(j)' = Queued(j)
<1>1. queue[m] \in Nat /\ \A n \in Message : queue[n] \in Nat
    BY DEF Typed
<1>2. \A t \in Message \X (Nat \ {0}) :
        /\ t[1] \in Message /\ t[2] \in Nat \ {0}
        /\ t[1] = m => (t[2] <= queue'[t[1]] <=> t[2] <= queue[t[1]] \/ t = <<m, queue[m] + 1>>)
        /\ t[1] # m => queue'[t[1]] = queue[t[1]] /\ t # <<m, queue[m] + 1>>
    BY <1>1
<1>3. <<m, queue[m] + 1>> \in Message \X (Nat \ {0})
    BY <1>1
<1>4. \A j : Queued(j)' = {t \in Message \X (Nat \ {0}) : t[1].instance = j /\ t[2] <= queue'[t[1]]}
    BY DEF Queued
<1>5. Queued(m.instance)' = Queued(m.instance) \cup {<<m, queue[m] + 1>>}
  <2>1. \A t \in Message \X (Nat \ {0}) :
           t \in Queued(m.instance)' <=> t \in Queued(m.instance) \/ t = <<m, queue[m] + 1>>
      BY <1>2, <1>3, <1>4 DEF Queued
  <2>2. Queued(m.instance)' \subseteq Message \X (Nat \ {0})
      BY <1>4
  <2>3. Queued(m.instance) \subseteq Message \X (Nat \ {0})
      BY DEF Queued
  <2>4. QED
      BY <1>3, <2>1, <2>2, <2>3
<1>6. ASSUME NEW j \in Instance \ {m.instance}
      PROVE  Queued(j)' = Queued(j)
    BY <1>2, <1>4 DEF Queued
<1>7. QED
    BY <1>5, <1>6

LEMMA QueueShrinks ==
    ASSUME Typed, NEW m \in Message, queue[m] > 0, queue'[m] = queue[m] - 1,
           \A n \in Message \ {m} : queue'[n] = queue[n]
    PROVE  /\ <<m, queue[m]>> \in Queued(m.instance)
           /\ Queued(m.instance)' = Queued(m.instance) \ {<<m, queue[m]>>}
           /\ \A j \in Instance \ {m.instance} : Queued(j)' = Queued(j)
<1>1. queue[m] \in Nat /\ \A n \in Message : queue[n] \in Nat
    BY DEF Typed
<1>2. \A t \in Message \X (Nat \ {0}) :
        /\ t[1] \in Message /\ t[2] \in Nat \ {0}
        /\ t[1] = m => (t[2] <= queue'[t[1]] <=> t[2] <= queue[t[1]] /\ t # <<m, queue[m]>>)
        /\ t[1] # m => queue'[t[1]] = queue[t[1]] /\ t # <<m, queue[m]>>
    BY <1>1
<1>3. <<m, queue[m]>> \in Queued(m.instance)
    BY <1>1 DEF Queued
<1>4. \A j : Queued(j)' = {t \in Message \X (Nat \ {0}) : t[1].instance = j /\ t[2] <= queue'[t[1]]}
    BY DEF Queued
<1>5. Queued(m.instance)' = Queued(m.instance) \ {<<m, queue[m]>>}
  <2>1. \A t \in Message \X (Nat \ {0}) :
           t \in Queued(m.instance)' <=> t \in Queued(m.instance) /\ t # <<m, queue[m]>>
      BY <1>2, <1>4 DEF Queued
  <2>2. Queued(m.instance)' \subseteq Message \X (Nat \ {0})
      BY <1>4
  <2>3. Queued(m.instance) \subseteq Message \X (Nat \ {0})
      BY DEF Queued
  <2>4. QED
      BY <2>1, <2>2, <2>3
<1>6. ASSUME NEW j \in Instance \ {m.instance}
      PROVE  Queued(j)' = Queued(j)
    BY <1>2, <1>4 DEF Queued
<1>7. QED
    BY <1>3, <1>5, <1>6

LEMMA WorkerLeaves ==
    ASSUME NEW w \in Worker, NEW i \in Instance, i = Of(w),
           run[w].pc \notin {"idle", "end"}, run'[w].pc \in {"idle", "end"},
           \A v \in Worker : v # w => run'[v] = run[v]
    PROVE  /\ w \in Working(i) /\ Working(i)' = Working(i) \ {w}
           /\ \A j \in Instance \ {i} : Working(j)' = Working(j)
BY DEF Working, Of

LEMMA WorkerStays ==
    ASSUME NEW w \in Worker,
           run[w].pc \in {"idle", "end"} <=> run'[w].pc \in {"idle", "end"},
           run[w].pc \notin {"idle", "end"} => run'[w].message = run[w].message,
           \A v \in Worker : v # w => run'[v] = run[v]
    PROVE  \A j \in Instance : Working(j)' = Working(j)
BY DEF Working, Of

LEMMA CountTypes ==
    ASSUME OrderInv, NEW i \in Instance
    PROVE  /\ IsFiniteSet(Queued(i)) /\ Cardinality(Queued(i)) \in Nat
           /\ IsFiniteSet(Working(i)) /\ Cardinality(Working(i)) \in Nat
           /\ Tasks(i) = Cardinality(Queued(i)) + Cardinality(Working(i))
           /\ faults \in Nat /\ Bounded(i)
<1>1. faults \in Nat
    BY StepsAssumption DEF OrderInv
<1>2. QED
    BY <1>1, FS_CardinalityType DEF OrderInv, Counted, Tasks

\* Only one message or run belongs to an instance that was not repeated.
LEMMA RunIsAlone ==
    ASSUME OrderInv, NEW i \in Instance \ repeated, NEW w \in Working(i)
    PROVE  Queued(i) = {} /\ Working(i) = {w}
<1>1. /\ IsFiniteSet(Queued(i)) /\ IsFiniteSet(Working(i))
      /\ Cardinality(Queued(i)) + Cardinality(Working(i)) <= 1
    BY CountTypes DEF Bounded
<1>2. Cardinality(Queued(i)) \in Nat
    BY <1>1, FS_CardinalityType
<1>3. /\ IsFiniteSet(Working(i) \ {w}) /\ Cardinality(Working(i) \ {w}) \in Nat
      /\ Cardinality(Working(i)) \in Nat
      /\ Cardinality(Working(i) \ {w}) = Cardinality(Working(i)) - 1
    BY <1>1, TakeOne
<1>4. Cardinality(Queued(i)) = 0 /\ Cardinality(Working(i) \ {w}) = 0
    BY <1>1, <1>2, <1>3
<1>5. Queued(i) = {} /\ Working(i) \ {w} = {}
    BY <1>1, <1>3, <1>4, FS_EmptySet
<1>6. QED
    BY <1>5

LEMMA MessageIsAlone ==
    ASSUME OrderInv, NEW i \in Instance \ repeated, NEW m \in Message,
           m.instance = i, queue[m] > 0
    PROVE  /\ Working(i) = {} /\ queue[m] = 1
           /\ \A n \in Message : n.instance = i /\ queue[n] > 0 => n = m
<1>1. /\ IsFiniteSet(Queued(i)) /\ IsFiniteSet(Working(i))
      /\ Cardinality(Queued(i)) + Cardinality(Working(i)) <= 1
    BY CountTypes DEF Bounded
<1>2. \A n \in Message : queue[n] \in Nat
    BY DEF OrderInv, IInv, Typed
<1>3. \A n \in Message : n.instance = i /\ queue[n] > 0 =>
          <<n, 1>> \in Queued(i) /\ <<n, queue[n]>> \in Queued(i)
    BY <1>2 DEF Queued
<1>4. Cardinality(Working(i)) \in Nat
    BY <1>1, FS_CardinalityType
<1>5. <<m, 1>> \in Queued(i)
    BY <1>3
<1>6. /\ IsFiniteSet(Queued(i) \ {<<m, 1>>}) /\ Cardinality(Queued(i) \ {<<m, 1>>}) \in Nat
      /\ Cardinality(Queued(i)) \in Nat
      /\ Cardinality(Queued(i) \ {<<m, 1>>}) = Cardinality(Queued(i)) - 1
    BY <1>1, <1>5, TakeOne
<1>7. Cardinality(Working(i)) = 0 /\ Cardinality(Queued(i) \ {<<m, 1>>}) = 0
    BY <1>1, <1>4, <1>6
<1>8. Working(i) = {} /\ Queued(i) \ {<<m, 1>>} = {}
    BY <1>1, <1>6, <1>7, FS_EmptySet
<1>9. \A x \in Queued(i) : x = <<m, 1>>
    BY <1>8
<1>10. queue[m] = 1
    BY <1>3, <1>9
<1>11. ASSUME NEW n \in Message, n.instance = i, queue[n] > 0
       PROVE  n = m
  <2>1. <<n, 1>> = <<m, 1>>
      BY <1>3, <1>9, <1>11
  <2>2. QED
      BY <2>1
<1>12. QED
    BY <1>8, <1>10, <1>11

\* Nothing belongs to an instance whose first step was not sent.
LEMMA EarlyHasNothing ==
    ASSUME OrderInv, NEW i \in Instance, starter[i] # "over"
    PROVE  /\ Queued(i) = {} /\ Working(i) = {}
           /\ \A m \in Message : m.instance = i => queue[m] = 0
<1>1. /\ IsFiniteSet(Queued(i)) /\ IsFiniteSet(Working(i))
      /\ Cardinality(Queued(i)) + Cardinality(Working(i)) <= 0
    BY CountTypes DEF Bounded
<1>2. Cardinality(Queued(i)) \in Nat /\ Cardinality(Working(i)) \in Nat
    BY <1>1, FS_CardinalityType
<1>3. Queued(i) = {} /\ Working(i) = {}
    BY <1>1, <1>2, FS_EmptySet
<1>4. \A m \in Message : m.instance = i /\ queue[m] # 0 => <<m, 1>> \in Queued(i)
    BY DEF Queued, OrderInv, IInv, Typed
<1>5. QED
    BY <1>3, <1>4

-----------------------------------------------------------------------------
(* Steps and the count *)

\* Who has nothing to do with a step keeps the order.
LEMMA OthersInTurn ==
    ASSUME NEW j \in Instance, InTurn(j),
           instance'[j].current = instance[j].current, started'[j] = started[j], ended'[j] = ended[j],
           \A m \in Message : m.instance = j /\ queue'[m] > 0 => queue[m] > 0,
           \A w \in Worker : At(w, j, "run")' \/ At(w, j, "next")' \/ At(w, j, "send")'
              => run'[w] = run[w]
    PROVE  InTurn(j)'
<1>1. \A w \in Worker : /\ At(w, j, "run")' => At(w, j, "run") /\ run'[w] = run[w]
                        /\ At(w, j, "next")' => At(w, j, "next") /\ run'[w] = run[w]
                        /\ At(w, j, "send")' => At(w, j, "send") /\ run'[w] = run[w]
    BY DEF At, Of
<1>2. QED
    BY <1>1 DEF InTurn, Number

\* The parts of the new invariant that a step of instance i has to keep.
LEMMA OrderStep ==
    ASSUME OrderInv, NEW i \in Instance, IInv',
           ended' \in [Instance -> SUBSET Order], repeated' \subseteq repeated \cup {i},
           repeated \subseteq repeated', faults' \in 0 .. MaxFaults, faults' >= faults,
           \A j \in Instance \ {i} :
              /\ instance'[j] = instance[j] /\ starter'[j] = starter[j]
              /\ started'[j] = started[j] /\ ended'[j] = ended[j]
              /\ Queued(j)' = Queued(j) /\ Working(j)' = Working(j)
              /\ \A m \in Message : m.instance = j /\ queue'[m] > 0 => queue[m] > 0
              /\ \A w \in Worker : At(w, j, "run")' \/ At(w, j, "next")' \/ At(w, j, "send")'
                    => run'[w] = run[w],
           IsFiniteSet(Queued(i)'), IsFiniteSet(Working(i)'),
           Bounded(i)',
           i \notin repeated' => InTurn(i)'
    PROVE  OrderInv'
<1>1. faults \in Nat /\ faults' \in Nat
    BY StepsAssumption DEF OrderInv
<1>2. ASSUME NEW j \in Instance \ {i}
      PROVE  IsFiniteSet(Queued(j)') /\ IsFiniteSet(Working(j)') /\ Bounded(j)'
  <2>1. /\ IsFiniteSet(Queued(j)) /\ IsFiniteSet(Working(j))
        /\ Tasks(j) \in Nat /\ Bounded(j)
      BY CountTypes
  <2>2. Queued(j)' = Queued(j) /\ Working(j)' = Working(j)
      OBVIOUS
  <2>3. Tasks(j)' = Tasks(j)
      BY <2>2 DEF Tasks
  <2>4. starter'[j] = starter[j] /\ (j \in repeated' <=> j \in repeated)
      OBVIOUS
  <2>5. QED
      BY <1>1, <2>1, <2>2, <2>3, <2>4 DEF Bounded
<1>3. Counted'
    BY <1>2 DEF Counted
<1>4. ASSUME NEW j \in Instance \ {i}, j \notin repeated'
      PROVE  InTurn(j)'
  <2>1. InTurn(j)
      BY <1>4 DEF OrderInv
  <2>2. QED
      BY <2>1, OthersInTurn
<1>5. repeated' \subseteq Instance
    BY DEF OrderInv
<1>6. QED
    BY <1>3, <1>4, <1>5 DEF OrderInv

LEMMA InitOrder == Init => OrderInv
<1> SUFFICES ASSUME Init PROVE OrderInv
    OBVIOUS
<1>1. IInv
    BY InitInvariant
<1>2. ASSUME NEW i \in Instance
      PROVE  Queued(i) = {} /\ Working(i) = {} /\ InTurn(i)
  <2>1. \A w \in Worker : run[w].pc = "idle"
      BY DEF Init, Idle
  <2>2. QED
      BY <2>1 DEF Init, Queued, Working, InTurn, At
<1>3. Counted
  <2>1. IsFiniteSet({}) /\ Cardinality({}) + Cardinality({}) = 0
      BY FS_EmptySet
  <2>2. \A i \in Instance : Tasks(i) = 0
      BY <1>2, <2>1 DEF Tasks
  <2>3. faults = 0
      BY DEF Init
  <2>4. ASSUME NEW i \in Instance
        PROVE  Bounded(i)
    <3>1. Tasks(i) = 0
        BY <2>2
    <3>2. Tasks(i) <= 1 + faults
        BY <2>3, <3>1
    <3>3. i \notin repeated => Tasks(i) <= 1
        BY <3>1
    <3>4. starter[i] # "over" => Tasks(i) = 0
        BY <3>1
    <3>5. QED
        BY <3>2, <3>3, <3>4 DEF Bounded
  <2>5. QED
      BY <1>2, <2>1, <2>4 DEF Counted
<1>4. QED
    BY <1>1, <1>2, <1>3, StepsAssumption DEF Init, OrderInv

\* schedules.process before it sends, and where it ends without sending.
LEMMA ProcessOrder ==
    ASSUME OrderInv, NEW i \in Instance, IInv',
           \/ \E s \in Schedule : ProcessCreate(i, s)
           \/ ProcessPending(i) \/ ProcessSendFails(i) \/ ProcessLost(i)
    PROVE  OrderInv'
<1>1. /\ starter[i] # "over" /\ UNCHANGED <<queue, run, started, ended, repeated>>
      /\ \A j \in Instance \ {i} : instance'[j] = instance[j] /\ starter'[j] = starter[j]
    BY DEF ProcessCreate, ProcessPending, ProcessSendFails, ProcessLost, OrderInv, IInv, Typed
<1>2. faults' \in 0 .. MaxFaults /\ faults' >= faults
    BY StepsAssumption DEF ProcessCreate, ProcessPending, ProcessSendFails, ProcessLost,
       FailureOf, Fault, OrderInv
<1>3. \A j \in Instance : Queued(j)' = Queued(j) /\ Working(j)' = Working(j)
    BY <1>1 DEF Queued, Working, Of
<1>4. Queued(i) = {} /\ Working(i) = {} /\ \A m \in Message : m.instance = i => queue[m] = 0
    BY <1>1, EarlyHasNothing
<1>5. /\ IsFiniteSet(Queued(i)') /\ IsFiniteSet(Working(i)') /\ Tasks(i)' = 0
    BY <1>3, <1>4, FS_EmptySet DEF Tasks
<1>6. Bounded(i)'
  <2>1. \A n \in Nat : 0 <= 1 + n /\ 0 <= 1
      OBVIOUS
  <2>2. 0 <= 1 + faults' /\ 0 <= 1
    <3>1. faults' \in Nat
        BY <1>2, StepsAssumption
    <3>2. QED
        BY <2>1, <3>1, Zenon
  <2>3. QED
      BY <1>5, <2>2 DEF Bounded
<1>7. ASSUME i \notin repeated
      PROVE  InTurn(i)'
  <2>1. InTurn(i)
      BY <1>7 DEF OrderInv
  <2>2. \A w \in Worker : ~At(w, i, "run")' /\ ~At(w, i, "next")' /\ ~At(w, i, "send")'
      BY <1>1, <1>4 DEF At, Of, Working
  <2>3. QED
      BY <1>1, <1>4, <2>1, <2>2 DEF InTurn
<1>8. QED
    BY <1>1, <1>2, <1>3, <1>5, <1>6, <1>7, OrderStep DEF OrderInv

LEMMA ProcessSendOrder ==
    ASSUME OrderInv, NEW i \in Instance, IInv', ProcessSend(i)
    PROVE  OrderInv'
<1>1. /\ starter[i] # "over" /\ starter'[i] = "over" /\ Early(i)
      /\ UNCHANGED <<instance, run, ended, repeated, faults>>
      /\ \A j \in Instance \ {i} : starter'[j] = starter[j] /\ started'[j] = started[j]
      /\ started'[i] = started[i] \cup {0}
    BY DEF ProcessSend, StartStep, Early, OrderInv, IInv, Typed
<1>2. PICK m \in Message :
        /\ m.instance = i /\ m.order = 0
        /\ queue'[m] = queue[m] + 1
        /\ \A n \in Message \ {m} : queue'[n] = queue[n]
  <2>1. 0 \in Order /\ Send("step", i, 0)
      BY StepsAssumption DEF Order, ProcessSend, StartStep
  <2>2. QED
      BY <2>1, SendIsOne DEF OrderInv, IInv
<1>3. /\ Queued(i)' = Queued(i) \cup {<<m, queue[m] + 1>>}
      /\ \A j \in Instance \ {i} : Queued(j)' = Queued(j)
    BY <1>2, QueueGrows DEF OrderInv, IInv
<1>4. \A j \in Instance : Working(j)' = Working(j)
    BY <1>1 DEF Working, Of
<1>5. Queued(i) = {} /\ Working(i) = {} /\ \A n \in Message : n.instance = i => queue[n] = 0
    BY <1>1, EarlyHasNothing
<1>6. /\ IsFiniteSet(Queued(i)') /\ IsFiniteSet(Working(i)') /\ Tasks(i)' = 1
  <2>1. /\ IsFiniteSet({}) /\ Cardinality({}) = 0
      BY FS_EmptySet
  <2>2. Queued(i)' = {<<m, queue[m] + 1>>} /\ Working(i)' = {}
      BY <1>3, <1>4, <1>5
  <2>3. IsFiniteSet({<<m, queue[m] + 1>>}) /\ Cardinality({<<m, queue[m] + 1>>}) = 1
      BY FS_Singleton
  <2>4. QED
      BY <2>1, <2>2, <2>3 DEF Tasks
<1>7. Bounded(i)'
    BY <1>1, <1>6, StepsAssumption DEF Bounded, OrderInv
<1>8. ASSUME i \notin repeated
      PROVE  InTurn(i)'
  <2>1. InTurn(i) /\ Number(i) = 0 /\ Number(i)' = 0
      BY <1>1, <1>8 DEF OrderInv, IInv, InstancesWellFormed, Number
  <2>2. \A w \in Worker : ~At(w, i, "run")' /\ ~At(w, i, "next")' /\ ~At(w, i, "send")'
      BY <1>1, <1>5 DEF At, Of, Working
  <2>3. \A n \in Message : n.instance = i /\ queue'[n] > 0 => n = m
      BY <1>2, <1>5
  <2>4. QED
      BY <1>1, <1>2, <2>1, <2>2, <2>3 DEF InTurn
<1>9. \A j \in Instance \ {i}, n \in Message : n.instance = j /\ queue'[n] > 0 => queue[n] > 0
    BY <1>2
<1>10. /\ faults' \in 0 .. MaxFaults /\ faults' >= faults
       /\ ended' \in [Instance -> SUBSET Order]
    BY <1>1, StepsAssumption DEF OrderInv
<1>11. QED
    BY <1>1, <1>3, <1>4, <1>6, <1>7, <1>8, <1>9, <1>10, OrderStep

\* A task that ends takes its run away and sends at most one message.
LEMMA TradeOne ==
    ASSUME NEW Q, IsFiniteSet(Q), NEW W, IsFiniteSet(W), NEW x, NEW y \in W
    PROVE  /\ IsFiniteSet(Q \cup {x}) /\ IsFiniteSet(W \ {y})
           /\ Cardinality(Q \cup {x}) + Cardinality(W \ {y}) <= Cardinality(Q) + Cardinality(W)
           /\ Cardinality(Q) + Cardinality(W \ {y}) <= Cardinality(Q) + Cardinality(W)
<1>1. /\ IsFiniteSet(Q \cup {x}) /\ Cardinality(Q) \in Nat /\ Cardinality(Q \cup {x}) \in Nat
      /\ Cardinality(Q \cup {x}) <= Cardinality(Q) + 1
    BY AddOne
<1>2. /\ IsFiniteSet(W \ {y}) /\ Cardinality(W) \in Nat /\ Cardinality(W \ {y}) \in Nat
      /\ Cardinality(W \ {y}) = Cardinality(W) - 1
    BY TakeOne
<1>3. QED
    BY <1>1, <1>2

\* Fewer tasks and more faults keep the bound.
LEMMA FewerTasks ==
    ASSUME OrderInv, NEW i \in Instance, starter'[i] = starter[i], repeated' = repeated,
           faults' \in 0 .. MaxFaults, faults' >= faults,
           NEW n \in Nat, n <= Tasks(i), Tasks(i)' = n
    PROVE  Bounded(i)'
<1>1. faults \in Nat /\ Tasks(i) \in Nat /\ Bounded(i)
    BY CountTypes
<1>2. faults' \in Nat
    BY StepsAssumption
<1>3. \A a, b, c, d \in Nat : a <= b /\ c <= d =>
         /\ b <= 1 + c => a <= 1 + d
         /\ b <= 1 => a <= 1
         /\ b = 0 => a = 0
    OBVIOUS
<1>4. /\ Tasks(i) <= 1 + faults => n <= 1 + faults'
      /\ Tasks(i) <= 1 => n <= 1
      /\ Tasks(i) = 0 => n = 0
    BY <1>1, <1>2, <1>3, Zenon
<1>5. QED
    BY <1>1, <1>4, Zenon DEF Bounded

LEMMA WorkerOrder ==
    ASSUME OrderInv, IInv', NEW w \in Worker, NEW i \in Instance, i = Of(w), run[w].pc # "idle",
           \A v \in Worker : v # w => run'[v] = run[v],
           run'[w].pc = "idle" \/ run'[w].message = run[w].message,
           run[w].pc = "end" => run'[w].pc \in {"idle", "end"},
           \A j \in Instance \ {i} :
              instance'[j] = instance[j] /\ started'[j] = started[j] /\ ended'[j] = ended[j],
           ended' \in [Instance -> SUBSET Order],
           UNCHANGED <<starter, repeated>>, faults' \in 0 .. MaxFaults, faults' >= faults,
           \/ UNCHANGED queue
           \/ /\ run[w].pc # "end" /\ run'[w].pc = "end"
              /\ \E m \in Message :
                    /\ m.instance = i /\ queue'[m] = queue[m] + 1
                    /\ \A n \in Message \ {m} : queue'[n] = queue[n],
           i \notin repeated => InTurn(i)'
    PROVE  OrderInv'
<1>1. /\ IsFiniteSet(Queued(i)) /\ IsFiniteSet(Working(i))
      /\ Tasks(i) = Cardinality(Queued(i)) + Cardinality(Working(i)) /\ Tasks(i) \in Nat
    BY CountTypes
<1>2. /\ \A j \in Instance \ {i} : Queued(j)' = Queued(j)
      /\ \A j \in Instance \ {i}, m \in Message : m.instance = j /\ queue'[m] > 0 => queue[m] > 0
      /\ \/ Queued(i)' = Queued(i)
         \/ /\ run[w].pc # "end" /\ run'[w].pc = "end"
            /\ \E x : Queued(i)' = Queued(i) \cup {x}
  <2>1. CASE UNCHANGED queue
      BY <2>1 DEF Queued
  <2>2. ASSUME NEW m \in Message, m.instance = i, queue'[m] = queue[m] + 1,
               \A n \in Message \ {m} : queue'[n] = queue[n]
        PROVE  /\ Queued(i)' = Queued(i) \cup {<<m, queue[m] + 1>>}
               /\ \A j \in Instance \ {i} : Queued(j)' = Queued(j)
      BY <2>2, QueueGrows DEF OrderInv, IInv
  <2>3. QED
      BY <2>1, <2>2
<1>3. CASE run[w].pc # "end" /\ run'[w].pc \in {"idle", "end"}
  <2>1. /\ w \in Working(i) /\ Working(i)' = Working(i) \ {w}
        /\ \A j \in Instance \ {i} : Working(j)' = Working(j)
      BY <1>3, WorkerLeaves
  <2>2. PICK x : Queued(i)' = Queued(i) \/ Queued(i)' = Queued(i) \cup {x}
      BY <1>2
  <2>3. /\ IsFiniteSet(Queued(i)') /\ IsFiniteSet(Working(i)')
        /\ Cardinality(Queued(i)') + Cardinality(Working(i)') <= Tasks(i)
    <3>1. /\ IsFiniteSet(Queued(i) \cup {x}) /\ IsFiniteSet(Working(i) \ {w})
          /\ Cardinality(Queued(i) \cup {x}) + Cardinality(Working(i) \ {w}) <= Tasks(i)
          /\ Cardinality(Queued(i)) + Cardinality(Working(i) \ {w}) <= Tasks(i)
      <4>1. /\ IsFiniteSet(Queued(i) \cup {x}) /\ IsFiniteSet(Working(i) \ {w})
            /\ Cardinality(Queued(i) \cup {x}) + Cardinality(Working(i) \ {w})
                  <= Cardinality(Queued(i)) + Cardinality(Working(i))
            /\ Cardinality(Queued(i)) + Cardinality(Working(i) \ {w})
                  <= Cardinality(Queued(i)) + Cardinality(Working(i))
          BY <1>1, <2>1, TradeOne, Zenon
      <4>2. Tasks(i) = Cardinality(Queued(i)) + Cardinality(Working(i))
          BY <1>1
      <4>3. QED
          BY <4>1, <4>2
    <3>2. CASE Queued(i)' = Queued(i)
        BY <1>1, <2>1, <3>1, <3>2
    <3>3. CASE Queued(i)' = Queued(i) \cup {x}
        BY <2>1, <3>1, <3>3
    <3>4. QED
        BY <2>2, <3>2, <3>3
  <2>4. PICK n \in Nat : n <= Tasks(i) /\ Tasks(i)' = n
    <3>1. Cardinality(Queued(i)') \in Nat /\ Cardinality(Working(i)') \in Nat
        BY <2>3, FS_CardinalityType
    <3>2. \A a, b \in Nat : a + b \in Nat
        OBVIOUS
    <3>3. Cardinality(Queued(i)') + Cardinality(Working(i)') \in Nat
        BY <3>1, <3>2, Zenon
    <3>4. QED
        BY <2>3, <3>3, Zenon DEF Tasks
  <2>5. Bounded(i)'
      BY <2>4, FewerTasks
  <2>6. \A j \in Instance \ {i} : \A v \in Worker :
           At(v, j, "run")' \/ At(v, j, "next")' \/ At(v, j, "send")' => run'[v] = run[v]
      BY <1>3 DEF At
  <2>7. IsFiniteSet(Queued(i)') /\ IsFiniteSet(Working(i)')
      BY <2>3
  <2>8. QED
      BY <1>2, <2>1, <2>5, <2>6, <2>7, OrderStep
<1>4. CASE ~(run[w].pc # "end" /\ run'[w].pc \in {"idle", "end"})
  <2>1. \A j \in Instance : Working(j)' = Working(j)
      BY <1>4, WorkerStays
  <2>2. Queued(i)' = Queued(i) /\ Tasks(i)' = Tasks(i)
      BY <1>2, <1>4, <2>1 DEF Tasks
  <2>3. Bounded(i)'
      BY <1>1, <2>2, FewerTasks
  <2>4. \A j \in Instance \ {i} : \A v \in Worker :
           At(v, j, "run")' \/ At(v, j, "next")' \/ At(v, j, "send")' => run'[v] = run[v]
      BY DEF At, Of
  <2>5. IsFiniteSet(Queued(i)') /\ IsFiniteSet(Working(i)')
      BY <1>1, <2>1, <2>2
  <2>6. QED
      BY <1>2, <2>1, <2>3, <2>4, <2>5, OrderStep
<1>5. QED
    BY <1>3, <1>4

\* What a run that is alone does to the order of its instance.
LEMMA AloneInTurn ==
    ASSUME OrderInv, NEW i \in Instance \ repeated, NEW w \in Working(i),
           \A v \in Worker : v # w => run'[v] = run[v],
           \A m \in Message : m.instance = i /\ queue'[m] > 0 => queue[m] > 0 \/ m.order = Number(i)',
           \A k \in started'[i] : k = 0 \/ k - 1 \in ended'[i],
           At(w, i, "run")' => run'[w].message.order = Number(i)',
           At(w, i, "next")' => run'[w].copy.current = Number(i)' + 1 /\ Number(i)' \in ended'[i],
           At(w, i, "send")' => run'[w].copy.current = Number(i)' /\ Number(i)' - 1 \in ended'[i]
    PROVE  InTurn(i)'
<1>1. Queued(i) = {} /\ Working(i) = {w}
    BY RunIsAlone
<1>2. \A m \in Message : m.instance = i => queue[m] = 0
  <2>1. \A m \in Message : m.instance = i /\ queue[m] # 0 => <<m, 1>> \in Queued(i)
      BY DEF Queued, OrderInv, IInv, Typed
  <2>2. QED
      BY <1>1, <2>1
<1>3. \A v \in Worker : At(v, i, "run")' \/ At(v, i, "next")' \/ At(v, i, "send")' => v = w
    BY <1>1 DEF At, Of, Working
<1>4. QED
    BY <1>2, <1>3 DEF InTurn

LEMMA AcknowledgeOrder ==
    ASSUME OrderInv, IInv', NEW w \in Worker, Acknowledge(w)
    PROVE  OrderInv'
<1>1. PICK i \in Instance : i = Of(w)
    BY MessageFields DEF Acknowledge, OrderInv
<1>2. /\ run[w].pc = "end" /\ run'[w] = Idle /\ run'[w].pc = "idle"
      /\ \A v \in Worker : v # w => run'[v] = run[v]
      /\ UNCHANGED <<instance, starter, queue, started, ended, repeated, faults>>
    BY DEF Acknowledge, OrderInv, IInv, Typed, Idle
<1>3. i \notin repeated => InTurn(i)'
  <2> SUFFICES ASSUME i \notin repeated PROVE InTurn(i)'
      OBVIOUS
  <2>1. InTurn(i)
      BY DEF OrderInv
  <2>2. \A v \in Worker : At(v, i, "run")' \/ At(v, i, "next")' \/ At(v, i, "send")' => run'[v] = run[v]
      BY <1>2 DEF At
  <2>3. QED
      BY <1>2, <2>1, <2>2, OthersInTurn
<1>4. faults' \in 0 .. MaxFaults /\ faults' >= faults /\ ended' \in [Instance -> SUBSET Order]
    BY <1>2, StepsAssumption DEF OrderInv
<1>5. QED
    BY <1>1, <1>2, <1>3, <1>4, WorkerOrder

\* A run is one of its instance's; nothing else is, if nothing was repeated.
LEMMA RunInTurn ==
    ASSUME OrderInv, NEW w \in Worker, run[w].pc \in {"run", "next", "send"}
    PROVE  /\ Of(w) \in Instance /\ w \in Working(Of(w)) /\ run[w].message \in Message
           /\ Number(Of(w)) \in Order
           /\ Of(w) \notin repeated =>
                /\ \A k \in started[Of(w)] : k = 0 \/ k - 1 \in ended[Of(w)]
                /\ run[w].pc = "run" => run[w].message.order = Number(Of(w))
                /\ run[w].pc = "next" =>
                     run[w].copy.current = Number(Of(w)) + 1 /\ Number(Of(w)) \in ended[Of(w)]
                /\ run[w].pc = "send" =>
                     run[w].copy.current = Number(Of(w)) /\ Number(Of(w)) - 1 \in ended[Of(w)]
<1>1. PICK i \in Instance : i = Of(w) /\ Exists(i)
    BY MessageFields DEF OrderInv
<1>2. w \in Working(i) /\ run[w].message \in Message
    BY <1>1 DEF Working, OrderInv, IInv, WorkersWellFormed
<1>3. Number(i) \in Order
    BY <1>1 DEF OrderInv, IInv, Typed, Exists, Number, StoredRow
<1>4. i \notin repeated => InTurn(i)
    BY DEF OrderInv
<1>5. QED
    BY <1>1, <1>2, <1>3, <1>4 DEF InTurn, At
\* A task that ends, or is lost, without sending anything.
LEMMA EndOrder ==
    ASSUME OrderInv, IInv', NEW w \in Worker,
           LoseChild(w) \/ Fails(w) \/ OtherStep(w) \/ NoNext(w)
    PROVE  OrderInv'
<1>1. run[w].pc \in {"run", "next", "send"}
    BY DEF LoseChild, Fails, OtherStep, NoNext, Works, OrderInv, IInv, Typed
<1>2. PICK i \in Instance : i = Of(w) /\ w \in Working(i)
    BY <1>1, RunInTurn
<1>3. /\ \A v \in Worker : v # w => run'[v] = run[v]
      /\ run'[w].pc = "idle" \/ (run'[w].pc = "end" /\ run'[w].message = run[w].message)
      /\ UNCHANGED <<instance, starter, queue, started, ended, repeated>>
    BY GoesKeeps DEF LoseChild, Fails, OtherStep, NoNext, OrderInv, IInv, Typed, Idle
<1>4. faults' \in 0 .. MaxFaults /\ faults' >= faults /\ ended' \in [Instance -> SUBSET Order]
    BY <1>3, StepsAssumption DEF LoseChild, Fails, OtherStep, NoNext, FailureOf, Fault, OrderInv
<1>5. ASSUME i \notin repeated
      PROVE  InTurn(i)'
  <2>1. \A k \in started[i] : k = 0 \/ k - 1 \in ended[i]
      BY <1>1, <1>2, <1>5, RunInTurn
  <2>2. ~At(w, i, "run")' /\ ~At(w, i, "next")' /\ ~At(w, i, "send")'
      BY <1>3 DEF At
  <2>3. QED
      BY <1>2, <1>3, <1>5, <2>1, <2>2, AloneInTurn
<1>6. QED
    BY <1>1, <1>2, <1>3, <1>4, <1>5, WorkerOrder

\* A task that ends with the message of the same step.
LEMMA DataOrder ==
    ASSUME OrderInv, IInv', NEW w \in Worker, DataStep(w) \/ ByProcedureJson(w)
    PROVE  OrderInv'
<1>1. run[w].pc = "run"
    BY DEF DataStep, ByProcedureJson, Works
<1>2. PICK i \in Instance : /\ i = Of(w) /\ w \in Working(i)
                            /\ run[w].message.order \in Order
    BY <1>1, RunInTurn, MessageFields
<1>3. /\ \A v \in Worker : v # w => run'[v] = run[v]
      /\ run'[w].pc = "end" /\ run'[w].message = run[w].message
      /\ UNCHANGED <<instance, starter, started, ended, repeated, faults>>
    BY GoesKeeps DEF DataStep, ByProcedureJson, OrderInv, IInv
<1>4. faults' \in 0 .. MaxFaults /\ faults' >= faults /\ ended' \in [Instance -> SUBSET Order]
    BY <1>3, StepsAssumption DEF OrderInv
<1>5. PICK m \in Message :
        /\ m.instance = i /\ m.order = run[w].message.order
        /\ queue'[m] = queue[m] + 1
        /\ \A n \in Message \ {m} : queue'[n] = queue[n]
  <2>1. \E kind \in {"json", "import"} : Send(kind, i, run[w].message.order)
      BY <1>2 DEF DataStep, ByProcedureJson
  <2>2. QED
      BY <1>2, <2>1, SendIsOne DEF OrderInv, IInv
<1>6. ASSUME i \notin repeated
      PROVE  InTurn(i)'
  <2>1. /\ \A k \in started[i] : k = 0 \/ k - 1 \in ended[i]
        /\ run[w].message.order = Number(i)
      BY <1>1, <1>2, <1>6, RunInTurn
  <2>2. ~At(w, i, "run")' /\ ~At(w, i, "next")' /\ ~At(w, i, "send")'
      BY <1>3 DEF At
  <2>3. Number(i)' = Number(i)
      BY <1>3 DEF Number
  <2>4. \A n \in Message : n.instance = i /\ queue'[n] > 0 => queue[n] > 0 \/ n.order = Number(i)'
      BY <1>5, <2>1, <2>3
  <2>5. QED
      BY <1>2, <1>3, <1>6, <2>1, <2>2, <2>4, AloneInTurn
<1>7. QED
    BY <1>1, <1>2, <1>3, <1>4, <1>5, <1>6, WorkerOrder

\* The import ends: the step it belongs to is over, and the count goes on in memory.
LEMMA ImportOrder ==
    ASSUME OrderInv, IInv', NEW w \in Worker, ImportEnds(w)
    PROVE  OrderInv'
<1>1. run[w].pc = "run"
    BY DEF ImportEnds, Works
<1>2. PICK i \in Instance : /\ i = Of(w) /\ w \in Working(i)
                            /\ run[w].message.order \in Order
                            /\ instance[i] \in StoredRow
    BY <1>1, RunInTurn, MessageFields DEF OrderInv, IInv, Typed, Exists
<1>3. PICK row : row = [instance[i] EXCEPT !.current = instance[i].current + 1]
    OBVIOUS
<1>4. row.current = Number(i) + 1
    BY <1>2, <1>3 DEF StoredRow, Row, Number
<1>5. /\ \A v \in Worker : v # w => run'[v] = run[v]
      /\ run'[w].pc = "next" /\ run'[w].message = run[w].message /\ run'[w].copy = row
      /\ UNCHANGED <<instance, starter, queue, started, repeated, faults>>
      /\ \A j \in Instance \ {i} : ended'[j] = ended[j]
      /\ ended'[i] = ended[i] \cup {run[w].message.order}
      /\ ended' \in [Instance -> SUBSET Order]
  <2>1. /\ run' = [run EXCEPT ![w].pc = "next", ![w].copy = row]
        /\ ended' = [ended EXCEPT ![i] = ended[i] \cup {run[w].message.order}]
        /\ UNCHANGED <<instance, starter, queue, started, repeated, faults>>
      BY <1>2, <1>3 DEF ImportEnds
  <2>2. /\ \A v \in Worker : v # w => run'[v] = run[v]
        /\ run'[w].pc = "next" /\ run'[w].message = run[w].message /\ run'[w].copy = row
      BY <2>1 DEF OrderInv, IInv, Typed
  <2>3. QED
      BY <1>2, <2>1, <2>2 DEF OrderInv
<1>6. faults' \in 0 .. MaxFaults /\ faults' >= faults
    BY <1>5, StepsAssumption DEF OrderInv
<1>7. ASSUME i \notin repeated
      PROVE  InTurn(i)'
  <2>1. /\ \A k \in started[i] : k = 0 \/ k - 1 \in ended[i]
        /\ run[w].message.order = Number(i)
      BY <1>1, <1>2, <1>7, RunInTurn
  <2>2. Number(i)' = Number(i)
      BY <1>5 DEF Number
  <2>3. ~At(w, i, "run")' /\ ~At(w, i, "send")'
      BY <1>5 DEF At
  <2>4. run'[w].copy.current = Number(i)' + 1 /\ Number(i)' \in ended'[i]
      BY <1>4, <1>5, <2>1, <2>2
  <2>5. \A k \in started'[i] : k = 0 \/ k - 1 \in ended'[i]
      BY <1>5, <2>1
  <2>6. \A n \in Message : n.instance = i /\ queue'[n] > 0 => queue[n] > 0
      BY <1>5
  <2>7. QED
      BY <1>2, <1>5, <1>7, <2>3, <2>4, <2>5, <2>6, AloneInTurn
<1>8. QED
    BY <1>1, <1>2, <1>5, <1>6, <1>7, WorkerOrder

\* The count is saved.
LEMMA SaveOrder ==
    ASSUME OrderInv, IInv', NEW w \in Worker, NextSave(w)
    PROVE  OrderInv'
<1>1. run[w].pc = "next" /\ run[w].copy.current \in Order
    BY DEF NextSave, GoesOn, HasProcedure
<1>2. PICK i \in Instance : i = Of(w) /\ w \in Working(i) /\ Number(i) \in Order
    BY <1>1, RunInTurn
<1>3. /\ \A v \in Worker : v # w => run'[v] = run[v]
      /\ run'[w].pc = "send" /\ run'[w].message = run[w].message /\ run'[w].copy = run[w].copy
      /\ UNCHANGED <<starter, queue, started, ended, repeated, faults>>
      /\ \A j \in Instance \ {i} : instance'[j] = instance[j]
      /\ instance'[i] = run[w].copy
    BY <1>2, GoesKeeps DEF NextSave, OrderInv, IInv, Typed
<1>4. faults' \in 0 .. MaxFaults /\ faults' >= faults /\ ended' \in [Instance -> SUBSET Order]
    BY <1>3, StepsAssumption DEF OrderInv
<1>5. ASSUME i \notin repeated
      PROVE  InTurn(i)'
  <2>1. /\ \A k \in started[i] : k = 0 \/ k - 1 \in ended[i]
        /\ run[w].copy.current = Number(i) + 1 /\ Number(i) \in ended[i]
      BY <1>1, <1>2, <1>5, RunInTurn
  <2>2. ~At(w, i, "run")' /\ ~At(w, i, "next")'
      BY <1>3 DEF At
  <2>3. Number(i)' = run[w].copy.current
      BY <1>3 DEF Number
  <2>4. Number(i) \in Int /\ run[w].copy.current - 1 = Number(i)
      BY <1>2, <2>1 DEF Order
  <2>5. run'[w].copy.current = Number(i)' /\ Number(i)' - 1 \in ended'[i]
      BY <1>3, <2>1, <2>3, <2>4
  <2>6. \A k \in started'[i] : k = 0 \/ k - 1 \in ended'[i]
      BY <1>3, <2>1
  <2>7. \A n \in Message : n.instance = i /\ queue'[n] > 0 => queue[n] > 0
      BY <1>3
  <2>8. QED
      BY <1>2, <1>3, <1>5, <2>2, <2>5, <2>6, <2>7, AloneInTurn
<1>6. QED
    BY <1>1, <1>2, <1>3, <1>4, <1>5, WorkerOrder

\* The next step is sent.
LEMMA SendOrder ==
    ASSUME OrderInv, IInv', NEW w \in Worker, NextSend(w)
    PROVE  OrderInv'
<1>1. run[w].pc = "send"
    BY DEF NextSend
<1>2. PICK i \in Instance : i = Of(w) /\ w \in Working(i)
    BY <1>1, RunInTurn
<1>3. PICK k \in Order : k = run[w].copy.current
    BY <1>1 DEF OrderInv, IInv, WorkersWellFormed
<1>4. /\ \A v \in Worker : v # w => run'[v] = run[v]
      /\ run'[w].pc = "end" /\ run'[w].message = run[w].message
      /\ UNCHANGED <<instance, starter, ended, repeated, faults>>
      /\ \A j \in Instance \ {i} : started'[j] = started[j]
      /\ started'[i] = started[i] \cup {k}
    BY <1>2, <1>3, GoesKeeps DEF NextSend, StartStep, OrderInv, IInv, Typed
<1>5. faults' \in 0 .. MaxFaults /\ faults' >= faults /\ ended' \in [Instance -> SUBSET Order]
    BY <1>4, StepsAssumption DEF OrderInv
<1>6. PICK m \in Message :
        /\ m.instance = i /\ m.order = k
        /\ queue'[m] = queue[m] + 1
        /\ \A n \in Message \ {m} : queue'[n] = queue[n]
  <2>1. Send("step", i, k)
      BY <1>2, <1>3 DEF NextSend, StartStep
  <2>2. QED
      BY <2>1, SendIsOne DEF OrderInv, IInv
<1>7. ASSUME i \notin repeated
      PROVE  InTurn(i)'
  <2>1. /\ \A j \in started[i] : j = 0 \/ j - 1 \in ended[i]
        /\ k = Number(i) /\ k - 1 \in ended[i]
      BY <1>1, <1>2, <1>3, <1>7, RunInTurn
  <2>2. ~At(w, i, "run")' /\ ~At(w, i, "next")' /\ ~At(w, i, "send")'
      BY <1>4 DEF At
  <2>3. Number(i)' = Number(i)
      BY <1>4 DEF Number
  <2>4. \A n \in Message : n.instance = i /\ queue'[n] > 0 => queue[n] > 0 \/ n.order = Number(i)'
      BY <1>6, <2>1, <2>3
  <2>5. \A j \in started'[i] : j = 0 \/ j - 1 \in ended'[i]
      BY <1>4, <2>1
  <2>6. QED
      BY <1>2, <1>4, <1>7, <2>2, <2>4, <2>5, AloneInTurn
<1>8. QED
    BY <1>1, <1>2, <1>4, <1>5, <1>6, <1>7, WorkerOrder

\* The next step cannot be sent: the instance is saved with the same count.
LEMMA SendFailsOrder ==
    ASSUME OrderInv, IInv', NEW w \in Worker, NextSendFails(w)
    PROVE  OrderInv'
<1>1. run[w].pc = "send"
    BY DEF NextSendFails
<1>2. PICK i \in Instance : i = Of(w) /\ w \in Working(i)
    BY <1>1, RunInTurn
<1>3. /\ \A v \in Worker : v # w => run'[v] = run[v]
      /\ run'[w].pc = "end" /\ run'[w].message = run[w].message
      /\ UNCHANGED <<starter, queue, started, ended, repeated>>
      /\ \A j \in Instance \ {i} : instance'[j] = instance[j]
    BY <1>2, GoesKeeps DEF NextSendFails, OrderInv, IInv, Typed
<1>4. faults' \in 0 .. MaxFaults /\ faults' >= faults /\ ended' \in [Instance -> SUBSET Order]
    BY <1>3, StepsAssumption DEF NextSendFails, FailureOf, Fault, OrderInv
<1>5. ASSUME i \notin repeated
      PROVE  InTurn(i)'
  <2>1. \A k \in started[i] : k = 0 \/ k - 1 \in ended[i]
      BY <1>1, <1>2, <1>5, RunInTurn
  <2>2. ~At(w, i, "run")' /\ ~At(w, i, "next")' /\ ~At(w, i, "send")'
      BY <1>3 DEF At
  <2>3. QED
      BY <1>2, <1>3, <1>5, <2>1, <2>2, AloneInTurn
<1>6. QED
    BY <1>1, <1>2, <1>3, <1>4, <1>5, WorkerOrder

\* A worker takes a message: it was one task of its instance and stays one.
LEMMA TakeOrder ==
    ASSUME OrderInv, IInv', NEW w \in Worker, Take(w)
    PROVE  OrderInv'
<1>1. PICK m \in Message :
        /\ queue[m] > 0
        /\ queue' = [queue EXCEPT ![m] = @ - 1]
        /\ run' = [run EXCEPT ![w] = [pc |-> "run", message |-> m, copy |-> NoRow]]
    BY DEF Take
<1>2. PICK i \in Instance : i = m.instance
    BY MessageFields
<1>3. /\ run[w].pc = "idle"
      /\ \A v \in Worker : v # w => run'[v] = run[v]
      /\ run'[w].pc = "run" /\ run'[w].message = m
      /\ UNCHANGED <<instance, starter, started, ended, repeated, faults>>
      /\ queue'[m] = queue[m] - 1 /\ \A n \in Message \ {m} : queue'[n] = queue[n]
      /\ \A n \in Message : queue'[n] > 0 => queue[n] > 0
    BY <1>1 DEF Take, OrderInv, IInv, Typed, Idle
<1>4. faults' \in 0 .. MaxFaults /\ faults' >= faults /\ ended' \in [Instance -> SUBSET Order]
    BY <1>3, StepsAssumption DEF OrderInv
<1>5. PICK x : /\ x \in Queued(i) /\ Queued(i)' = Queued(i) \ {x}
               /\ \A j \in Instance \ {i} : Queued(j)' = Queued(j)
    BY <1>1, <1>2, <1>3, QueueShrinks DEF OrderInv, IInv
<1>6. /\ Working(i)' = Working(i) \cup {w}
      /\ \A j \in Instance \ {i} : Working(j)' = Working(j)
    BY <1>2, <1>3 DEF Working, Of
<1>7. /\ IsFiniteSet(Queued(i)) /\ IsFiniteSet(Working(i))
      /\ Tasks(i) = Cardinality(Queued(i)) + Cardinality(Working(i)) /\ Tasks(i) \in Nat
    BY CountTypes
<1>8. /\ IsFiniteSet(Queued(i)') /\ IsFiniteSet(Working(i)')
      /\ Cardinality(Queued(i)') + Cardinality(Working(i)') <= Tasks(i)
  <2>1. /\ IsFiniteSet(Working(i) \cup {w}) /\ IsFiniteSet(Queued(i) \ {x})
        /\ Cardinality(Working(i) \cup {w}) + Cardinality(Queued(i) \ {x})
              <= Cardinality(Working(i)) + Cardinality(Queued(i))
      BY <1>5, <1>7, TradeOne, Zenon
  <2>2. /\ Cardinality(Queued(i)) \in Nat /\ Cardinality(Working(i)) \in Nat
        /\ Cardinality(Working(i) \cup {w}) \in Nat /\ Cardinality(Queued(i) \ {x}) \in Nat
      BY <1>7, <2>1, FS_CardinalityType
  <2>3. Cardinality(Queued(i) \ {x}) + Cardinality(Working(i) \cup {w}) <= Tasks(i)
      BY <1>7, <2>1, <2>2
  <2>4. QED
      BY <1>5, <1>6, <2>1, <2>3
<1>9. PICK n \in Nat : n <= Tasks(i) /\ Tasks(i)' = n
  <2>1. Cardinality(Queued(i)') \in Nat /\ Cardinality(Working(i)') \in Nat
      BY <1>8, FS_CardinalityType
  <2>2. \A a, b \in Nat : a + b \in Nat
      OBVIOUS
  <2>3. Cardinality(Queued(i)') + Cardinality(Working(i)') \in Nat
      BY <2>1, <2>2, Zenon
  <2>4. QED
      BY <1>8, <2>3, Zenon DEF Tasks
<1>10. Bounded(i)'
    BY <1>3, <1>4, <1>9, FewerTasks
<1>11. ASSUME i \notin repeated
       PROVE  InTurn(i)'
  <2>1. InTurn(i)
      BY <1>11 DEF OrderInv
  <2>2. Number(i)' = Number(i) /\ m.order = Number(i)
      BY <1>1, <1>2, <1>3, <2>1 DEF InTurn, Number
  <2>3. Working(i) = {}
      BY <1>1, <1>2, <1>11, MessageIsAlone
  <2>4. \A v \in Worker : /\ At(v, i, "run")' => v = w
                          /\ ~At(v, i, "next")' /\ ~At(v, i, "send")'
      BY <1>3, <2>3 DEF At, Of, Working
  <2>5. QED
      BY <1>3, <2>1, <2>2, <2>4 DEF InTurn
<1>12. \A j \in Instance \ {i} : \A v \in Worker :
          At(v, j, "run")' \/ At(v, j, "next")' \/ At(v, j, "send")' => run'[v] = run[v]
    BY <1>2, <1>3 DEF At, Of
<1>13. QED
    BY <1>3, <1>4, <1>5, <1>6, <1>8, <1>10, <1>11, <1>12, OrderStep

\* A redelivery is one more task and one more fault.
LEMMA RedeliverOrder ==
    ASSUME OrderInv, IInv', NEW w \in Worker, Redeliver(w)
    PROVE  OrderInv'
<1>1. PICK i \in Instance : /\ i = Of(w) /\ starter[i] = "over"
                            /\ run[w].message \in Message
                            /\ run[w].message.order \in Order
    BY MessageFields DEF Redeliver, OrderInv, IInv, WorkersWellFormed
<1>2. /\ UNCHANGED <<instance, starter, run, started, ended>>
      /\ repeated' = repeated \cup {i}
      /\ faults < MaxFaults /\ faults' = faults + 1
    BY <1>1 DEF Redeliver, Fault
<1>3. faults' \in 0 .. MaxFaults /\ faults' >= faults /\ ended' \in [Instance -> SUBSET Order]
    BY <1>2, StepsAssumption DEF OrderInv
<1>4. PICK m \in Message :
        /\ m.instance = i
        /\ queue'[m] = queue[m] + 1
        /\ \A n \in Message \ {m} : queue'[n] = queue[n]
  <2>1. Send(run[w].message.kind, i, run[w].message.order)
      BY <1>1 DEF Redeliver
  <2>2. run[w].message.kind \in {"step", "json", "import"}
      BY <1>1 DEF Message
  <2>3. QED
      BY <1>1, <2>1, <2>2, SendIsOne DEF OrderInv, IInv
<1>5. PICK x : /\ Queued(i)' = Queued(i) \cup {x}
               /\ \A j \in Instance \ {i} : Queued(j)' = Queued(j)
    BY <1>4, QueueGrows DEF OrderInv, IInv
<1>6. \A j \in Instance : Working(j)' = Working(j)
    BY <1>2 DEF Working, Of
<1>7. /\ IsFiniteSet(Queued(i)) /\ IsFiniteSet(Working(i)) /\ Cardinality(Working(i)) \in Nat
      /\ Cardinality(Queued(i)) + Cardinality(Working(i)) <= 1 + faults /\ faults \in Nat
    BY CountTypes DEF Bounded
<1>8. /\ IsFiniteSet(Queued(i) \cup {x})
      /\ Cardinality(Queued(i)) \in Nat /\ Cardinality(Queued(i) \cup {x}) \in Nat
      /\ Cardinality(Queued(i) \cup {x}) <= Cardinality(Queued(i)) + 1
    BY <1>7, AddOne, Zenon
<1>9. Cardinality(Queued(i) \cup {x}) + Cardinality(Working(i)) <= 1 + (faults + 1)
    BY <1>7, <1>8
<1>10. Tasks(i)' <= 1 + faults'
    BY <1>2, <1>5, <1>6, <1>9 DEF Tasks
<1>11. Bounded(i)'
    BY <1>1, <1>2, <1>10 DEF Bounded
<1>12. IsFiniteSet(Queued(i)') /\ IsFiniteSet(Working(i)')
    BY <1>5, <1>6, <1>7, <1>8
<1>13. \A j \in Instance \ {i} : \A n \in Message : n.instance = j /\ queue'[n] > 0 => queue[n] > 0
    BY <1>4
<1>14. QED
    BY <1>2, <1>3, <1>5, <1>6, <1>11, <1>12, <1>13, OrderStep

LEMMA StepOrder == OrderInv /\ [Next]_vars => OrderInv'
<1> SUFFICES ASSUME OrderInv, [Next]_vars PROVE OrderInv'
    OBVIOUS
<1>1. IInv'
    BY StepInvariant DEF OrderInv
<1>2. CASE UNCHANGED vars
  <2>1. \A i \in Instance : /\ Queued(i)' = Queued(i) /\ Working(i)' = Working(i)
                            /\ InTurn(i) => InTurn(i)'
      BY <1>2 DEF vars, Queued, Working, Of, InTurn, At, Number
  <2>2. \A i \in Instance : Tasks(i)' = Tasks(i)
      BY <2>1 DEF Tasks
  <2>3. Counted'
      BY <1>2, <2>1, <2>2 DEF vars, Counted, Bounded, OrderInv
  <2>4. QED
      BY <1>1, <1>2, <2>1, <2>3 DEF vars, OrderInv
<1>3. ASSUME NEW i \in Instance,
             \/ \E s \in Schedule : ProcessCreate(i, s)
             \/ Starts(i) \/ ProcessSendFails(i) \/ ProcessLost(i)
      PROVE  OrderInv'
    BY <1>1, <1>3, ProcessOrder, ProcessSendOrder DEF Starts
<1>4. ASSUME NEW w \in Worker,
             WorkerRuns(w) \/ Redeliver(w) \/ LoseChild(w) \/ Fails(w) \/ NextSendFails(w)
      PROVE  OrderInv'
    BY <1>1, <1>4, TakeOrder, AcknowledgeOrder, DataOrder, EndOrder, ImportOrder, SaveOrder,
       SendOrder, RedeliverOrder, SendFailsOrder DEF WorkerRuns
<1>5. QED
    BY <1>2, <1>3, <1>4 DEF Next

LEMMA SpecOrder == Spec => []OrderInv
BY InitOrder, StepOrder, PTL DEF Spec

(***************************************************************************)
(* Without a redelivery the steps of an instance come one after another,   *)
(* for any number of instances, steps and workers: one message or one run  *)
(* belongs to it, and a step is sent when the import of the one before it  *)
(* has called run_next_procedure.                                          *)
(***************************************************************************)
THEOREM StepsStayInOrder == Spec => []StepsInOrder
<1>1. ASSUME OrderInv, NEW i \in Instance \ repeated
      PROVE  /\ \A k \in started[i] : k = 0 \/ k - 1 \in ended[i]
             /\ \A m, n \in Waiting(i) : m = n /\ queue[m] = 1
             /\ \A v, w \in Working(i) : v = w
             /\ Waiting(i) = {} \/ Working(i) = {}
  <2>1. InTurn(i)
      BY <1>1 DEF OrderInv
  <2>2. \A m \in Waiting(i) : /\ m \in Message /\ m.instance = i /\ queue[m] > 0
      BY DEF Waiting
  <2>3. \A m, n \in Waiting(i) : m = n /\ queue[m] = 1 /\ Working(i) = {}
      BY <1>1, <2>2, MessageIsAlone
  <2>4. \A v, w \in Working(i) : v = w
      BY <1>1, RunIsAlone
  <2>5. QED
      BY <2>1, <2>3, <2>4 DEF InTurn
<1>2. OrderInv => StepsInOrder
    BY <1>1 DEF StepsInOrder
<1>3. QED
    BY <1>2, SpecOrder, PTL

-----------------------------------------------------------------------------
(* Types *)

\* A message waits no more often than its instance has tasks.
LEMMA QueueIsBounded ==
    ASSUME OrderInv, NEW m \in Message
    PROVE  queue[m] \in 0 .. 1 + MaxFaults
<1>1. PICK i \in Instance : i = m.instance
    BY MessageFields
<1>2. PICK q \in Nat : q = queue[m]
    BY DEF OrderInv, IInv, Typed
<1>3. /\ IsFiniteSet(Queued(i)) /\ Cardinality(Queued(i)) \in Nat /\ Cardinality(Working(i)) \in Nat
      /\ Cardinality(Queued(i)) + Cardinality(Working(i)) <= 1 + faults
      /\ faults \in Nat /\ faults <= MaxFaults
    BY CountTypes, StepsAssumption DEF Bounded, OrderInv
<1>4. /\ IsFiniteSet(1 .. q) /\ Cardinality(1 .. q) = q
  <2>1. 1 \in Int /\ q \in Int
      BY <1>2
  <2>2. /\ IsFiniteSet(1 .. q)
        /\ Cardinality(1 .. q) = IF 1 > q THEN 0 ELSE q - 1 + 1
      BY <2>1, FS_Interval, Zenon
  <2>3. CASE 1 > q
      BY <1>2, <2>2, <2>3
  <2>4. CASE ~(1 > q)
      BY <1>2, <2>2, <2>4
  <2>5. QED
      BY <2>3, <2>4
<1>5. /\ IsFiniteSet({m}) /\ Cardinality({m}) = 1
    BY FS_Singleton
<1>6. Cardinality({m} \X (1 .. q)) = q
  <2>1. Cardinality({m} \X (1 .. q)) = Cardinality({m}) * Cardinality(1 .. q)
      BY <1>4, <1>5, FS_Product
  <2>2. QED
    <3>1. Cardinality({m}) * Cardinality(1 .. q) = 1 * q
        BY <1>4, <1>5
    <3>2. QED
        BY <2>1, <3>1
<1>7. {m} \X (1 .. q) \subseteq Queued(i)
    BY <1>1, <1>2 DEF Queued
<1>8. Cardinality({m} \X (1 .. q)) <= Cardinality(Queued(i))
    BY <1>3, <1>7, FS_Subset
<1>9. q <= Cardinality(Queued(i))
    BY <1>6, <1>8
<1>10. q <= 1 + MaxFaults
    BY <1>3, <1>9, StepsAssumption
<1>11. QED
    BY <1>2, <1>10, StepsAssumption

(***************************************************************************)
(* Type correctness.  A message is queued at most once more than there     *)
(* were redeliveries, and the count that is saved or sent is that of a     *)
(* step.                                                                   *)
(***************************************************************************)
THEOREM TypeCorrect == Spec => []TypeOK
<1>1. ASSUME OrderInv
      PROVE  TypeOK
  <2>1. Typed
      BY <1>1 DEF OrderInv, IInv
  <2>2. queue \in [Message -> 0 .. 1 + MaxFaults]
      BY <1>1, <2>1, QueueIsBounded DEF Typed
  <2>3. QED
      BY <1>1, <2>1, <2>2 DEF TypeOK, Typed, StoredRow, OrderInv
<1>2. QED
    BY <1>1, SpecOrder, PTL
=============================================================================
