-------------------- MODULE CeleryTaskLifecycle_proofs --------------------
(***************************************************************************)
(* Proofs about CeleryTaskLifecycle: type correctness, every PENDING row   *)
(* has an owner, and the last hook has the last word.                      *)
(***************************************************************************)
EXTENDS CeleryTaskLifecycle, TLAPS

\* A worker is idle or works on a row; only a loaded body object is saved; the
\* child that is to be terminated has not run its hook.
RunsWellFormed ==
    \A w \in Worker :
        /\ \/ run[w] = Idle
           \/ /\ run[w].pc # "idle"
              /\ run[w].task \in Task
              /\ run[w].pc = "body" => run[w].body \in Row
        /\ w \in doomed => Executing(w)

AdminWellFormed == admin = NoAdmin \/ (admin.task \in Task /\ admin.copy \in Row)

\* A delivery of t is being executed: its hook has not run yet.
BeingExecuted(t) == \E w \in Worker : run[w].task = t /\ Executing(w)

(***************************************************************************)
(* The two properties are not inductive: a delivery that only waits for    *)
(* its acknowledgement owns the row no more, and the last hook's record    *)
(* must already hold while the message of another delivery waits.          *)
(***************************************************************************)
PendingHeld ==
    \A t \in Task :
        Exists(t) /\ db[t].status = "P"
            => t \in queue \/ t \in unsent \/ t \in unhooked \/ BeingExecuted(t)

OutcomeKept ==
    \A t \in Task :
        Exists(t) /\ verdict[t] # "none" /\ ~BeingExecuted(t)
            => db[t].status = verdict[t] /\ db[t].finished

WellFormed == TypeOK /\ RunsWellFormed /\ AdminWellFormed

IInv == WellFormed /\ PendingHeld /\ OutcomeKept

-----------------------------------------------------------------------------
(* A save changes the row of its task, and may delete one row. *)

LEMMA SavedType ==
    ASSUME NEW tbl \in [Task -> Copy], NEW t \in Task, NEW copy \in Row
    PROVE  /\ Saved(tbl, t, copy) \in [Task -> Copy]
           /\ \A u \in Task : \/ Saved(tbl, t, copy)[u] = NoRow
                              \/ Saved(tbl, t, copy)[u] = IF u = t THEN copy ELSE tbl[u]
<1> DEFINE new == [tbl EXCEPT ![t] = copy]
<1>1. new \in [Task -> Copy] /\ \A u \in Task : new[u] = IF u = t THEN copy ELSE tbl[u]
    BY DEF Copy
<1> HIDE DEF new
<1>2. /\ Trimmed(new) \in [Task -> Copy]
      /\ \A u \in Task : Trimmed(new)[u] = NoRow \/ Trimmed(new)[u] = new[u]
    BY <1>1 DEF Trimmed, Copy
<1>3. QED
    BY <1>1, <1>2 DEF Saved, new

LEMMA StampedType ==
    ASSUME NEW t \in Task, NEW copy \in Row
    PROVE  Stamped(t, copy) \in Row
<1>1. (copy.expiry \/ t \in Ttl) \in BOOLEAN
    BY DEF Row
<1>2. \A b \in BOOLEAN : [copy EXCEPT !.expiry = b] \in Row
    BY DEF Row
<1>3. QED
    BY <1>1, <1>2 DEF Stamped

LEMMA IdleFacts ==
    /\ Idle \in Run
    /\ Idle.pc = "idle"
    /\ Idle.held = FALSE
    /\ \A w \in Worker : run[w] = Idle => ~Executing(w)
BY NoTaskAssumption DEF Idle, Run, Copy, Executing

LEMMA ForgetType ==
    ASSUME verdict \in [Task -> {"none", "D", "E"}], NEW S
    PROVE  /\ Forget(S) \in [Task -> {"none", "D", "E"}]
           /\ \A t \in Task : Forget(S)[t] = IF t \in S THEN "none" ELSE verdict[t]
BY DEF Forget

THEOREM InitInvariant == Init => IInv
<1> SUFFICES ASSUME Init PROVE IInv
    OBVIOUS
<1>1. TypeOK
    BY IdleFacts, SizesAssumption
       DEF Init, TypeOK, Copy, NoAdmin, NoSweep, Status
<1>2. RunsWellFormed /\ AdminWellFormed
    BY DEF Init, RunsWellFormed, AdminWellFormed, Executing
<1>3. PendingHeld /\ OutcomeKept
    BY DEF Init, PendingHeld, OutcomeKept, Exists
<1>4. QED
    BY <1>1, <1>2, <1>3 DEF IInv, WellFormed

-----------------------------------------------------------------------------
(* Creation. *)

LEMMA CreateStep ==
    ASSUME IInv, NEW s \in {"I", "P"}, Create(s)
    PROVE  IInv'
<1> DEFINE t == created + 1
<1>1. t \in Task /\ NewRow(s) \in Row /\ NewRow(s).status = s
    BY SizesAssumption DEF IInv, WellFormed, TypeOK, Create, Task, NewRow, Row, Status
<1>2. db' = Saved(db, t, NewRow(s))
    BY DEF Create
<1>3. /\ db' \in [Task -> Copy]
      /\ \A u \in Task : db'[u] = NoRow \/ db'[u] = IF u = t THEN NewRow(s) ELSE db[u]
    BY <1>1, <1>2, SavedType DEF IInv, WellFormed, TypeOK
<1>4. /\ verdict' \in [Task -> {"none", "D", "E"}]
      /\ \A u \in Task : verdict'[u] = IF u = t THEN "none" ELSE verdict[u]
    BY <1>1, ForgetType DEF IInv, WellFormed, TypeOK, Create
<1> HIDE DEF t
<1>5. UNCHANGED <<queue, run, unhooked>> /\ unsent' = unsent \cup {t}
    BY DEF Create, t
<1>a. created' \in 0 .. MaxTask
    BY SizesAssumption DEF IInv, WellFormed, TypeOK, Create
<1>6. TypeOK'
    BY <1>1, <1>3, <1>4, <1>a DEF IInv, WellFormed, TypeOK, Create, t
<1>7. RunsWellFormed' /\ AdminWellFormed'
    BY DEF IInv, WellFormed, RunsWellFormed, AdminWellFormed, Executing, Create
<1>8. PendingHeld'
    BY <1>3, <1>5 DEF IInv, PendingHeld, Exists, BeingExecuted, Executing
<1>9. OutcomeKept'
    BY <1>3, <1>4, <1>5 DEF IInv, OutcomeKept, Exists, BeingExecuted, Executing
<1>10. QED
    BY <1>6, <1>7, <1>8, <1>9 DEF IInv, WellFormed

LEMMA SendStep ==
    ASSUME IInv, NEW t \in Task, Send(t)
    PROVE  IInv'
<1>1. TypeOK'
    BY DEF IInv, WellFormed, TypeOK, Send
<1>2. RunsWellFormed' /\ AdminWellFormed'
    BY DEF IInv, WellFormed, RunsWellFormed, AdminWellFormed, Executing, Send
<1>3. PendingHeld' /\ OutcomeKept'
    BY DEF IInv, PendingHeld, OutcomeKept, Exists, BeingExecuted, Executing, Send
<1>4. QED
    BY <1>1, <1>2, <1>3 DEF IInv, WellFormed

-----------------------------------------------------------------------------
(* The worker. *)

LEMMA BeforeStartStep ==
    ASSUME IInv, NEW w \in Worker, NEW t \in Task, BeforeStart(w, t)
    PROVE  IInv'
<1> DEFINE copy == [db[t] EXCEPT !.status = "P", !.cid = TRUE]
           begun == [Idle EXCEPT !.pc = "start", !.task = t, !.held = TRUE]
<1>1. /\ verdict' \in [Task -> {"none", "D", "E"}]
      /\ \A u \in Task : verdict'[u] = IF u = t THEN "none" ELSE verdict[u]
    BY ForgetType DEF IInv, WellFormed, TypeOK, BeforeStart
<1>2. PICK r \in Run :
        /\ r.pc = "start" /\ r.task = t
        /\ run' = [run EXCEPT ![w] = r]
        /\ db' \in [Task -> Copy]
        /\ \A u \in Task : db'[u] = NoRow \/ u = t \/ db'[u] = db[u]
  <2>1. CASE Exists(t)
    <3>0. db[t] \in Row
        BY <2>1 DEF IInv, WellFormed, TypeOK, Copy, Exists
    <3>a. copy \in Row
        BY <3>0 DEF Row, Status
    <3>1. copy \in Row /\ Stamped(t, copy) \in Row
        BY <3>a, StampedType
    <3>2. /\ db' = Saved(db, t, copy)
          /\ run' = [run EXCEPT ![w] = [begun EXCEPT !.hook = Stamped(t, copy)]]
        BY <2>1 DEF BeforeStart
    <3>3. [begun EXCEPT !.hook = Stamped(t, copy)] \in Run
        BY <3>1 DEF Idle, Run, Copy
    <3>4. /\ db' \in [Task -> Copy]
          /\ \A u \in Task : db'[u] = NoRow \/ db'[u] = IF u = t THEN copy ELSE db[u]
        BY <3>1, <3>2, SavedType DEF IInv, WellFormed, TypeOK
    <3>5. /\ [begun EXCEPT !.hook = Stamped(t, copy)].pc = "start"
          /\ [begun EXCEPT !.hook = Stamped(t, copy)].task = t
        BY DEF Idle
    <3>6. QED
        BY <3>2, <3>3, <3>4, <3>5
  <2>2. CASE ~Exists(t)
    <3>1. db' = db /\ run' = [run EXCEPT ![w] = begun]
        BY <2>2 DEF BeforeStart
    <3>2. begun \in Run /\ begun.pc = "start" /\ begun.task = t
        BY DEF Idle, Run, Copy
    <3>3. QED
        BY <3>1, <3>2 DEF IInv, WellFormed, TypeOK
  <2>3. QED
    BY <2>1, <2>2
<1>3. run[w] = Idle /\ queue' = queue \ {t} /\ UNCHANGED <<unsent, unhooked>>
    BY DEF BeforeStart
<1>4. /\ run' \in [Worker -> Run]
      /\ \A v \in Worker : run'[v] = IF v = w THEN r ELSE run[v]
    BY <1>2 DEF IInv, WellFormed, TypeOK
<1>5. TypeOK'
    BY <1>1, <1>2, <1>3, <1>4 DEF IInv, WellFormed, TypeOK, BeforeStart
<1>6. RunsWellFormed' /\ AdminWellFormed'
    BY <1>2, <1>3, <1>4, IdleFacts DEF IInv, WellFormed, RunsWellFormed, AdminWellFormed, Executing, BeforeStart
<1>7. \A u \in Task : BeingExecuted(u)' <=> u = t \/ BeingExecuted(u)
    BY <1>2, <1>3, <1>4, IdleFacts DEF BeingExecuted, Executing, Idle
<1>8. PendingHeld'
    BY <1>2, <1>3, <1>7 DEF IInv, PendingHeld, Exists
<1>9. OutcomeKept'
    BY <1>1, <1>2, <1>7 DEF IInv, OutcomeKept, Exists
<1>10. QED
    BY <1>5, <1>6, <1>8, <1>9 DEF IInv, WellFormed

LEMMA DiscardStep ==
    ASSUME IInv, NEW w \in Worker, NEW t \in Task, Discard(w, t)
    PROVE  IInv'
<1>1. TypeOK'
    BY DEF IInv, WellFormed, TypeOK, Discard
<1>2. RunsWellFormed' /\ AdminWellFormed'
    BY DEF IInv, WellFormed, RunsWellFormed, AdminWellFormed, Executing, Discard
<1>3. PendingHeld' /\ OutcomeKept'
    BY DEF IInv, PendingHeld, OutcomeKept, Exists, BeingExecuted, Executing, Discard
<1>4. QED
    BY <1>1, <1>2, <1>3 DEF IInv, WellFormed

\* What every step of a body does: its delivery stays in execution, and the
\* table changes at most by a save of its row.
LEMMA BodyStep ==
    ASSUME IInv, NEW w \in Worker, Executing(w),
           NEW r \in Run, run' = [run EXCEPT ![w] = r],
           r.task = run[w].task, r.pc \in {"body", "returned", "raised"},
           r.pc = "body" => r.body \in Row,
           \/ db' = db
           \/ \E copy \in Row : db' = Saved(db, run[w].task, copy),
           BodyUnchanged
    PROVE  IInv'
<1> DEFINE t == run[w].task
<1>1. t \in Task
    BY IdleFacts DEF IInv, WellFormed, RunsWellFormed
<1> HIDE DEF t
<1>2. /\ db' \in [Task -> Copy]
      /\ \A u \in Task : db'[u] = NoRow \/ u = t \/ db'[u] = db[u]
  <2>1. CASE db' = db
    BY <2>1 DEF IInv, WellFormed, TypeOK
  <2>2. CASE \E copy \in Row : db' = Saved(db, t, copy)
    <3>1. PICK copy \in Row : db' = Saved(db, t, copy)
        BY <2>2
    <3>2. db \in [Task -> Copy]
        BY DEF IInv, WellFormed, TypeOK
    <3>3. /\ db' \in [Task -> Copy]
          /\ \A u \in Task : db'[u] = NoRow \/ db'[u] = IF u = t THEN copy ELSE db[u]
        BY <3>1, <3>2, <1>1, SavedType
    <3>4. QED
        BY <3>3
  <2>3. QED
    BY <2>1, <2>2 DEF t
<1>3. /\ run' \in [Worker -> Run]
      /\ \A v \in Worker : run'[v] = IF v = w THEN r ELSE run[v]
    BY DEF IInv, WellFormed, TypeOK
<1>4. TypeOK'
    BY <1>2, <1>3 DEF IInv, WellFormed, TypeOK, BodyUnchanged
<1>5. RunsWellFormed' /\ AdminWellFormed'
    BY <1>1, <1>3 DEF IInv, WellFormed, RunsWellFormed, AdminWellFormed, Executing, BodyUnchanged, t
<1>6. /\ BeingExecuted(t) /\ BeingExecuted(t)'
      /\ \A u \in Task : BeingExecuted(u)' <=> BeingExecuted(u)
    BY <1>3 DEF BeingExecuted, Executing, t
<1>7. PendingHeld' /\ OutcomeKept'
    BY <1>2, <1>6 DEF IInv, PendingHeld, OutcomeKept, Exists, BodyUnchanged
<1>8. QED
    BY <1>4, <1>5, <1>7 DEF IInv, WellFormed

LEMMA BodyBeginStep ==
    ASSUME IInv, NEW w \in Worker, BodyBegin(w)
    PROVE  IInv'
<1> USE DEF BodyBegin
<1>0. run[w] \in Run /\ (run[w] # Idle => run[w].task \in Task)
    BY DEF IInv, WellFormed, TypeOK, RunsWellFormed
<1>1. CASE \E how \in {"returned", "raised"} : BodyNoRow(w, how)
  <2>1. PICK how \in {"returned", "raised"} : BodyNoRow(w, how)
    BY <1>1
  <2> DEFINE r == [run[w] EXCEPT !.pc = how]
  <2>2. /\ r \in Run /\ r.task = run[w].task /\ r.pc = how
        /\ run' = [run EXCEPT ![w] = r] /\ Executing(w)
        /\ db' = db /\ BodyUnchanged
    BY <1>0, <2>1 DEF BodyNoRow, Moves, Run, Executing
  <2> HIDE DEF r
  <2>3. QED
    BY <2>2, BodyStep
<1>2. CASE \E marks \in BOOLEAN : BodyLoad(w, marks)
  <2>1. PICK marks \in BOOLEAN : BodyLoad(w, marks)
    BY <1>2
  <2> DEFINE t == run[w].task
             copy == [db[t] EXCEPT !.status = "P", !.cid = TRUE]
             loaded == IF marks THEN Stamped(t, copy) ELSE db[t]
             r == [run[w] EXCEPT !.pc = "body", !.body = loaded]
  <2>2. t \in Task /\ db[t] \in Row
    BY <1>0, <2>1, IdleFacts DEF IInv, WellFormed, TypeOK, Copy, BodyLoad, Exists
  <2>3. copy \in Row
    BY <2>2 DEF Row, Status
  <2>4. loaded \in Row
    BY <2>2, <2>3, StampedType
  <2>5. /\ r \in Run /\ r.task = t /\ r.pc = "body" /\ r.body = loaded
    BY <1>0, <2>4 DEF Run, Copy
  <2>6. run' = [run EXCEPT ![w] = r] /\ Executing(w) /\ BodyUnchanged
    BY <2>1 DEF BodyLoad, Executing
  <2>7. db' = db \/ db' = Saved(db, t, copy)
    BY <2>1 DEF BodyLoad
  <2> HIDE DEF r, loaded, copy
  <2>8. QED
    BY <2>3, <2>4, <2>5, <2>6, <2>7, BodyStep
<1>3. QED
    BY <1>1, <1>2

\* A body that saves the copy and goes on at pc with the stamped copy.
LEMMA BodySaveStep ==
    ASSUME IInv, NEW w \in Worker, run[w].pc = "body",
           NEW copy \in Row, NEW pc \in {"body", "returned", "raised"},
           db' = Saved(db, run[w].task, copy),
           run' = [run EXCEPT ![w] = [run[w] EXCEPT !.pc = pc,
                                                    !.body = Stamped(run[w].task, copy)]],
           BodyUnchanged
    PROVE  IInv'
<1> DEFINE t == run[w].task
           r == [run[w] EXCEPT !.pc = pc, !.body = Stamped(t, copy)]
<1>1. run[w] \in Run /\ t \in Task
    BY IdleFacts DEF IInv, WellFormed, TypeOK, RunsWellFormed
<1>2. Stamped(t, copy) \in Row
    BY <1>1, StampedType
<1>3. r \in Run /\ r.task = t /\ r.pc = pc /\ r.body = Stamped(t, copy)
    BY <1>1, <1>2 DEF Run, Copy
<1>4. Executing(w)
    BY DEF Executing
<1>5. run' = [run EXCEPT ![w] = r]
    OBVIOUS
<1> HIDE DEF r
<1>6. QED
    BY <1>2, <1>3, <1>4, <1>5, BodyStep

LEMMA BodyOnStep ==
    ASSUME IInv, NEW w \in Worker,
           (\E refreshes \in BOOLEAN : BodyProgress(w, refreshes)) \/ BodyFinish(w)
    PROVE  IInv'
<1> DEFINE t == run[w].task
           own == run[w].body
<1>1. /\ run[w].pc = "body" /\ BodyUnchanged
      /\ run[w] \in Run
    BY DEF IInv, WellFormed, TypeOK, BodyProgress, BodyFinish, BodyEnds, BodyDone, BodyError, Moves
<1>2. t \in Task /\ own \in Row
    BY <1>1, IdleFacts DEF IInv, WellFormed, RunsWellFormed
<1>3. ASSUME NEW refreshes \in BOOLEAN, BodyProgress(w, refreshes)
      PROVE  IInv'
  <2> DEFINE copy == IF refreshes THEN db[t] ELSE own
  <2>1. copy \in Row
    BY <1>2, <1>3 DEF BodyProgress, IInv, WellFormed, TypeOK, Copy, Exists
  <2>2. /\ db' = Saved(db, t, copy)
        /\ run' = [run EXCEPT ![w] = [run[w] EXCEPT !.pc = "body", !.body = Stamped(t, copy)]]
    BY <1>1, <1>3 DEF BodyProgress, Run
  <2> HIDE DEF copy
  <2>3. QED
    BY <1>1, <2>1, <2>2, BodySaveStep
<1>4. ASSUME NEW how \in {"returned", "raised"}, BodyEnds(w, how)
      PROVE  IInv'
  <2> DEFINE r == [run[w] EXCEPT !.pc = how]
  <2>1. /\ r \in Run /\ r.task = t /\ r.pc = how
        /\ run' = [run EXCEPT ![w] = r] /\ Executing(w) /\ db' = db
    BY <1>1, <1>4 DEF BodyEnds, Moves, Run, Executing
  <2> HIDE DEF r
  <2>2. QED
    BY <1>1, <2>1, BodyStep
<1>5. ASSUME NEW how \in {"returned", "raised"}, BodyError(w, how)
      PROVE  IInv'
  <2> DEFINE copy == WithStatus(own, "E")
  <2>1. copy \in Row
    BY <1>2 DEF WithStatus, Row, Status
  <2>2. /\ db' = Saved(db, t, copy)
        /\ run' = [run EXCEPT ![w] = [run[w] EXCEPT !.pc = how, !.body = Stamped(t, copy)]]
    BY <1>5 DEF BodyError
  <2> HIDE DEF copy
  <2>3. QED
    BY <1>1, <2>1, <2>2, BodySaveStep
<1>6. ASSUME NEW marks \in BOOLEAN, BodyDone(w, marks)
      PROVE  IInv'
  <2> DEFINE copy == [own EXCEPT !.status = "D", !.finished = @ \/ marks]
  <2>0. (own.finished \/ marks) \in BOOLEAN
    BY <1>2 DEF Row
  <2>1. copy \in Row
    BY <1>2, <2>0 DEF Row, Status
  <2>2. /\ db' = Saved(db, t, copy)
        /\ run' = [run EXCEPT ![w] = [run[w] EXCEPT !.pc = "returned", !.body = Stamped(t, copy)]]
    BY <1>6 DEF BodyDone
  <2> HIDE DEF copy
  <2>3. QED
    BY <1>1, <2>1, <2>2, BodySaveStep
<1>7. QED
    BY <1>3, <1>4, <1>5, <1>6 DEF BodyFinish

LEMMA HookStep ==
    ASSUME IInv, NEW w \in Worker, OnSuccess(w) \/ OnFailure(w)
    PROVE  IInv'
<1> DEFINE t == run[w].task
           done == [Idle EXCEPT !.pc = "ended", !.task = t, !.held = run[w].held]
<1>1. PICK s \in {"D", "E"} : HookEnds(w, s)
    BY DEF OnSuccess, OnFailure
<1>2. run[w] \in Run /\ t \in Task /\ Executing(w)
    BY IdleFacts DEF OnSuccess, OnFailure, Executing, IInv, WellFormed, TypeOK, RunsWellFormed
<1>3. done \in Run /\ done.pc = "ended" /\ done.task = t
    BY <1>2 DEF Idle, Run, Copy
<1>4. /\ run' = [run EXCEPT ![w] = done]
      /\ UNCHANGED <<queue, unsent, created, revoked, admin, sweep, faults>>
      /\ doomed' = doomed \ {w}
    BY <1>1 DEF HookEnds
<1> HIDE DEF done
<1>5. \A v \in Worker : run'[v] = IF v = w THEN done ELSE run[v]
    BY <1>4 DEF IInv, WellFormed, TypeOK
<1>6. /\ db' \in [Task -> Copy]
      /\ unhooked' \subseteq Task
      /\ unhooked \subseteq unhooked'
      /\ verdict' \in [Task -> {"none", "D", "E"}]
      /\ \A u \in Task \ {t} : /\ db'[u] = NoRow \/ db'[u] = db[u]
                               /\ verdict'[u] = verdict[u]
      /\ \/ t \in unhooked' /\ verdict'[t] = "none"
         \/ db'[t] = NoRow
         \/ db'[t].status = s /\ verdict'[t] = s /\ db'[t].finished
  <2>1. CASE run[w].hook = NoRow
    <3>1. db' = db /\ verdict' = Forget({t}) /\ unhooked' = unhooked \cup {t}
        BY <2>1, <1>1 DEF HookEnds, HookWrite
    <3>2. QED
        BY <3>1, <1>2, ForgetType DEF IInv, WellFormed, TypeOK
  <2>2. CASE run[w].hook # NoRow
    <3> DEFINE copy == [run[w].hook EXCEPT !.status = s, !.finished = TRUE]
    <3>1. run[w].hook \in Row
        BY <2>2, <1>2 DEF Run, Copy
    <3>2. copy \in Row /\ copy.status = s /\ copy.finished
        BY <3>1 DEF Row, Status
    <3>3. db' = Saved(db, t, copy) /\ verdict' = [verdict EXCEPT ![t] = s] /\ unhooked' = unhooked
        BY <2>2, <1>1 DEF HookEnds, HookWrite
    <3> HIDE DEF copy
    <3>4. /\ db' \in [Task -> Copy]
          /\ \A u \in Task : db'[u] = NoRow \/ db'[u] = IF u = t THEN copy ELSE db[u]
        BY <3>2, <3>3, <1>2, SavedType DEF IInv, WellFormed, TypeOK
    <3>5. QED
        BY <3>2, <3>3, <3>4, <1>2 DEF IInv, WellFormed, TypeOK
  <2>3. QED
    BY <2>1, <2>2
<1>7. TypeOK'
    BY <1>3, <1>4, <1>6 DEF IInv, WellFormed, TypeOK
<1>8. RunsWellFormed' /\ AdminWellFormed'
    BY <1>2, <1>3, <1>4, <1>5 DEF IInv, WellFormed, RunsWellFormed, AdminWellFormed, Executing
<1>9. \A u \in Task \ {t} : BeingExecuted(u)' <=> BeingExecuted(u)
    BY <1>2, <1>3, <1>5 DEF BeingExecuted, Executing
<1> HIDE DEF t
<1>10. PendingHeld'
    BY <1>2, <1>4, <1>6, <1>9 DEF IInv, PendingHeld, Exists
<1>11. OutcomeKept'
    BY <1>2, <1>6, <1>9 DEF IInv, OutcomeKept, Exists
<1>12. QED
    BY <1>7, <1>8, <1>10, <1>11 DEF IInv, WellFormed

LEMMA AckStep ==
    ASSUME IInv, NEW w \in Worker, Ack(w)
    PROVE  IInv'
<1>1. /\ run' = [run EXCEPT ![w] = Idle]
      /\ \A v \in Worker : run'[v] = IF v = w THEN Idle ELSE run[v]
      /\ ~Executing(w)
    BY DEF Ack, IInv, WellFormed, TypeOK, Executing
<1>2. TypeOK'
    BY <1>1, IdleFacts DEF IInv, WellFormed, TypeOK, Ack
<1>3. RunsWellFormed' /\ AdminWellFormed'
    BY <1>1 DEF IInv, WellFormed, RunsWellFormed, AdminWellFormed, Executing, Ack
<1>4. \A u \in Task : BeingExecuted(u)' <=> BeingExecuted(u)
    BY <1>1, IdleFacts DEF BeingExecuted, Executing
<1>5. PendingHeld' /\ OutcomeKept'
    BY <1>4 DEF IInv, PendingHeld, OutcomeKept, Exists, Ack
<1>6. QED
    BY <1>2, <1>3, <1>5 DEF IInv, WellFormed

-----------------------------------------------------------------------------
(* Faults. *)

\* A worker drops its run; the row stays as it is.
LEMMA RunDropped ==
    ASSUME IInv, NEW w \in Worker, run[w] # Idle,
           run' = [run EXCEPT ![w] = Idle],
           UNCHANGED <<db, unsent, admin>>,
           doomed' = doomed \ {w},
           queue \subseteq queue', unhooked \subseteq unhooked',
           \/ ~Executing(w) /\ verdict' = verdict
           \/ /\ run[w].task \in queue' \cup unhooked'
              /\ verdict' = Forget({run[w].task})
    PROVE  /\ run' \in [Worker -> Run]
           /\ verdict' \in [Task -> {"none", "D", "E"}]
           /\ RunsWellFormed' /\ AdminWellFormed' /\ PendingHeld' /\ OutcomeKept'
<1> DEFINE t == run[w].task
<1>1. t \in Task
    BY DEF IInv, WellFormed, RunsWellFormed
<1>2. /\ run' \in [Worker -> Run]
      /\ \A v \in Worker : run'[v] = IF v = w THEN Idle ELSE run[v]
    BY IdleFacts DEF IInv, WellFormed, TypeOK
<1>3. RunsWellFormed' /\ AdminWellFormed'
    BY <1>2 DEF IInv, WellFormed, RunsWellFormed, AdminWellFormed, Executing
<1>4. CASE ~Executing(w) /\ verdict' = verdict
  <2>1. \A u \in Task : BeingExecuted(u)' <=> BeingExecuted(u)
    BY <1>2, <1>4, IdleFacts DEF BeingExecuted, Executing
  <2>2. PendingHeld' /\ OutcomeKept'
    BY <2>1, <1>4 DEF IInv, PendingHeld, OutcomeKept, Exists
  <2>3. QED
    BY <1>2, <1>3, <1>4, <2>2 DEF IInv, WellFormed, TypeOK
<1>5. CASE t \in queue' \cup unhooked' /\ verdict' = Forget({t})
  <2>1. \A u \in Task \ {t} : BeingExecuted(u)' <=> BeingExecuted(u)
    BY <1>2, IdleFacts DEF BeingExecuted, Executing
  <2>2. /\ verdict' \in [Task -> {"none", "D", "E"}]
        /\ \A u \in Task : verdict'[u] = IF u = t THEN "none" ELSE verdict[u]
    BY <1>5, ForgetType DEF IInv, WellFormed, TypeOK
  <2> HIDE DEF t
  <2>3. PendingHeld' /\ OutcomeKept'
    BY <2>1, <2>2, <1>1, <1>5 DEF IInv, PendingHeld, OutcomeKept, Exists
  <2>4. QED
    BY <1>2, <1>3, <2>2, <2>3
<1>6. QED
    BY <1>4, <1>5

LEMMA FaultsStep ==
    ASSUME IInv, NEW w \in Worker, FaultStep(w)
    PROVE  IInv'
<1> DEFINE t == run[w].task
<1>0. faults \in 0 .. MaxFaults /\ (Fault => faults' \in 0 .. MaxFaults)
    BY SizesAssumption DEF IInv, WellFormed, TypeOK, Fault
<1>1. CASE KillChild(w) \/ (Terminate(w) /\ run[w] # Idle)
  <2>1. /\ run[w] # Idle /\ run' = [run EXCEPT ![w] = Idle]
        /\ UNCHANGED <<db, created, unsent, queue, revoked, admin, sweep>>
        /\ doomed' = doomed \ {w}
        /\ unhooked' = unhooked \cup {t} /\ verdict' = Forget({t})
    BY <1>1, IdleFacts DEF KillChild, Terminate, DropDelivery, Executing
  <2>2. faults' \in 0 .. MaxFaults
    BY <1>0, <1>1 DEF KillChild, Terminate
  <2>3. /\ run' \in [Worker -> Run] /\ verdict' \in [Task -> {"none", "D", "E"}]
        /\ RunsWellFormed' /\ AdminWellFormed' /\ PendingHeld' /\ OutcomeKept'
    BY <2>1, RunDropped
  <2>4. t \in Task
    BY <2>1 DEF IInv, WellFormed, RunsWellFormed
  <2>5. TypeOK'
    BY <2>1, <2>2, <2>3, <2>4 DEF IInv, WellFormed, TypeOK
  <2>6. QED
    BY <2>3, <2>5 DEF IInv, WellFormed
<1>2. CASE LoseWorker(w)
  <2>1. /\ run[w] # Idle /\ run' = [run EXCEPT ![w] = Idle]
        /\ UNCHANGED <<db, created, unsent, admin, sweep>>
        /\ doomed' = doomed \ {w}
        /\ queue' = IF run[w].held THEN queue \cup {t} ELSE queue
        /\ unhooked' = IF run[w].held \/ ~Executing(w) THEN unhooked ELSE unhooked \cup {t}
        /\ verdict' = IF Executing(w) THEN Forget({t}) ELSE verdict
    BY <1>2 DEF LoseWorker
  <2>2. faults' \in 0 .. MaxFaults
    BY <1>0, <1>2 DEF LoseWorker
  <2>3. \/ ~Executing(w) /\ verdict' = verdict
        \/ t \in queue' \cup unhooked' /\ verdict' = Forget({t})
    BY <2>1
  <2>4. /\ run' \in [Worker -> Run] /\ verdict' \in [Task -> {"none", "D", "E"}]
        /\ RunsWellFormed' /\ AdminWellFormed' /\ PendingHeld' /\ OutcomeKept'
    BY <2>1, <2>3, RunDropped
  <2>5. t \in Task
    BY <2>1 DEF IInv, WellFormed, RunsWellFormed
  <2>6. revoked' \in [Worker -> SUBSET Task]
    BY <1>2 DEF LoseWorker, IInv, WellFormed, TypeOK
  <2>7. TypeOK'
    BY <2>1, <2>2, <2>4, <2>5, <2>6 DEF IInv, WellFormed, TypeOK
  <2>8. QED
    BY <2>4, <2>7 DEF IInv, WellFormed
<1>3. CASE LoseConnection(w)
  <2> DEFINE r == [run[w] EXCEPT !.held = FALSE]
  <2>1. run[w] \in Run /\ t \in Task /\ run[w] # Idle
    BY <1>3, IdleFacts DEF LoseConnection, IInv, WellFormed, TypeOK, RunsWellFormed
  <2>2. /\ r \in Run /\ r.pc = run[w].pc /\ r.task = t /\ r.body = run[w].body
        /\ run' = [run EXCEPT ![w] = r]
        /\ queue' = queue \cup {t}
    BY <1>3, <2>1 DEF LoseConnection, Run
  <2> HIDE DEF r
  <2>3. \A v \in Worker : run'[v] = IF v = w THEN r ELSE run[v]
    BY <2>2 DEF IInv, WellFormed, TypeOK
  <2>4. faults' \in 0 .. MaxFaults
    BY <1>0, <1>3 DEF LoseConnection
  <2>5. TypeOK'
    <3>1. UNCHANGED <<db, created, unsent, revoked, doomed, admin, sweep, unhooked, verdict>>
      BY <1>3 DEF LoseConnection
    <3>2. TypeOK
      BY DEF IInv, WellFormed
    <3>3. run' \in [Worker -> Run] /\ queue' \subseteq Task
      BY <2>1, <2>2, <3>2 DEF TypeOK
    <3>4. QED
      BY <2>4, <3>1, <3>2, <3>3 DEF TypeOK
  <2>6. RunsWellFormed' /\ AdminWellFormed'
    <3>1. UNCHANGED <<doomed, admin>>
      BY <1>3 DEF LoseConnection
    <3>2. RunsWellFormed /\ AdminWellFormed
      BY DEF IInv, WellFormed
    <3>3. r.pc # "idle" /\ (r.pc = "body" => r.body \in Row) /\ (w \in doomed => r.pc # "ended")
      BY <2>1, <2>2, <3>2 DEF RunsWellFormed, Executing
    <3>4. RunsWellFormed'
      <4>1. r.task \in Task /\ run'[w] = r /\ doomed' = doomed
        BY <2>1, <2>2, <2>3, <3>1
      <4>2. \A v \in Worker \ {w} : run'[v] = run[v]
        BY <2>3
      <4>3. QED
        BY <3>2, <3>3, <4>1, <4>2 DEF RunsWellFormed, Executing
    <3>5. QED
      BY <3>1, <3>2, <3>4 DEF AdminWellFormed
  <2>7. \A u \in Task : BeingExecuted(u)' <=> BeingExecuted(u)
    BY <2>2, <2>3 DEF BeingExecuted, Executing
  <2>8. PendingHeld' /\ OutcomeKept'
    BY <1>3, <2>2, <2>7 DEF LoseConnection, IInv, PendingHeld, OutcomeKept, Exists
  <2>9. QED
    BY <2>5, <2>6, <2>8 DEF IInv, WellFormed
<1>4. QED
    BY <1>1, <1>2, <1>3, IdleFacts DEF FaultStep, Terminate, IInv, WellFormed, RunsWellFormed

-----------------------------------------------------------------------------
(* The API and the sweeps: they write a stale copy, never as PENDING. *)

LEMMA OutsideSave ==
    ASSUME IInv, NEW tbl \in [Task -> Copy],
           NEW t \in Task, NEW copy \in Row, copy.status # "P",
           NEW S, t \in S,
           \A u \in Task : tbl[u] = NoRow \/ tbl[u] = db[u]
                             \/ (u \in S /\ tbl[u].status # "P"),
           db' = Saved(tbl, t, copy),
           verdict' = Forget(S),
           UNCHANGED <<unsent, run, unhooked>>,
           queue \subseteq queue'
    PROVE  /\ db' \in [Task -> Copy]
           /\ verdict' \in [Task -> {"none", "D", "E"}]
           /\ PendingHeld' /\ OutcomeKept'
<1>1. /\ db' \in [Task -> Copy]
      /\ \A u \in Task : db'[u] = NoRow \/ db'[u] = IF u = t THEN copy ELSE tbl[u]
    BY SavedType
<1>2. /\ verdict' \in [Task -> {"none", "D", "E"}]
      /\ \A u \in Task : verdict'[u] = IF u \in S THEN "none" ELSE verdict[u]
    BY ForgetType DEF IInv, WellFormed, TypeOK
<1>3. \A u \in Task : \/ db'[u] = NoRow
                      \/ db'[u] = db[u]
                      \/ u \in S /\ db'[u].status # "P"
    BY <1>1
<1>4. \A u \in Task : BeingExecuted(u)' <=> BeingExecuted(u)
    BY DEF BeingExecuted, Executing
<1>5. PendingHeld'
    BY <1>3, <1>4 DEF IInv, PendingHeld, Exists
<1>6. OutcomeKept'
    BY <1>2, <1>3, <1>4 DEF IInv, OutcomeKept, Exists
<1>7. QED
    BY <1>1, <1>2, <1>5, <1>6

LEMMA AdminStep ==
    ASSUME IInv,
           \/ \E t \in Task, s \in ApiStatuses : AdminRead(t, s)
           \/ AdminWrite
           \/ AbortWrite
    PROVE  IInv'
<1>1. ASSUME NEW t \in Task, NEW s \in ApiStatuses, AdminRead(t, s)
      PROVE  IInv'
  <2>1. db[t] \in Row /\ s \in Status \ {"P"}
    BY <1>1, EnvironmentAssumption
       DEF IInv, WellFormed, TypeOK, AdminRead, Exists, Copy, Status
  <2>2. TypeOK'
    BY <1>1, <2>1 DEF IInv, WellFormed, TypeOK, AdminRead, Copy
  <2>3. RunsWellFormed' /\ AdminWellFormed'
    BY <1>1, <2>1 DEF IInv, WellFormed, RunsWellFormed, AdminWellFormed, Executing, AdminRead
  <2>4. PendingHeld' /\ OutcomeKept'
    BY <1>1 DEF IInv, PendingHeld, OutcomeKept, Exists, BeingExecuted, Executing, AdminRead
  <2>5. QED
    BY <2>2, <2>3, <2>4 DEF IInv, WellFormed
<1>2. CASE AdminWrite
  <2> DEFINE t == admin.task
             copy == WithStatus(admin.copy, admin.status)
  <2>1. t \in Task /\ admin.copy \in Row /\ admin.status \in Status \ {"P"}
    BY <1>2 DEF AdminWrite, IInv, WellFormed, TypeOK, AdminWellFormed
  <2>2. copy \in Row /\ copy.status # "P"
    BY <2>1 DEF WithStatus, Row
  <2>3. /\ db' = Saved(db, t, copy) /\ verdict' = Forget({t}) /\ admin' = NoAdmin
        /\ UNCHANGED <<created, unsent, queue, run, doomed, sweep, faults, unhooked>>
    BY <1>2 DEF AdminWrite
  <2>4. revoked' \in [Worker -> SUBSET Task]
    BY <1>2, <2>1 DEF AdminWrite, Revoke, IInv, WellFormed, TypeOK
  <2> HIDE DEF t, copy
  <2>5. /\ db' \in [Task -> Copy] /\ verdict' \in [Task -> {"none", "D", "E"}]
        /\ PendingHeld' /\ OutcomeKept'
    BY <2>1, <2>2, <2>3, OutsideSave DEF IInv, WellFormed, TypeOK, t
  <2>6. TypeOK'
    BY <2>3, <2>4, <2>5 DEF IInv, WellFormed, TypeOK, NoAdmin, Status, Copy
  <2>7. RunsWellFormed' /\ AdminWellFormed'
    BY <2>3 DEF IInv, WellFormed, RunsWellFormed, AdminWellFormed, Executing
  <2>8. QED
    BY <2>5, <2>6, <2>7 DEF IInv, WellFormed
<1>3. CASE AbortWrite
  <2> DEFINE t == admin.task
             u == created + 1
             copy == WithStatus(admin.copy, "X")
             tbl == Saved(db, u, NewRow("I"))
  <2>1. t \in Task /\ admin.copy \in Row
    BY <1>3 DEF AbortWrite, IInv, WellFormed, AdminWellFormed
  <2>2. u \in Task /\ u \in 0 .. MaxTask
    BY <1>3, SizesAssumption DEF AbortWrite, IInv, WellFormed, TypeOK, Task
  <2>3. copy \in Row /\ copy.status # "P"
    BY <2>1 DEF WithStatus, Row, Status
  <2>4. NewRow("I") \in Row /\ NewRow("I").status = "I"
    BY DEF NewRow, Row, Status
  <2>5. /\ db' = Saved(tbl, t, copy) /\ verdict' = Forget({t, u}) /\ admin' = NoAdmin
        /\ queue' = queue \cup {u} /\ created' = u
        /\ UNCHANGED <<unsent, run, revoked, doomed, sweep, faults, unhooked>>
    BY <1>3 DEF AbortWrite
  <2>6. db \in [Task -> Copy]
    BY DEF IInv, WellFormed, TypeOK
  <2> HIDE DEF copy, u
  <2>7. /\ tbl \in [Task -> Copy]
        /\ \A v \in Task : tbl[v] = NoRow \/ tbl[v] = IF v = u THEN NewRow("I") ELSE db[v]
    BY <2>2, <2>4, <2>6, SavedType
  <2> HIDE DEF tbl
  <2>8. \A v \in Task : tbl[v] = NoRow \/ tbl[v] = db[v]
                          \/ (v \in {t, u} /\ tbl[v].status # "P")
    BY <2>4, <2>7
  <2> HIDE DEF t
  <2>9. /\ db' \in [Task -> Copy] /\ verdict' \in [Task -> {"none", "D", "E"}]
        /\ PendingHeld' /\ OutcomeKept'
    BY <2>1, <2>3, <2>5, <2>7, <2>8, OutsideSave
  <2>10. TypeOK'
    BY <2>2, <2>5, <2>9 DEF IInv, WellFormed, TypeOK, NoAdmin, Status, Copy
  <2>11. RunsWellFormed' /\ AdminWellFormed'
    BY <2>5 DEF IInv, WellFormed, RunsWellFormed, AdminWellFormed, Executing
  <2>12. QED
    BY <2>9, <2>10, <2>11 DEF IInv, WellFormed
<1>4. QED
    BY <1>1, <1>2, <1>3

LEMMA SweepSelectStep ==
    ASSUME IInv, TtlSelect \/ ClearSelect
    PROVE  IInv'
<1>1. PICK kind \in {"ttl", "clear"}, tasks \in SUBSET Task : SweepSelect(kind, tasks)
    BY DEF TtlSelect, ClearSelect
<1>2. TypeOK'
    BY <1>1 DEF IInv, WellFormed, TypeOK, SweepSelect, Copy
<1>3. RunsWellFormed' /\ AdminWellFormed'
    BY <1>1 DEF IInv, WellFormed, RunsWellFormed, AdminWellFormed, Executing, SweepSelect
<1>4. PendingHeld' /\ OutcomeKept'
    BY <1>1 DEF IInv, PendingHeld, OutcomeKept, Exists, BeingExecuted, Executing, SweepSelect
<1>5. QED
    BY <1>2, <1>3, <1>4 DEF IInv, WellFormed

LEMMA SweepWriteStep ==
    ASSUME IInv, NEW t \in Task, TtlWrite(t) \/ ClearWrite(t)
    PROVE  IInv'
<1>1. sweep.copies[t] \in Row
    BY DEF TtlWrite, ClearWrite, SweepNext, IInv, WellFormed, TypeOK, Copy
<1>2. PICK s \in {"T", "C"} :
        /\ db' = Saved(db, t, WithStatus(sweep.copies[t], s))
        /\ verdict' = Forget({t})
        /\ sweep' = SweptOff(t)
        /\ UNCHANGED <<created, unsent, queue, run, admin, faults, unhooked>>
    BY DEF TtlWrite, ClearWrite
<1> DEFINE copy == WithStatus(sweep.copies[t], s)
<1>3. copy \in Row /\ copy.status # "P"
    BY <1>1 DEF WithStatus, Row, Status
<1>4. revoked' \in [Worker -> SUBSET Task]
    BY DEF TtlWrite, ClearWrite, Revoke, IInv, WellFormed, TypeOK
<1>5. doomed' \subseteq Worker /\ \A w \in doomed' \ doomed : Executing(w)
    BY DEF TtlWrite, ClearWrite, IInv, WellFormed, TypeOK
<1>6. sweep' \in [kind : {"none", "ttl", "clear"}, copies : [Task -> Copy]]
    BY <1>2 DEF SweptOff, NoSweep, IInv, WellFormed, TypeOK, Copy
<1> HIDE DEF copy
<1>7. /\ db' \in [Task -> Copy] /\ verdict' \in [Task -> {"none", "D", "E"}]
      /\ PendingHeld' /\ OutcomeKept'
    BY <1>2, <1>3, OutsideSave DEF IInv, WellFormed, TypeOK, copy
<1>8. TypeOK'
    BY <1>2, <1>4, <1>5, <1>6, <1>7 DEF IInv, WellFormed, TypeOK
<1>9. RunsWellFormed' /\ AdminWellFormed'
    BY <1>2, <1>5 DEF IInv, WellFormed, RunsWellFormed, AdminWellFormed, Executing
<1>10. QED
    BY <1>7, <1>8, <1>9 DEF IInv, WellFormed

LEMMA RemoveOldStep ==
    ASSUME IInv, NEW last \in Task, RemoveOld(last)
    PROVE  IInv'
<1>1. /\ db' \in [Task -> Copy]
      /\ \A u \in Task : db'[u] = NoRow \/ db'[u] = db[u]
    BY DEF RemoveOld, IInv, WellFormed, TypeOK, Copy
<1>2. TypeOK'
    BY <1>1 DEF IInv, WellFormed, TypeOK, RemoveOld
<1>3. RunsWellFormed' /\ AdminWellFormed'
    BY DEF IInv, WellFormed, RunsWellFormed, AdminWellFormed, Executing, RemoveOld
<1>4. PendingHeld' /\ OutcomeKept'
    BY <1>1 DEF IInv, PendingHeld, OutcomeKept, Exists, BeingExecuted, Executing, RemoveOld
<1>5. QED
    BY <1>2, <1>3, <1>4 DEF IInv, WellFormed

-----------------------------------------------------------------------------
(* The inductive invariant, and what follows from it. *)

THEOREM StepInvariant == IInv /\ [Next]_vars => IInv'
<1> SUFFICES ASSUME IInv, [Next]_vars PROVE IInv'
    OBVIOUS
<1>1. ASSUME NEW w \in Worker, WorkerStep(w) PROVE IInv'
  <2>1. CASE Consume(w)
    BY <2>1, BeforeStartStep, DiscardStep DEF Consume
  <2>2. CASE BodyBegin(w)
    BY <2>2, BodyBeginStep
  <2>3. CASE (\E refreshes \in BOOLEAN : BodyProgress(w, refreshes)) \/ BodyFinish(w)
    BY <2>3, BodyOnStep
  <2>4. CASE OnSuccess(w) \/ OnFailure(w)
    BY <2>4, HookStep
  <2>5. CASE Ack(w)
    BY <2>5, AckStep
  <2>6. QED
    BY <1>1, <2>1, <2>2, <2>3, <2>4, <2>5 DEF WorkerStep
<1>2. ASSUME NEW w \in Worker, FaultStep(w) PROVE IInv'
    BY <1>2, FaultsStep
<1>3. CASE OutsideStep
  <2>1. CASE \E s \in {"I", "P"} : Create(s)
    BY <2>1, CreateStep
  <2>2. CASE \E t \in Task : Send(t)
    BY <2>2, SendStep
  <2>3. CASE \/ \E t \in Task, s \in ApiStatuses : AdminRead(t, s)
             \/ AdminWrite
             \/ AbortWrite
    BY <2>3, AdminStep
  <2>4. CASE TtlSelect \/ ClearSelect
    BY <2>4, SweepSelectStep
  <2>5. CASE \E t \in Task : TtlWrite(t) \/ ClearWrite(t)
    BY <2>5, SweepWriteStep
  <2>6. CASE \E last \in Task : RemoveOld(last)
    BY <2>6, RemoveOldStep
  <2>7. QED
    BY <1>3, <2>1, <2>2, <2>3, <2>4, <2>5, <2>6 DEF OutsideStep
<1>4. CASE UNCHANGED vars
  <2>1. TypeOK' /\ RunsWellFormed' /\ AdminWellFormed'
    BY <1>4 DEF vars, IInv, WellFormed, TypeOK, RunsWellFormed, AdminWellFormed, Executing
  <2>2. PendingHeld' /\ OutcomeKept'
    BY <1>4 DEF vars, IInv, PendingHeld, OutcomeKept, Exists, BeingExecuted, Executing
  <2>3. QED
    BY <2>1, <2>2 DEF IInv, WellFormed
<1>5. QED
    BY <1>1, <1>2, <1>3, <1>4 DEF Next

LEMMA InvariantImplies == IInv => TypeOK /\ PendingHasOwner /\ OutcomeRecorded
<1> SUFFICES ASSUME IInv PROVE TypeOK /\ PendingHasOwner /\ OutcomeRecorded
    OBVIOUS
<1>1. \A t \in Task : BeingExecuted(t) => Running(t)
    BY DEF BeingExecuted, Running
<1>2. QED
    BY <1>1 DEF IInv, WellFormed, PendingHeld, OutcomeKept, PendingHasOwner,
                OutcomeRecorded, Quiet

LEMMA AlwaysInvariant == Spec => []IInv
<1>1. Init => IInv
    BY InitInvariant
<1>2. IInv /\ [Next]_vars => IInv'
    BY StepInvariant
<1>3. QED
    BY <1>1, <1>2, PTL DEF Spec

(***************************************************************************)
(* Whatever the number of rows, workers, faults and requests: every        *)
(* variable keeps its type, in particular every status ever written is one *)
(* of STATUS_CHOICES.                                                      *)
(***************************************************************************)
THEOREM TypeCorrect == Spec => []TypeOK
BY AlwaysInvariant, InvariantImplies, PTL

(***************************************************************************)
(* A PENDING row always has a message to be sent, a queued message or a    *)
(* run, or lost a delivery that no hook ended.                             *)
(***************************************************************************)
THEOREM PendingRowsHaveOwners == Spec => []PendingHasOwner
BY AlwaysInvariant, InvariantImplies, PTL

(***************************************************************************)
(* When a row is quiet and nobody wrote it since its last hook, it shows   *)
(* what that hook recorded.                                                *)
(***************************************************************************)
THEOREM LastHookIsRecorded == Spec => []OutcomeRecorded
BY AlwaysInvariant, InvariantImplies, PTL
=============================================================================
