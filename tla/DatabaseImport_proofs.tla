------------------------ MODULE DatabaseImport_proofs ------------------------
(***************************************************************************)
(* Proofs about DatabaseImport, for any number of tasks, callbacks and     *)
(* lost processes: a task that names its object as done has imported it in *)
(* full, and a task whose request returned in time does not stay pending.  *)
(***************************************************************************)
EXTENDS DatabaseImport, TLAPS

Handler ==
    [pc : {"off", "created", "scheduled", "loaded", "posted", "find", "write", "record", "done"},
     data : {"full", "narrow"}, found : BOOLEAN, copy : Copy]

Finisher ==
    [pc : {"off", "waiting", "started", "loaded", "returned", "done", "lost"},
     late : BOOLEAN, hook : Copy, body : Copy]

Request(t) == handler[<<t, "request">>]
Answer(t) == handler[<<t, "callback">>]

AtWork == {"loaded", "posted", "find", "write", "record"}

\* A handler at work holds a copy, and reads rows that exist.
HoldsCopies(t) ==
    /\ Request(t).pc # "off" => row[t] \in Row
    /\ \A p \in Party : handler[<<t, p>>].pc \in AtWork => handler[<<t, p>>].copy \in Row
    /\ finisher[t].pc \in {"started", "loaded", "returned"} => finisher[t].hook \in Row
    /\ finisher[t].pc \in {"loaded", "returned"} => finisher[t].body \in Row

\* Until the request has posted nobody else writes the row, so that the copy
\* the request works with is a pending one.
PendingCopy(t) ==
    /\ Request(t).pc \in {"off", "created", "scheduled", "loaded"} =>
          owed[t] = 0 /\ Answer(t).pc = "off"
    /\ Request(t).pc \in {"off", "created"} => finisher[t].pc = "off"
    /\ Request(t).pc \in {"scheduled", "loaded"} => finisher[t].pc = "waiting"
    /\ Request(t).pc \in {"created", "scheduled", "loaded"} => row[t].status = "P"
    /\ Request(t).pc \in AtWork => Request(t).copy.status = "P"

\* A callback never has the narrow data.
CallbackIsFull(t) ==
    Answer(t).data = "full" /\ Answer(t).pc \in {"off", "find", "write", "record", "done"}

\* A row, saved or still held, that names its object as done.
Honest(t, r) ==
    r \in Row /\ r.status = "D" /\ r.result = "object" => object[Subject(t)] = "full"

HonestCopies(t) ==
    /\ Honest(t, row[t])
    /\ \A p \in Party : Honest(t, handler[<<t, p>>].copy)
    /\ Honest(t, finisher[t].hook) /\ Honest(t, finisher[t].body)

WrittenInFull(t) ==
    \A p \in Party : handler[<<t, p>>].pc = "record" /\ handler[<<t, p>>].data = "full"
        => object[Subject(t)] = "full"

\* A finisher that is not late finds the request gone and leaves the row settled.
InTime(t) ==
    /\ finisher[t].pc \in {"started", "loaded", "returned", "done"} /\ ~finisher[t].late
          => Request(t).pc = "done"
    /\ finisher[t].pc = "done" /\ ~finisher[t].late => row[t].status # "P"

TaskInv(t) ==
    /\ HoldsCopies(t) /\ PendingCopy(t) /\ CallbackIsFull(t)
    /\ HonestCopies(t) /\ WrittenInFull(t) /\ InTime(t)

IInv == TypeOK /\ \A t \in Task : TaskInv(t)

-----------------------------------------------------------------------------
(* What the helpers of the model do *)

\* The other tasks are left alone, and what is full stays full.
OnlyTask(t) ==
    /\ \A u \in Task \ {t} :
          /\ row'[u] = row[u] /\ finisher'[u] = finisher[u] /\ owed'[u] = owed[u]
          /\ \A p \in Party : handler'[<<u, p>>] = handler[<<u, p>>]
    /\ \A s \in {"instrument", "other"} : object[s] = "full" => object'[s] = "full"

LEMMA OthersKeepInv ==
    ASSUME IInv, NEW t \in Task, OnlyTask(t), TypeOK', TaskInv(t)'
    PROVE  IInv'
<1> SUFFICES ASSUME NEW u \in Task \ {t}
             PROVE  TaskInv(u)'
    BY DEF IInv
<1>1. TaskInv(u)
    BY DEF IInv
<1>2. /\ row'[u] = row[u] /\ finisher'[u] = finisher[u] /\ owed'[u] = owed[u]
      /\ \A p \in Party : handler'[<<u, p>>] = handler[<<u, p>>]
      /\ object[Subject(u)] = "full" => object'[Subject(u)] = "full"
    BY DEF OnlyTask, Subject
<1>3. HoldsCopies(u)' /\ PendingCopy(u)' /\ CallbackIsFull(u)' /\ InTime(u)'
    BY <1>1, <1>2 DEF TaskInv, HoldsCopies, PendingCopy, CallbackIsFull, InTime, Request, Answer, Party
<1>4. HonestCopies(u)' /\ WrittenInFull(u)'
    BY <1>1, <1>2 DEF TaskInv, HonestCopies, WrittenInFull, Honest, Subject
<1>5. QED
    BY <1>3, <1>4 DEF TaskInv

LEMMA HandlerSet ==
    ASSUME TypeOK, NEW t \in Task, NEW p \in Party, NEW new \in Handler,
           handler' = [handler EXCEPT ![<<t, p>>] = new]
    PROVE  /\ handler' \in [Task \X Party -> Handler]
           /\ handler'[<<t, p>>] = new
           /\ \A u \in Task, q \in Party :
                 u # t \/ q # p => handler'[<<u, q>>] = handler[<<u, q>>]
BY DEF TypeOK, Handler

LEMMA HandlerMoves ==
    ASSUME TypeOK, NEW t \in Task, NEW p \in Party, NEW from,
           NEW to \in {"created", "scheduled", "loaded", "posted", "find", "write", "record"},
           Moves(<<t, p>>, from, to)
    PROVE  /\ handler[<<t, p>>].pc = from
           /\ handler' \in [Task \X Party -> Handler]
           /\ handler'[<<t, p>>].pc = to
           /\ handler'[<<t, p>>].data = handler[<<t, p>>].data
           /\ handler'[<<t, p>>].copy = handler[<<t, p>>].copy
           /\ \A u \in Task, q \in Party :
                 u # t \/ q # p => handler'[<<u, q>>] = handler[<<u, q>>]
<1>1. handler[<<t, p>>] \in Handler
    BY DEF TypeOK, Handler
<1>2. /\ handler' = [handler EXCEPT ![<<t, p>>] = [handler[<<t, p>>] EXCEPT !.pc = to]]
      /\ handler[<<t, p>>].pc = from
    BY DEF Moves
<1>3. /\ [handler[<<t, p>>] EXCEPT !.pc = to] \in Handler
      /\ [handler[<<t, p>>] EXCEPT !.pc = to].pc = to
      /\ [handler[<<t, p>>] EXCEPT !.pc = to].data = handler[<<t, p>>].data
      /\ [handler[<<t, p>>] EXCEPT !.pc = to].copy = handler[<<t, p>>].copy
    BY <1>1 DEF Handler
<1>4. QED
    BY <1>2, <1>3, HandlerSet

LEMMA HandlerReturns ==
    ASSUME TypeOK, NEW t \in Task, NEW p \in Party, Returns(<<t, p>>)
    PROVE  /\ handler' \in [Task \X Party -> Handler]
           /\ handler'[<<t, p>>].pc = "done"
           /\ handler'[<<t, p>>].data = "full"
           /\ handler'[<<t, p>>].copy = NoRow
           /\ \A u \in Task, q \in Party :
                 u # t \/ q # p => handler'[<<u, q>>] = handler[<<u, q>>]
<1>1. /\ [NoHandler EXCEPT !.pc = "done"] \in Handler
      /\ [NoHandler EXCEPT !.pc = "done"].pc = "done"
      /\ [NoHandler EXCEPT !.pc = "done"].data = "full"
      /\ [NoHandler EXCEPT !.pc = "done"].copy = NoRow
    BY DEF NoHandler, Handler, Copy
<1>2. QED
    BY <1>1, HandlerSet DEF Returns

LEMMA RowSaved ==
    ASSUME TypeOK, NEW t \in Task, NEW copy \in Row, Saves(t, copy)
    PROVE  /\ row' \in [Task -> Copy]
           /\ row'[t] = copy
           /\ \A u \in Task \ {t} : row'[u] = row[u]
BY DEF TypeOK, Saves, Copy

LEMMA FinisherSet ==
    ASSUME TypeOK, NEW t \in Task, NEW new \in Finisher,
           finisher' = [finisher EXCEPT ![t] = new]
    PROVE  /\ finisher' \in [Task -> Finisher]
           /\ finisher'[t] = new
           /\ \A u \in Task \ {t} : finisher'[u] = finisher[u]
BY DEF TypeOK, Finisher

\* Changing the fields of a row leaves a row.
LEMMA RowFields ==
    ASSUME NEW r \in Row
    PROVE  /\ r \in Copy
           /\ \A s \in {"P", "D", "E", "T"} :
                 /\ [r EXCEPT !.status = s] \in Row
                 /\ [r EXCEPT !.status = s].status = s
                 /\ [r EXCEPT !.status = s].result = r.result
           /\ \A x \in {"task", "remote", "object", "message"} :
                 /\ [r EXCEPT !.result = x] \in Row
                 /\ [r EXCEPT !.result = x].result = x
                 /\ [r EXCEPT !.result = x].status = r.status
BY DEF Row, Copy

LEMMA StatusSaved ==
    ASSUME TypeOK, NEW t \in Task, NEW r \in Row, NEW s \in {"P", "D", "E", "T"},
           Saves(t, [r EXCEPT !.status = s])
    PROVE  /\ row' \in [Task -> Copy] /\ row'[t] \in Row
           /\ row'[t].status = s /\ row'[t].result = r.result
           /\ \A u \in Task \ {t} : row'[u] = row[u]
<1>1. PICK copy : copy = [r EXCEPT !.status = s]
    OBVIOUS
<1>2. copy \in Row /\ copy.status = s /\ copy.result = r.result
    BY <1>1 DEF Row
<1>3. Saves(t, copy)
    BY <1>1
<1>4. QED
    BY <1>2, <1>3, RowSaved

LEMMA ResultSaved ==
    ASSUME TypeOK, NEW t \in Task, NEW r \in Row,
           NEW x \in {"task", "remote", "object", "message"},
           Saves(t, [r EXCEPT !.result = x])
    PROVE  /\ row' \in [Task -> Copy] /\ row'[t] \in Row
           /\ row'[t].status = r.status /\ row'[t].result = x
           /\ \A u \in Task \ {t} : row'[u] = row[u]
<1>1. PICK copy : copy = [r EXCEPT !.result = x]
    OBVIOUS
<1>2. copy \in Row /\ copy.status = r.status /\ copy.result = x
    BY <1>1 DEF Row
<1>3. Saves(t, copy)
    BY <1>1
<1>4. QED
    BY <1>2, <1>3, RowSaved

-----------------------------------------------------------------------------
(* The request *)

LEMMA InitInvariant == Init => IInv
<1> SUFFICES ASSUME Init PROVE IInv
    OBVIOUS
<1>1. NoHandler \in Handler /\ NoFinisher \in Finisher
    BY DEF NoHandler, Handler, NoFinisher, Finisher, Copy
<1>2. TypeOK
    BY <1>1, BoundAssumption DEF Init, TypeOK, Handler, Finisher, Copy
<1>3. ASSUME NEW t \in Task
      PROVE  TaskInv(t)
  <2>1. /\ row[t] = NoRow /\ owed[t] = 0 /\ finisher[t] = NoFinisher
        /\ \A p \in Party : handler[<<t, p>>] = NoHandler
      BY DEF Init
  <2>2. HoldsCopies(t) /\ PendingCopy(t) /\ CallbackIsFull(t) /\ InTime(t)
      BY <2>1 DEF HoldsCopies, PendingCopy, CallbackIsFull, InTime, Request, Answer, Party,
                  NoHandler, NoFinisher, AtWork
  <2>3. HonestCopies(t) /\ WrittenInFull(t)
      BY <2>1, NoRowAssumption DEF HonestCopies, Honest, WrittenInFull, NoHandler, NoFinisher
  <2>4. QED
      BY <2>2, <2>3 DEF TaskInv
<1>4. QED
    BY <1>2, <1>3 DEF IInv

LEMMA CreateStep ==
    ASSUME IInv, NEW t \in Task, Create(t)
    PROVE  IInv'
<1>1. TypeOK /\ TaskInv(t) /\ "request" \in Party /\ "callback" \in Party
    BY DEF IInv, Party
<1>2. /\ Request(t).pc = "off"
      /\ handler' \in [Task \X Party -> Handler]
      /\ Request(t)'.pc = "created" /\ Request(t)'.copy = Request(t).copy
      /\ Request(t)'.data = Request(t).data
      /\ \A u \in Task, q \in Party :
            u # t \/ q # "request" => handler'[<<u, q>>] = handler[<<u, q>>]
    BY <1>1, HandlerMoves DEF Create, Request
<1>3. /\ row' \in [Task -> Copy] /\ row'[t] \in Row /\ row'[t].status = "P" /\ row'[t].result = "task"
      /\ \A u \in Task \ {t} : row'[u] = row[u]
  <2>1. [status |-> "P", result |-> "task"] \in Row
      BY DEF Row
  <2>2. QED
      BY <1>1, <2>1, RowSaved DEF Create
<1>4. TypeOK'
    BY <1>1, <1>2, <1>3 DEF Create, TypeOK, Handler
<1>5. OnlyTask(t)
    BY <1>1, <1>2, <1>3 DEF Create, OnlyTask
<1>6. HoldsCopies(t)' /\ PendingCopy(t)' /\ CallbackIsFull(t)' /\ InTime(t)'
    BY <1>1, <1>2, <1>3 DEF Create, TaskInv, HoldsCopies, PendingCopy, CallbackIsFull, InTime,
                            Request, Answer, Party, AtWork
<1>7. HonestCopies(t)' /\ WrittenInFull(t)'
    BY <1>1, <1>2, <1>3 DEF Create, TaskInv, HonestCopies, Honest, WrittenInFull, Request, Party
<1>8. QED
    BY <1>4, <1>5, <1>6, <1>7, OthersKeepInv DEF TaskInv

LEMMA ScheduleStep ==
    ASSUME IInv, NEW t \in Task, Schedule(t)
    PROVE  IInv'
<1>1. TypeOK /\ TaskInv(t) /\ "request" \in Party /\ "callback" \in Party
    BY DEF IInv, Party
<1>2. /\ Request(t).pc = "created"
      /\ handler' \in [Task \X Party -> Handler]
      /\ Request(t)'.pc = "scheduled" /\ Request(t)'.copy = Request(t).copy
      /\ Request(t)'.data = Request(t).data
      /\ \A u \in Task, q \in Party :
            u # t \/ q # "request" => handler'[<<u, q>>] = handler[<<u, q>>]
    BY <1>1, HandlerMoves DEF Schedule, Request
<1>3. /\ finisher' \in [Task -> Finisher]
      /\ finisher'[t].pc = "waiting" /\ finisher'[t].late = finisher[t].late
      /\ finisher'[t].hook = finisher[t].hook /\ finisher'[t].body = finisher[t].body
      /\ \A u \in Task \ {t} : finisher'[u] = finisher[u]
  <2>1. finisher[t] \in Finisher
      BY <1>1 DEF TypeOK, Finisher
  <2>2. finisher' = [finisher EXCEPT ![t] = [finisher[t] EXCEPT !.pc = "waiting"]]
      BY DEF Schedule
  <2>3. [finisher[t] EXCEPT !.pc = "waiting"] \in Finisher
      BY <2>1 DEF Finisher
  <2>4. QED
      BY <1>1, <2>1, <2>2, <2>3, FinisherSet DEF Finisher
<1>4. TypeOK'
    BY <1>1, <1>2, <1>3 DEF Schedule, TypeOK, Handler, Finisher
<1>5. OnlyTask(t)
    BY <1>1, <1>2, <1>3 DEF Schedule, OnlyTask
<1>6. HoldsCopies(t)' /\ PendingCopy(t)' /\ CallbackIsFull(t)' /\ InTime(t)'
    BY <1>1, <1>2, <1>3 DEF Schedule, TaskInv, HoldsCopies, PendingCopy, CallbackIsFull, InTime,
                            Request, Answer, Party, AtWork
<1>7. HonestCopies(t)' /\ WrittenInFull(t)'
    BY <1>1, <1>2, <1>3 DEF Schedule, TaskInv, HonestCopies, Honest, WrittenInFull, Request, Party
<1>8. QED
    BY <1>4, <1>5, <1>6, <1>7, OthersKeepInv DEF TaskInv

\* A view loses its copy and returns, whatever it saved before.
LEMMA ViewReturns ==
    ASSUME IInv, NEW t \in Task, NEW p \in Party, Returns(<<t, p>>),
           handler[<<t, p>>].pc # "off",
           handler[<<t, p>>].pc \in {"created", "scheduled", "loaded"} => row'[t] = row[t],
           row' \in [Task -> Copy], row'[t] \in Row, Honest(t, row'[t]),
           \A u \in Task \ {t} : row'[u] = row[u],
           finisher[t].pc = "done" /\ ~finisher[t].late => row'[t].status # "P",
           UNCHANGED <<finisher, owed, object>>, faults' \in 0 .. MaxFaults
    PROVE  IInv'
<1>1. TypeOK /\ TaskInv(t) /\ "request" \in Party /\ "callback" \in Party
    BY DEF IInv, Party
<1>2. /\ handler' \in [Task \X Party -> Handler]
      /\ handler'[<<t, p>>].pc = "done" /\ handler'[<<t, p>>].copy = NoRow
      /\ handler'[<<t, p>>].data = "full"
      /\ \A u \in Task, q \in Party :
            u # t \/ q # p => handler'[<<u, q>>] = handler[<<u, q>>]
    BY <1>1, HandlerReturns
<1>3. TypeOK'
    BY <1>1, <1>2 DEF TypeOK, Handler
<1>4. OnlyTask(t)
    BY <1>1, <1>2 DEF OnlyTask
<1>5. HoldsCopies(t)' /\ PendingCopy(t)' /\ CallbackIsFull(t)' /\ InTime(t)'
  <2>1. CASE p = "request"
      BY <1>1, <1>2, <2>1 DEF TaskInv, HoldsCopies, PendingCopy, CallbackIsFull, InTime,
                        Request, Answer, Party, AtWork
  <2>2. CASE p = "callback"
    <3>1. Request(t)' = Request(t) /\ Request(t).pc \notin {"off", "created", "scheduled", "loaded"}
        BY <1>1, <1>2, <2>2 DEF TaskInv, PendingCopy, Request, Answer
    <3>2. QED
        BY <1>1, <1>2, <2>2, <3>1 DEF TaskInv, HoldsCopies, PendingCopy, CallbackIsFull, InTime,
                          Request, Answer, Party, AtWork
  <2>3. QED
      BY <2>1, <2>2 DEF Party
<1>6. HonestCopies(t)' /\ WrittenInFull(t)'
    BY <1>1, <1>2, NoRowAssumption DEF TaskInv, HonestCopies, Honest, WrittenInFull, Party
<1>7. QED
    BY <1>3, <1>4, <1>5, <1>6, OthersKeepInv DEF TaskInv

LEMMA LoadStep ==
    ASSUME IInv, NEW t \in Task, Load(t)
    PROVE  IInv'
<1>1. TypeOK /\ TaskInv(t) /\ "request" \in Party /\ "callback" \in Party
    BY DEF IInv, Party
<1>2. Request(t).pc = "scheduled" /\ row[t] \in Row /\ finisher[t].pc = "waiting" /\ Honest(t, row[t])
    BY <1>1 DEF Load, TaskInv, HoldsCopies, PendingCopy, HonestCopies, Request
<1>3. CASE t \in PriceTask
    BY <1>1, <1>2, <1>3, ViewReturns DEF Load, TypeOK, Request
<1>4. CASE t \notin PriceTask
  <2>1. /\ handler' \in [Task \X Party -> Handler]
        /\ Request(t)'.pc = "loaded" /\ Request(t)'.copy = row[t]
        /\ \A u \in Task, q \in Party :
              u # t \/ q # "request" => handler'[<<u, q>>] = handler[<<u, q>>]
    <3>1. Request(t) \in Handler
        BY <1>1 DEF TypeOK, Handler, Request
    <3>2. [Request(t) EXCEPT !.pc = "loaded", !.copy = row[t]] \in Handler
        BY <1>2, <3>1, RowFields DEF Handler
    <3>3. handler' = [handler EXCEPT ![<<t, "request">>] =
                        [Request(t) EXCEPT !.pc = "loaded", !.copy = row[t]]]
        BY <1>4 DEF Load, Request
    <3>4. QED
        BY <1>1, <3>1, <3>2, <3>3, HandlerSet DEF Handler, Request
  <2>2. UNCHANGED <<row, finisher, owed, object, faults>>
      BY DEF Load
  <2>3. TypeOK'
      BY <1>1, <2>1, <2>2 DEF TypeOK, Handler
  <2>4. OnlyTask(t)
      BY <1>1, <2>1, <2>2 DEF OnlyTask
  <2>5. HoldsCopies(t)' /\ PendingCopy(t)' /\ CallbackIsFull(t)' /\ InTime(t)'
      BY <1>1, <1>2, <2>1, <2>2 DEF TaskInv, HoldsCopies, PendingCopy, CallbackIsFull, InTime,
                        Request, Answer, Party, AtWork
  <2>6. HonestCopies(t)' /\ WrittenInFull(t)'
      BY <1>1, <1>2, <2>1, <2>2 DEF TaskInv, HonestCopies, Honest, WrittenInFull, Request, Party
  <2>7. QED
      BY <2>3, <2>4, <2>5, <2>6, OthersKeepInv DEF TaskInv
<1>5. QED
    BY <1>3, <1>4

LEMMA PostStep ==
    ASSUME IInv, NEW t \in Task, Post(t)
    PROVE  IInv'
<1>1. TypeOK /\ TaskInv(t) /\ "request" \in Party /\ "callback" \in Party
    BY DEF IInv, Party
<1>2. /\ Request(t).pc = "loaded"
      /\ handler' \in [Task \X Party -> Handler]
      /\ Request(t)'.pc = "posted" /\ Request(t)'.copy = Request(t).copy
      /\ Request(t)'.data = Request(t).data
      /\ \A u \in Task, q \in Party :
            u # t \/ q # "request" => handler'[<<u, q>>] = handler[<<u, q>>]
    BY <1>1, HandlerMoves DEF Post, Request
<1>3. Request(t).copy \in Row /\ Request(t).copy.status = "P" /\ finisher[t].pc = "waiting"
    BY <1>1, <1>2 DEF TaskInv, HoldsCopies, PendingCopy, Request, AtWork
<1>4. /\ row' \in [Task -> Copy] /\ row'[t] = Request(t).copy
      /\ \A u \in Task \ {t} : row'[u] = row[u]
    BY <1>1, <1>3, RowSaved DEF Post, Request
<1>5. /\ owed' \in [Task -> 0 .. MaxCallbacks]
      /\ \A u \in Task \ {t} : owed'[u] = owed[u]
    BY <1>1, BoundAssumption DEF Post, TypeOK
<1>6. UNCHANGED <<finisher, object, faults>>
    BY DEF Post
<1>7. TypeOK'
    BY <1>1, <1>2, <1>4, <1>5, <1>6 DEF TypeOK, Handler
<1>8. OnlyTask(t)
    BY <1>1, <1>2, <1>4, <1>5, <1>6 DEF OnlyTask
<1>9. HoldsCopies(t)' /\ PendingCopy(t)' /\ CallbackIsFull(t)' /\ InTime(t)'
    BY <1>1, <1>2, <1>3, <1>4, <1>6 DEF TaskInv, HoldsCopies, PendingCopy, CallbackIsFull, InTime,
                      Request, Answer, Party, AtWork
<1>10. HonestCopies(t)' /\ WrittenInFull(t)'
    BY <1>1, <1>2, <1>3, <1>4, <1>6 DEF TaskInv, HonestCopies, Honest, WrittenInFull, Request, Party
<1>11. QED
    BY <1>7, <1>8, <1>9, <1>10, OthersKeepInv DEF TaskInv

-----------------------------------------------------------------------------
(* Both views *)

\* A view goes on with its copy, towards the object and its record.
LEMMA ViewGoesOn ==
    ASSUME IInv, NEW t \in Task, NEW p \in Party,
           handler' \in [Task \X Party -> Handler],
           handler[<<t, p>>].pc \in {"posted", "find", "write"},
           handler'[<<t, p>>].pc \in {"find", "write", "record"},
           handler'[<<t, p>>].copy = handler[<<t, p>>].copy,
           p = "callback" => handler'[<<t, p>>].data = "full",
           \A u \in Task, q \in Party :
              u # t \/ q # p => handler'[<<u, q>>] = handler[<<u, q>>],
           UNCHANGED <<row, finisher, owed, faults>>,
           object' \in [{"instrument", "other"} -> {"none", "stub", "full"}],
           \A s \in {"instrument", "other"} : object[s] = "full" => object'[s] = "full",
           handler'[<<t, p>>].pc = "record" /\ handler'[<<t, p>>].data = "full"
              => object'[Subject(t)] = "full"
    PROVE  IInv'
<1>1. TypeOK /\ TaskInv(t) /\ "request" \in Party /\ "callback" \in Party
    BY DEF IInv, Party
<1>2. TypeOK'
    BY <1>1 DEF TypeOK, Handler
<1>3. OnlyTask(t)
    BY <1>1 DEF OnlyTask
<1>4. HoldsCopies(t)' /\ PendingCopy(t)' /\ CallbackIsFull(t)' /\ InTime(t)'
  <2>1. CASE p = "request"
      BY <1>1, <2>1 DEF TaskInv, HoldsCopies, PendingCopy, CallbackIsFull, InTime,
                        Request, Answer, Party, AtWork
  <2>2. CASE p = "callback"
      BY <1>1, <2>2 DEF TaskInv, HoldsCopies, PendingCopy, CallbackIsFull, InTime,
                        Request, Answer, Party, AtWork
  <2>3. QED
      BY <2>1, <2>2 DEF Party
<1>5. Subject(t) \in {"instrument", "other"}
    BY DEF Subject
<1>6. HonestCopies(t)' /\ WrittenInFull(t)'
    BY <1>1, <1>5 DEF TaskInv, HonestCopies, Honest, WrittenInFull, Subject
<1>7. QED
    BY <1>2, <1>3, <1>4, <1>6, OthersKeepInv DEF TaskInv

\* What a view at work holds.
LEMMA ViewAtWork ==
    ASSUME IInv, NEW t \in Task, NEW p \in Party, handler[<<t, p>>].pc \in AtWork
    PROVE  /\ handler[<<t, p>>].copy \in Row /\ Honest(t, handler[<<t, p>>].copy)
           /\ p = "callback" => handler[<<t, p>>].data = "full"
           /\ p = "request" => handler[<<t, p>>].copy.status = "P"
           /\ p = "request" => ~(finisher[t].pc = "done" /\ ~finisher[t].late)
           /\ row[t] \in Row /\ Honest(t, row[t])
<1>1. TaskInv(t)
    BY DEF IInv
<1>2. Request(t).pc # "off"
    BY <1>1 DEF TaskInv, PendingCopy, Request, Answer, AtWork, Party
<1>3. QED
    BY <1>1, <1>2 DEF TaskInv, HoldsCopies, PendingCopy, HonestCopies, CallbackIsFull, InTime,
                      Request, Answer, AtWork, Party

LEMMA AnswerStep ==
    ASSUME IInv, NEW t \in Task, AnswerData(t) \/ AnswerTask(t) \/ AnswerError(t)
    PROVE  IInv'
<1>1. TypeOK /\ "request" \in Party /\ Request(t) \in Handler
    BY DEF IInv, Party, TypeOK, Handler, Request
<1>2. Request(t).pc = "posted" /\ faults' \in 0 .. MaxFaults
    BY <1>1 DEF AnswerData, AnswerTask, AnswerError, Moves, Ends, Request, TypeOK
<1>3. /\ Request(t).copy \in Row
      /\ Request(t).copy.status = "P"
      /\ ~(finisher[t].pc = "done" /\ ~finisher[t].late)
    BY <1>1, <1>2, ViewAtWork DEF Request, AtWork
<1>4. CASE AnswerData(t)
  <2>1. /\ handler' \in [Task \X Party -> Handler]
        /\ handler'[<<t, "request">>].pc = "find"
        /\ handler'[<<t, "request">>].copy = handler[<<t, "request">>].copy
        /\ \A u \in Task, q \in Party :
              u # t \/ q # "request" => handler'[<<u, q>>] = handler[<<u, q>>]
      BY <1>1, <1>4, HandlerMoves DEF AnswerData
  <2>2. QED
      BY <1>1, <1>2, <1>4, <2>1, ViewGoesOn DEF AnswerData, Request, TypeOK
<1>5. CASE AnswerTask(t) /\ t \in InstrumentTask
  <2>1. /\ handler' = [handler EXCEPT ![<<t, "request">>] =
                         [Request(t) EXCEPT !.pc = "find", !.data = "narrow"]]
        /\ UNCHANGED <<row, finisher, owed, object, faults>>
      BY <1>5 DEF AnswerTask, Request
  <2>2. /\ [Request(t) EXCEPT !.pc = "find", !.data = "narrow"] \in Handler
        /\ [Request(t) EXCEPT !.pc = "find", !.data = "narrow"].pc = "find"
        /\ [Request(t) EXCEPT !.pc = "find", !.data = "narrow"].copy = Request(t).copy
      BY <1>1 DEF Handler
  <2>3. /\ handler' \in [Task \X Party -> Handler]
        /\ handler'[<<t, "request">>].pc = "find"
        /\ handler'[<<t, "request">>].copy = handler[<<t, "request">>].copy
        /\ \A u \in Task, q \in Party :
              u # t \/ q # "request" => handler'[<<u, q>>] = handler[<<u, q>>]
      BY <1>1, <2>1, <2>2, HandlerSet DEF Request
  <2>4. QED
      BY <1>1, <1>2, <2>1, <2>3, ViewGoesOn DEF Request, TypeOK
<1>6. CASE AnswerTask(t) /\ t \notin InstrumentTask
  <2>1. /\ Returns(<<t, "request">>) /\ Saves(t, [Request(t).copy EXCEPT !.result = "remote"])
        /\ UNCHANGED <<finisher, owed, object>>
      BY <1>6 DEF AnswerTask, Request
  <2>2. /\ row' \in [Task -> Copy] /\ row'[t] \in Row /\ row'[t].result = "remote"
        /\ \A u \in Task \ {t} : row'[u] = row[u]
      BY <1>1, <1>3, <2>1, ResultSaved
  <2>3. QED
      BY <1>1, <1>2, <1>3, <2>1, <2>2, ViewReturns DEF Request, Honest
<1>7. CASE AnswerError(t)
  <2>1. /\ Returns(<<t, "request">>) /\ Saves(t, [Request(t).copy EXCEPT !.status = "E"])
        /\ UNCHANGED <<finisher, owed, object>>
      BY <1>7 DEF AnswerError, Request, Ends
  <2>2. /\ row' \in [Task -> Copy] /\ row'[t] \in Row /\ row'[t].status = "E"
        /\ \A u \in Task \ {t} : row'[u] = row[u]
      BY <1>1, <1>3, <2>1, StatusSaved
  <2>3. QED
      BY <1>1, <1>2, <2>1, <2>2, ViewReturns DEF Request, Honest
<1>8. QED
    BY <1>4, <1>5, <1>6, <1>7

LEMMA CallbackStep ==
    ASSUME IInv, NEW t \in Task, Callback(t)
    PROVE  IInv'
<1>1. TypeOK /\ TaskInv(t) /\ "request" \in Party /\ "callback" \in Party
    BY DEF IInv, Party
<1>2. /\ Request(t).pc \notin {"off", "created", "scheduled", "loaded"}
      /\ row[t] \in Row /\ Honest(t, row[t])
  <2>1. owed[t] # 0
      BY DEF Callback
  <2>2. QED
      BY <1>1, <2>1 DEF TaskInv, PendingCopy, HoldsCopies, HonestCopies
<1>3. /\ handler' \in [Task \X Party -> Handler]
      /\ Answer(t)'.pc = "find" /\ Answer(t)'.data = "full" /\ Answer(t)'.copy = row[t]
      /\ \A u \in Task, q \in Party :
            u # t \/ q # "callback" => handler'[<<u, q>>] = handler[<<u, q>>]
  <2>1. /\ [NoHandler EXCEPT !.pc = "find", !.copy = row[t]] \in Handler
        /\ [NoHandler EXCEPT !.pc = "find", !.copy = row[t]].pc = "find"
        /\ [NoHandler EXCEPT !.pc = "find", !.copy = row[t]].data = "full"
        /\ [NoHandler EXCEPT !.pc = "find", !.copy = row[t]].copy = row[t]
      BY <1>2, RowFields DEF NoHandler, Handler
  <2>2. QED
      BY <1>1, <2>1, HandlerSet DEF Callback, Answer
<1>4. /\ owed' \in [Task -> 0 .. MaxCallbacks]
      /\ \A u \in Task \ {t} : owed'[u] = owed[u]
    BY <1>1, BoundAssumption DEF Callback, TypeOK
<1>5. UNCHANGED <<row, finisher, object, faults>>
    BY DEF Callback
<1>6. TypeOK'
    BY <1>1, <1>3, <1>4, <1>5 DEF TypeOK, Handler
<1>7. OnlyTask(t)
    BY <1>1, <1>3, <1>4, <1>5 DEF OnlyTask
<1>8. HoldsCopies(t)' /\ PendingCopy(t)' /\ CallbackIsFull(t)' /\ InTime(t)'
    BY <1>1, <1>2, <1>3, <1>5 DEF TaskInv, HoldsCopies, PendingCopy, CallbackIsFull, InTime,
                      Request, Answer, Party, AtWork
<1>9. HonestCopies(t)' /\ WrittenInFull(t)'
    BY <1>1, <1>2, <1>3, <1>5 DEF TaskInv, HonestCopies, Honest, WrittenInFull, Answer, Party
<1>10. QED
    BY <1>6, <1>7, <1>8, <1>9, OthersKeepInv DEF TaskInv

\* A view that returns without saving: a rejected callback, a lost process.
LEMMA ViewStops ==
    ASSUME IInv, NEW t \in Task, NEW p \in Party, Returns(<<t, p>>),
           handler[<<t, p>>].pc # "off",
           UNCHANGED <<row, finisher, owed, object>>, faults' \in 0 .. MaxFaults
    PROVE  IInv'
<1>1. TypeOK /\ TaskInv(t)
    BY DEF IInv
<1>2. Request(t).pc # "off"
    BY <1>1 DEF TaskInv, PendingCopy, Request, Answer, Party
<1>3. row[t] \in Row /\ Honest(t, row[t]) /\ row \in [Task -> Copy]
    BY <1>1, <1>2 DEF TaskInv, HoldsCopies, HonestCopies, TypeOK
<1>4. finisher[t].pc = "done" /\ ~finisher[t].late => row[t].status # "P"
    BY <1>1 DEF TaskInv, InTime
<1>5. QED
    BY <1>3, <1>4, ViewReturns

LEMMA FindStep ==
    ASSUME IInv, NEW t \in Task, NEW p \in Party, Find(<<t, p>>)
    PROVE  IInv'
<1>1. TypeOK /\ handler[<<t, p>>] \in Handler /\ handler[<<t, p>>].pc = "find"
    BY DEF IInv, TypeOK, Handler, Find
<1>2. PICK b \in BOOLEAN :
         handler' = [handler EXCEPT ![<<t, p>>] = [handler[<<t, p>>] EXCEPT !.pc = "write", !.found = b]]
    BY DEF Find
<1>3. /\ [handler[<<t, p>>] EXCEPT !.pc = "write", !.found = b] \in Handler
      /\ [handler[<<t, p>>] EXCEPT !.pc = "write", !.found = b].pc = "write"
      /\ [handler[<<t, p>>] EXCEPT !.pc = "write", !.found = b].copy = handler[<<t, p>>].copy
      /\ [handler[<<t, p>>] EXCEPT !.pc = "write", !.found = b].data = handler[<<t, p>>].data
    BY <1>1 DEF Handler
<1>4. /\ handler' \in [Task \X Party -> Handler]
      /\ handler'[<<t, p>>].pc = "write"
      /\ handler'[<<t, p>>].copy = handler[<<t, p>>].copy
      /\ handler'[<<t, p>>].data = handler[<<t, p>>].data
      /\ \A u \in Task, q \in Party :
            u # t \/ q # p => handler'[<<u, q>>] = handler[<<u, q>>]
    BY <1>1, <1>2, <1>3, HandlerSet
<1>5. p = "callback" => handler[<<t, p>>].data = "full"
    BY <1>1, ViewAtWork DEF AtWork
<1>6. /\ UNCHANGED <<row, finisher, owed, object, faults>>
      /\ object \in [{"instrument", "other"} -> {"none", "stub", "full"}]
    BY <1>1 DEF Find, TypeOK
<1>7. QED
    BY <1>1, <1>4, <1>5, <1>6, ViewGoesOn

\* What is full is not written over by a stub.
LEMMA WriteEffect ==
    ASSUME TypeOK, NEW t \in Task, NEW p \in Party, Write(<<t, p>>)
    PROVE  /\ object' \in [{"instrument", "other"} -> {"none", "stub", "full"}]
           /\ \A s \in {"instrument", "other"} : object[s] = "full" => object'[s] = "full"
           /\ handler[<<t, p>>].data = "full" => object'[Subject(t)] = "full"
<1>1. Subject(t) \in {"instrument", "other"}
    BY DEF Subject
<1>2. QED
    BY <1>1 DEF Write, TypeOK

LEMMA WriteStep ==
    ASSUME IInv, NEW t \in Task, NEW p \in Party, Write(<<t, p>>)
    PROVE  IInv'
<1>1. TypeOK
    BY DEF IInv
<1>2. /\ handler[<<t, p>>].pc = "write"
      /\ handler' \in [Task \X Party -> Handler]
      /\ handler'[<<t, p>>].pc = "record"
      /\ handler'[<<t, p>>].copy = handler[<<t, p>>].copy
      /\ handler'[<<t, p>>].data = handler[<<t, p>>].data
      /\ \A u \in Task, q \in Party :
            u # t \/ q # p => handler'[<<u, q>>] = handler[<<u, q>>]
  <2>1. Moves(<<t, p>>, "write", "record")
      BY DEF Write
  <2>2. \A from :
           Moves(<<t, p>>, from, "record") =>
             /\ handler[<<t, p>>].pc = from
             /\ handler' \in [Task \X Party -> Handler]
             /\ handler'[<<t, p>>].pc = "record"
             /\ handler'[<<t, p>>].data = handler[<<t, p>>].data
             /\ handler'[<<t, p>>].copy = handler[<<t, p>>].copy
             /\ \A u \in Task, q \in Party :
                   u # t \/ q # p => handler'[<<u, q>>] = handler[<<u, q>>]
      BY <1>1, HandlerMoves
  <2>3. QED
      BY <2>1, <2>2
<1>3. p = "callback" => handler[<<t, p>>].data = "full"
    BY <1>2, ViewAtWork DEF AtWork
<1>4. /\ object' \in [{"instrument", "other"} -> {"none", "stub", "full"}]
      /\ \A s \in {"instrument", "other"} : object[s] = "full" => object'[s] = "full"
      /\ handler[<<t, p>>].data = "full" => object'[Subject(t)] = "full"
      /\ UNCHANGED <<row, finisher, owed, faults>>
    BY <1>1, WriteEffect DEF Write
<1>5. QED
    BY <1>1, <1>2, <1>3, <1>4, ViewGoesOn

LEMMA FailStep ==
    ASSUME IInv, NEW t \in Task, NEW p \in Party, Fail(<<t, p>>)
    PROVE  IInv'
<1>1. /\ TypeOK /\ handler[<<t, p>>].pc = "write" /\ Returns(<<t, p>>)
      /\ Saves(t, [handler[<<t, p>>].copy EXCEPT !.status = "E"])
    BY DEF IInv, Fail, Ends
<1>2. handler[<<t, p>>].copy \in Row
    BY <1>1, ViewAtWork DEF AtWork
<1>3. /\ row' \in [Task -> Copy] /\ row'[t] \in Row /\ row'[t].status = "E"
      /\ \A u \in Task \ {t} : row'[u] = row[u]
    BY <1>1, <1>2, StatusSaved
<1>4. QED
    BY <1>1, <1>3, ViewReturns DEF Fail, Honest, TypeOK

LEMMA RecordStep ==
    ASSUME IInv, NEW t \in Task, NEW p \in Party, Record(<<t, p>>)
    PROVE  IInv'
<1>1. /\ TypeOK /\ handler[<<t, p>>].pc = "record" /\ Returns(<<t, p>>)
      /\ handler[<<t, p>>] \in Handler
    BY DEF IInv, Record, Ends, TypeOK, Handler
<1>2. /\ handler[<<t, p>>].copy \in Row
      /\ p = "callback" => handler[<<t, p>>].data = "full"
      /\ p = "request" => handler[<<t, p>>].copy.status = "P"
      /\ p = "request" => ~(finisher[t].pc = "done" /\ ~finisher[t].late)
    BY <1>1, ViewAtWork DEF AtWork
<1>3. [handler[<<t, p>>].copy EXCEPT !.result = "object"] \in Row
    BY <1>2, RowFields
<1>4. CASE handler[<<t, p>>].data = "full"
  <2>1. Saves(t, [[handler[<<t, p>>].copy EXCEPT !.result = "object"] EXCEPT !.status = "D"])
      BY <1>4 DEF Record
  <2>2. /\ row' \in [Task -> Copy] /\ row'[t] \in Row /\ row'[t].status = "D"
        /\ \A u \in Task \ {t} : row'[u] = row[u]
      BY <1>1, <1>3, <2>1, StatusSaved
  <2>3. object[Subject(t)] = "full"
      BY <1>1, <1>4 DEF IInv, TaskInv, WrittenInFull
  <2>4. QED
      BY <1>1, <2>2, <2>3, ViewReturns DEF Record, Honest, TypeOK
<1>5. CASE handler[<<t, p>>].data # "full"
  <2>1. p = "request" /\ Saves(t, [handler[<<t, p>>].copy EXCEPT !.result = "object"])
      BY <1>2, <1>5 DEF Record, Party
  <2>2. /\ row' \in [Task -> Copy] /\ row'[t] \in Row /\ row'[t].status = "P"
        /\ \A u \in Task \ {t} : row'[u] = row[u]
      BY <1>1, <1>2, <2>1, ResultSaved
  <2>3. QED
      BY <1>1, <1>2, <2>1, <2>2, ViewReturns DEF Record, Honest, TypeOK
<1>6. QED
    BY <1>4, <1>5

-----------------------------------------------------------------------------
(* ttl_finisher *)

\* The finisher moves; the views stay where they are.
LEMMA FinisherGoesOn ==
    ASSUME IInv, NEW t \in Task, NEW new \in Finisher,
           finisher' = [finisher EXCEPT ![t] = new],
           finisher[t].pc \in {"waiting", "started", "loaded", "returned"},
           Request(t).pc \notin {"off", "created", "scheduled", "loaded"},
           row' \in [Task -> Copy], row'[t] \in Row, Honest(t, row'[t]),
           \A u \in Task \ {t} : row'[u] = row[u],
           new.pc \in {"started", "loaded", "returned"} => new.hook \in Row,
           new.pc \in {"loaded", "returned"} => new.body \in Row,
           Honest(t, new.hook), Honest(t, new.body),
           new.pc \in {"started", "loaded", "returned", "done"} /\ ~new.late
              => Request(t).pc = "done",
           new.pc = "done" => row'[t].status # "P",
           UNCHANGED <<handler, owed, object>>, faults' \in 0 .. MaxFaults
    PROVE  IInv'
<1>1. TypeOK /\ TaskInv(t)
    BY DEF IInv
<1>2. /\ finisher' \in [Task -> Finisher] /\ finisher'[t] = new
      /\ \A u \in Task \ {t} : finisher'[u] = finisher[u]
    BY <1>1, FinisherSet
<1>3. TypeOK'
    BY <1>1, <1>2 DEF TypeOK, Finisher
<1>4. OnlyTask(t)
    BY <1>1, <1>2 DEF OnlyTask
<1>5. HoldsCopies(t)' /\ PendingCopy(t)' /\ CallbackIsFull(t)' /\ InTime(t)'
    BY <1>1, <1>2 DEF TaskInv, HoldsCopies, PendingCopy, CallbackIsFull, InTime, Request, Answer
<1>6. HonestCopies(t)' /\ WrittenInFull(t)'
    BY <1>1, <1>2 DEF TaskInv, HonestCopies, Honest, WrittenInFull
<1>7. QED
    BY <1>3, <1>4, <1>5, <1>6, OthersKeepInv DEF TaskInv

\* Where a running finisher finds the request, the row and its own copies.
LEMMA FinisherHas ==
    ASSUME IInv, NEW t \in Task
    PROVE  /\ finisher[t] \in Finisher /\ Copy = Row \cup {NoRow}
           /\ finisher[t].pc \in {"started", "loaded", "returned"} =>
                /\ Request(t).pc \notin {"off", "created", "scheduled", "loaded"}
                /\ finisher[t].hook \in Row
                /\ finisher[t].late \/ Request(t).pc = "done"
           /\ finisher[t].pc \in {"loaded", "returned"} => finisher[t].body \in Row
           /\ Honest(t, finisher[t].hook) /\ Honest(t, finisher[t].body) /\ Honest(t, row[t])
           /\ Request(t).pc \notin {"off"} => row[t] \in Row
<1>1. TypeOK /\ TaskInv(t)
    BY DEF IInv
<1>2. finisher[t] \in Finisher
    BY <1>1 DEF TypeOK, Finisher
<1>3. QED
    BY <1>1, <1>2 DEF TaskInv, HoldsCopies, PendingCopy, HonestCopies, InTime, Copy

\* The finisher is through: it keeps nothing but whether it was late.
LEMMA FinisherMoved ==
    ASSUME TypeOK, NEW t \in Task, NEW to \in {"waiting", "lost", "done"}, FinisherMoves(t, to)
    PROVE  \E new \in Finisher :
             /\ finisher' = [finisher EXCEPT ![t] = new]
             /\ new.pc = to /\ new.late = finisher[t].late
             /\ new.hook = NoRow /\ new.body = NoRow
<1>1. finisher[t] \in Finisher
    BY DEF TypeOK, Finisher
<1>2. NoFinisher \in Finisher /\ NoFinisher.hook = NoRow /\ NoFinisher.body = NoRow
    BY DEF NoFinisher, Finisher, Copy
<1>3. PICK new : new = [NoFinisher EXCEPT !.pc = to, !.late = finisher[t].late]
    OBVIOUS
<1>4. /\ new \in Finisher /\ new.pc = to /\ new.late = finisher[t].late
      /\ new.hook = NoRow /\ new.body = NoRow
    BY <1>1, <1>2, <1>3 DEF Finisher
<1>5. QED
    BY <1>3, <1>4 DEF FinisherMoves

LEMMA FinisherStartStep ==
    ASSUME IInv, NEW t \in Task, FinisherStart(t)
    PROVE  IInv'
<1>1. TypeOK /\ TaskInv(t) /\ finisher[t].pc = "waiting"
    BY DEF IInv, FinisherStart
<1>2. Request(t).pc \notin {"off", "created", "scheduled", "loaded"} /\ row[t] \in Row
    BY <1>1 DEF FinisherStart, TaskInv, PendingCopy, HoldsCopies, Request
<1>3. PICK new : new = [pc |-> "started", late |-> Request(t).pc # "done",
                        hook |-> [row[t] EXCEPT !.status = "P"], body |-> NoRow]
    OBVIOUS
<1>4. /\ [row[t] EXCEPT !.status = "P"] \in Row
      /\ [row[t] EXCEPT !.status = "P"].status = "P"
    BY <1>2, RowFields
<1>5. /\ new \in Finisher /\ new.pc = "started" /\ new.late = (Request(t).pc # "done")
      /\ new.hook \in Row /\ new.hook.status = "P" /\ new.body = NoRow
    BY <1>3, <1>4 DEF Finisher, Copy
<1>6. finisher' = [finisher EXCEPT ![t] = new]
    BY <1>3 DEF FinisherStart, Request
<1>7. /\ row' \in [Task -> Copy] /\ row'[t] \in Row /\ row'[t].status = "P"
      /\ \A u \in Task \ {t} : row'[u] = row[u]
    BY <1>1, <1>2, StatusSaved DEF FinisherStart
<1>8. Honest(t, new.hook) /\ Honest(t, new.body) /\ Honest(t, row'[t])
    BY <1>5, <1>7, NoRowAssumption DEF Honest
<1>9. UNCHANGED <<handler, owed, object>> /\ faults' \in 0 .. MaxFaults
    BY <1>1 DEF FinisherStart, TypeOK
<1>10. QED
    BY <1>1, <1>2, <1>5, <1>6, <1>7, <1>8, <1>9, FinisherGoesOn

LEMMA FinisherLoadStep ==
    ASSUME IInv, NEW t \in Task, FinisherLoad(t)
    PROVE  IInv'
<1>1. TypeOK /\ finisher[t].pc = "started" /\ finisher[t] \in Finisher
    BY FinisherHas DEF IInv, FinisherLoad
<1>2. /\ Request(t).pc \notin {"off", "created", "scheduled", "loaded"}
      /\ row[t] \in Row /\ finisher[t].hook \in Row
      /\ finisher[t].late \/ Request(t).pc = "done"
      /\ Honest(t, finisher[t].hook) /\ Honest(t, row[t])
    BY <1>1, FinisherHas
<1>3. PICK new : new = [finisher[t] EXCEPT !.pc = "loaded", !.body = row[t]]
    OBVIOUS
<1>4. /\ new \in Finisher /\ new.pc = "loaded" /\ new.late = finisher[t].late
      /\ new.hook = finisher[t].hook /\ new.body = row[t]
    BY <1>1, <1>2, <1>3 DEF Finisher, Copy
<1>5. finisher' = [finisher EXCEPT ![t] = new]
    BY <1>3 DEF FinisherLoad
<1>6. /\ UNCHANGED <<row, handler, owed, object>> /\ faults' \in 0 .. MaxFaults
      /\ row \in [Task -> Copy]
    BY <1>1 DEF FinisherLoad, TypeOK
<1>7. QED
    BY <1>1, <1>2, <1>4, <1>5, <1>6, FinisherGoesOn

LEMMA FinisherWriteStep ==
    ASSUME IInv, NEW t \in Task, FinisherWrite(t)
    PROVE  IInv'
<1>1. TypeOK /\ finisher[t].pc = "loaded" /\ finisher[t] \in Finisher
    BY FinisherHas DEF IInv, FinisherWrite
<1>2. /\ Request(t).pc \notin {"off", "created", "scheduled", "loaded"}
      /\ row[t] \in Row /\ finisher[t].hook \in Row /\ finisher[t].body \in Row
      /\ finisher[t].late \/ Request(t).pc = "done"
      /\ Honest(t, finisher[t].hook) /\ Honest(t, finisher[t].body) /\ Honest(t, row[t])
    BY <1>1, FinisherHas
<1>3. PICK new : new = [finisher[t] EXCEPT !.pc = "returned"]
    OBVIOUS
<1>4. /\ new \in Finisher /\ new.pc = "returned" /\ new.late = finisher[t].late
      /\ new.hook = finisher[t].hook /\ new.body = finisher[t].body
    BY <1>1, <1>3 DEF Finisher
<1>5. /\ finisher' = [finisher EXCEPT ![t] = new]
      /\ UNCHANGED <<handler, owed, object>> /\ faults' \in 0 .. MaxFaults
    BY <1>1, <1>3 DEF FinisherWrite, TypeOK
<1>6. /\ row' \in [Task -> Copy] /\ row'[t] \in Row /\ Honest(t, row'[t])
      /\ \A u \in Task \ {t} : row'[u] = row[u]
  <2>1. CASE finisher[t].body.status \in Final
      BY <1>1, <1>2, <2>1 DEF FinisherWrite, TypeOK
  <2>2. CASE finisher[t].body.status \notin Final
    <3>1. Saves(t, [finisher[t].body EXCEPT !.status = "T"])
        BY <2>2 DEF FinisherWrite
    <3>2. /\ row' \in [Task -> Copy] /\ row'[t] \in Row /\ row'[t].status = "T"
          /\ \A u \in Task \ {t} : row'[u] = row[u]
        BY <1>1, <1>2, <3>1, StatusSaved
    <3>3. QED
        BY <3>2 DEF Honest
  <2>3. QED
      BY <2>1, <2>2
<1>7. QED
    BY <1>1, <1>2, <1>4, <1>5, <1>6, FinisherGoesOn

LEMMA FinisherEndStep ==
    ASSUME IInv, NEW t \in Task, FinisherEnd(t)
    PROVE  IInv'
<1>1. TypeOK /\ finisher[t].pc = "returned"
    BY DEF IInv, FinisherEnd
<1>2. /\ Request(t).pc \notin {"off", "created", "scheduled", "loaded"}
      /\ finisher[t].hook \in Row
      /\ finisher[t].late \/ Request(t).pc = "done"
    BY <1>1, FinisherHas
<1>3. PICK new \in Finisher :
        /\ finisher' = [finisher EXCEPT ![t] = new]
        /\ new.pc = "done" /\ new.late = finisher[t].late
        /\ new.hook = NoRow /\ new.body = NoRow
    BY <1>1, FinisherMoved DEF FinisherEnd
<1>4. /\ [finisher[t].hook EXCEPT !.status = "D"] \in Row
      /\ [finisher[t].hook EXCEPT !.status = "D"].status = "D"
    BY <1>2, RowFields
<1>5. Saves(t, [[finisher[t].hook EXCEPT !.status = "D"] EXCEPT !.result = "message"])
    BY DEF FinisherEnd
<1>6. /\ row' \in [Task -> Copy] /\ row'[t] \in Row
      /\ row'[t].status = "D" /\ row'[t].result = "message"
      /\ \A u \in Task \ {t} : row'[u] = row[u]
    BY <1>1, <1>4, <1>5, ResultSaved
<1>7. Honest(t, new.hook) /\ Honest(t, new.body) /\ Honest(t, row'[t])
    BY <1>3, <1>6, NoRowAssumption DEF Honest
<1>8. UNCHANGED <<handler, owed, object>> /\ faults' \in 0 .. MaxFaults
    BY <1>1 DEF FinisherEnd, TypeOK
<1>9. QED
    BY <1>1, <1>2, <1>3, <1>6, <1>7, <1>8, FinisherGoesOn

LEMMA LoseFinisherStep ==
    ASSUME IInv, NEW t \in Task, NEW after \in {"waiting", "lost"}, LoseFinisher(t, after)
    PROVE  IInv'
<1>1. TypeOK /\ finisher[t].pc \in {"started", "loaded", "returned"} /\ FinisherMoves(t, after)
    BY DEF IInv, LoseFinisher
<1>2. /\ Request(t).pc \notin {"off", "created", "scheduled", "loaded"}
      /\ row[t] \in Row /\ Honest(t, row[t])
    BY <1>1, FinisherHas
<1>3. PICK new \in Finisher :
        /\ finisher' = [finisher EXCEPT ![t] = new]
        /\ new.pc = after /\ new.late = finisher[t].late
        /\ new.hook = NoRow /\ new.body = NoRow
    BY <1>1, FinisherMoved
<1>4. Honest(t, new.hook) /\ Honest(t, new.body)
    BY <1>3, NoRowAssumption DEF Honest
<1>5. /\ UNCHANGED <<row, handler, owed, object>> /\ faults' \in 0 .. MaxFaults
      /\ row \in [Task -> Copy]
    BY <1>1, BoundAssumption DEF LoseFinisher, Fault, TypeOK
<1>6. QED
    BY <1>1, <1>2, <1>3, <1>4, <1>5, FinisherGoesOn

LEMMA LoseViewStep ==
    ASSUME IInv, NEW t \in Task, NEW p \in Party, LoseView(<<t, p>>)
    PROVE  IInv'
<1>1. faults' \in 0 .. MaxFaults
    BY BoundAssumption DEF LoseView, Fault, IInv, TypeOK
<1>2. QED
    BY <1>1, ViewStops DEF LoseView

LEMMA RejectStep ==
    ASSUME IInv, NEW t \in Task, Reject(t)
    PROVE  IInv'
<1>1. /\ "callback" \in Party /\ handler[<<t, "callback">>].pc # "off"
      /\ Returns(<<t, "callback">>) /\ faults' \in 0 .. MaxFaults
    BY DEF Reject, Ends, Party, IInv, TypeOK
<1>2. QED
    BY <1>1, ViewStops DEF Reject

-----------------------------------------------------------------------------
(* The invariant and what follows from it *)

LEMMA StepInvariant == IInv /\ [Next]_vars => IInv'
<1> SUFFICES ASSUME IInv, [Next]_vars PROVE IInv'
    OBVIOUS
<1>1. CASE UNCHANGED vars
    BY <1>1 DEF vars, IInv, TypeOK, TaskInv, HoldsCopies, PendingCopy, CallbackIsFull, HonestCopies,
                Honest, WrittenInFull, InTime, Request, Answer
<1>2. ASSUME NEW t \in Task, RequestStep(t)
      PROVE  IInv'
    BY <1>2, CreateStep, ScheduleStep, LoadStep, PostStep, AnswerStep DEF RequestStep
<1>3. ASSUME NEW t \in Task, FinisherStep(t)
      PROVE  IInv'
    BY <1>3, FinisherStartStep, FinisherLoadStep, FinisherWriteStep, FinisherEndStep DEF FinisherStep
<1>4. ASSUME NEW t \in Task,
             \/ Callback(t) \/ Reject(t)
             \/ \E after \in {"waiting", "lost"} : LoseFinisher(t, after)
      PROVE  IInv'
    BY <1>4, CallbackStep, RejectStep, LoseFinisherStep
<1>5. ASSUME NEW h \in Task \X Party, ObjectStep(h) \/ LoseView(h)
      PROVE  IInv'
  <2>1. PICK t \in Task, p \in Party : h = <<t, p>>
      OBVIOUS
  <2>2. QED
      BY <1>5, <2>1, FindStep, WriteStep, FailStep, RecordStep, LoseViewStep DEF ObjectStep
<1>6. QED
    BY <1>1, <1>2, <1>3, <1>4, <1>5 DEF Next

LEMMA AlwaysInvariant == Spec => []IInv
BY InitInvariant, StepInvariant, PTL DEF Spec

(***************************************************************************)
(* Every handler writes rows of known statuses and results, and holds a    *)
(* loaded copy while it needs one, in every order of the three.            *)
(***************************************************************************)
THEOREM TypeCorrect == Spec => []TypeOK
<1>1. IInv => TypeOK
    BY DEF IInv
<1>2. QED
    BY <1>1, AlwaysInvariant, PTL

(***************************************************************************)
(* A task that says DONE and names its object has imported it in full: the *)
(* narrow answer leaves the pending status of a copy that was loaded       *)
(* before anybody else could write the row.                                *)
(***************************************************************************)
THEOREM DoneIsImported == Spec => []DoneNamesFull
<1>1. IInv => DoneNamesFull
    BY DEF IInv, TypeOK, TaskInv, HonestCopies, Honest, DoneNamesFull, Copy
<1>2. QED
    BY <1>1, AlwaysInvariant, PTL

(***************************************************************************)
(* When the finisher began after the request had returned, the row is not  *)
(* PENDING after it, whatever callbacks run at any time: no callback       *)
(* writes PENDING, and the request, the only one that does, is over.       *)
(***************************************************************************)
THEOREM SettledInTime == Spec => []InTimeSettled
<1>1. IInv => InTimeSettled
    BY DEF IInv, TaskInv, InTime, InTimeSettled
<1>2. QED
    BY <1>1, AlwaysInvariant, PTL

(***************************************************************************)
(* An object imported in full never falls back to the placeholder, in      *)
(* whatever order tasks that import the same object write it.              *)
(***************************************************************************)
THEOREM FullIsKept == Spec => FullStaysFull
<1>1. ASSUME IInv, [Next]_vars
      PROVE  \A s \in DOMAIN object : object[s] = "full" => object'[s] = "full"
  <2>1. DOMAIN object = {"instrument", "other"} /\ TypeOK
      BY <1>1 DEF IInv, TypeOK
  <2>2. ASSUME NEW h \in Task \X Party, Write(h)
        PROVE  \A s \in {"instrument", "other"} : object[s] = "full" => object'[s] = "full"
    <3>1. PICK t \in Task, p \in Party : h = <<t, p>>
        OBVIOUS
    <3>2. QED
        BY <2>1, <2>2, <3>1, WriteEffect
  <2>3. CASE UNCHANGED object
      BY <2>3
  <2>4. UNCHANGED object \/ \E h \in Task \X Party : Write(h)
      BY <1>1 DEF Next, vars, RequestStep, Create, Schedule, Load, Post, AnswerData, AnswerTask,
                  AnswerError, Callback, Reject, FinisherStep, FinisherStart, FinisherLoad,
                  FinisherWrite, FinisherEnd, LoseFinisher, ObjectStep, Find, Fail, Record, LoseView
  <2>5. QED
      BY <2>1, <2>2, <2>3, <2>4
<1>2. QED
    BY <1>1, AlwaysInvariant, PTL DEF Spec, FullStaysFull
=============================================================================
