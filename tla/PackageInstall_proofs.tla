------------------------ MODULE PackageInstall_proofs ------------------------
(***************************************************************************)
(* Proofs about PackageInstall, for any number of jobs, dependencies,      *)
(* workers, redeliveries and lost children: a task that is DONE installed  *)
(* everything, no dependency waits for a delivery that is over, and a      *)
(* second row or a second primary configuration comes from processes that  *)
(* met.                                                                    *)
(***************************************************************************)
EXTENDS PackageInstall, FiniteSetTheorems, TLAPS

Busy(w) == run[w].pc # "idle"

-----------------------------------------------------------------------------
(* Where a worker may be, and what it holds there *)

InPackage == {"start", "get", "find", "create", "clear", "save", "split", "failure"}

InPackagesDependency ==
    {"child", "find", "create", "clear", "save", "refresh", "progress", "download", "items",
     "refreshAgain", "progressAgain", "childDone", "next", "complete", "cancel", "failure"}

InSingle ==
    {"start", "get", "child", "find", "create", "clear", "save", "download", "items",
     "childDone", "next", "success", "failure"}

InPrimary == {"primary", "clear", "save", "actions", "done", "success"}

ZoneAt(j, pc, step) ==
    /\ step \in 0 .. Last(j) + 1
    /\ step = 0 => IsPackage(j) /\ pc \in InPackage
    /\ step \in 1 .. Last(j) => pc \in IF IsPackage(j) THEN InPackagesDependency ELSE InSingle
    /\ step = Last(j) + 1 =>
          /\ IsPackage(j) /\ pc \in InPrimary
          /\ pc \in {"primary", "clear", "save"} => order[j].primary # NoCode
    /\ pc = "complete" => step = Last(j)

Zone(w) == ZoneAt(JobOf(w), run[w].pc, run[w].step)

Holds(w) ==
    /\ run[w].pc \notin {"start", "get"} =>
          /\ run[w].body \in Row
          /\ IsPackage(JobOf(w)) /\ run[w].step > 0 => run[w].body.split
    /\ run[w].pc \in {"progress", "progressAgain"} => run[w].parent \in Row /\ run[w].parent.split
    /\ run[w].pc \in {"clear", "save"} =>
          run[w].copy \in Copy /\ run[w].copy.pos <= Len(conf[CodeOf(w)])

\* Messages and deliveries of a job: one, and one more for every redelivery.
Delivered(j) ==
    /\ row[j] = NoRow => queue[j] = 0 /\ begun[j] = 0
    /\ queue[j] + begun[j] <= 1 + faults
    /\ j \notin spoilt => queue[j] + begun[j] <= 1

\* Every worker has a delivery of its own, which has not ended.
OwnDelivery(w) ==
    /\ row[JobOf(w)] \in Row
    /\ run[w].delivery <= begun[JobOf(w)]
    /\ <<JobOf(w), run[w].delivery>> \notin ended
    /\ \A u \in Worker \ {w} :
          Busy(u) /\ JobOf(u) = JobOf(w) => run[u].delivery # run[w].delivery

TypeInv ==
    /\ TypeOK
    /\ \A w \in Worker : Busy(w) => Zone(w) /\ Holds(w) /\ OwnDelivery(w)
    /\ \A j \in Job : Delivered(j)
    /\ \A x \in ended : x[2] <= begun[x[1]]

-----------------------------------------------------------------------------
(* What a delivery has done so far *)

StatusIn(f, x) == IF x \in DOMAIN f THEN f[x] ELSE "none"

ChildAt(j, d, k) == StatusIn(child, <<j, d, k>>)
ImportAt(j, d, k) == StatusIn(import, <<j, d, k>>)

InstalledStep(j, d, k) == ImportAt(j, d, k) = "D" /\ (IsPackage(j) => ChildAt(j, d, k) = "D")

Installed(j, d) == \A k \in 1 .. Last(j) : InstalledStep(j, d, k)

\* The step k that a worker at pc is at.
PresentAt(j, d, k, pc) ==
    /\ pc \in {"start", "get", "child", "find", "create", "clear", "save", "refresh",
              "progress", "download"} => ImportAt(j, d, k) = "none"
    /\ pc = "items" => ImportAt(j, d, k) = "P"
    /\ pc \in {"refreshAgain", "progressAgain", "childDone"} => ImportAt(j, d, k) = "D"
    /\ pc \in {"next", "complete", "success"} => InstalledStep(j, d, k)
    /\ pc = "failure" /\ ~IsPackage(j) => ImportAt(j, d, k) # "D"
    /\ IsPackage(j) =>
          /\ pc = "child" => ChildAt(j, d, k) = "I"
          /\ pc \in {"find", "create", "clear", "save", "refresh", "progress", "download",
                    "items", "refreshAgain", "progressAgain", "childDone"}
                => ChildAt(j, d, k) = "P"
          /\ pc \in {"cancel", "failure"} => ChildAt(j, d, k) \in {"P", "E"}

LedgerAt(j, d, pc, step) ==
    /\ \A k \in 1 .. Last(j) :
          /\ k < step => InstalledStep(j, d, k)
          /\ k = step => PresentAt(j, d, k, pc)
          /\ k > step =>
                /\ ImportAt(j, d, k) = "none"
                /\ IsPackage(j) /\ step > 0 =>
                      ChildAt(j, d, k) = IF pc = "failure" THEN "C" ELSE "I"
    /\ \A k \in Nat \ {0} : ChildAt(j, d, k) # "none" =>
          IsPackage(j) /\ step > 0 /\ k \in 1 .. Last(j)

\* A row, or a copy of it, that says DONE.
Honest(j, r) == r \in Row /\ r.status = "D" => \E d \in 1 .. begun[j] : Installed(j, d)

Ledger ==
    /\ \A w \in Worker : Busy(w) =>
          /\ LedgerAt(JobOf(w), run[w].delivery, run[w].pc, run[w].step)
          /\ Honest(JobOf(w), run[w].body) /\ Honest(JobOf(w), run[w].parent)
    /\ \A j \in Job : Honest(j, row[j])
    /\ \A j \in Job, d \in Deliveries, k \in Nat \ {0} :
          /\ d > begun[j] => ChildAt(j, d, k) = "none" /\ ImportAt(j, d, k) = "none"
          /\ <<j, d>> \in ended => ChildAt(j, d, k) # "I"

-----------------------------------------------------------------------------
(* The rows of the configurations *)

Creates ==
    \A w \in Worker : run[w].pc = "create" =>
        conf[CodeOf(w)] = <<>> \/ CodeOf(w) \in raced

IsPrimary(c, p) == p \in DOMAIN conf[c] /\ conf[c][p].primary

\* Who is about to save a primary row has cleared the others.
Primaries ==
    ~crossed =>
        /\ \A c, e \in Code : \A p, q \in Nat :
              IsPrimary(c, p) /\ IsPrimary(e, q) => c = e /\ p = q
        /\ \A w \in Worker : SavingPrimary(w) =>
              \A c \in Code : \A p \in Nat :
                 IsPrimary(c, p) => c = CodeOf(w) /\ p = run[w].copy.pos

ConfInv == Creates /\ OneRowPerCode /\ Primaries

-----------------------------------------------------------------------------
(* Why a job fails *)

Blamed(j, r) == r \in Row /\ r.status = "E" => j \in spoilt

CauseOf(w) ==
    /\ Blamed(JobOf(w), run[w].body) /\ Blamed(JobOf(w), run[w].parent)
    /\ run[w].pc \in {"cancel", "failure"} => JobOf(w) \in spoilt
    /\ /\ JobOf(w) \notin spoilt /\ IsPackage(JobOf(w)) /\ run[w].step > 0
       /\ run[w].pc \notin {"success", "failure"}
       => row[JobOf(w)].split

Causes ==
    /\ \A j \in Job : Blamed(j, row[j])
    /\ \A w \in Worker : Busy(w) => CauseOf(w)

IInv == TypeInv /\ Ledger /\ ConfInv /\ Causes

-----------------------------------------------------------------------------
(* What a step does to the workers *)

\* Everything but alone, which others may take from a worker.
Same(u) ==
    /\ run'[u].pc = run[u].pc /\ run'[u].job = run[u].job
    /\ run'[u].delivery = run[u].delivery /\ run'[u].step = run[u].step
    /\ run'[u].hook = run[u].hook /\ run'[u].body = run[u].body
    /\ run'[u].parent = run[u].parent /\ run'[u].copy = run[u].copy

Moved(w, pc, step) ==
    /\ run' \in [Worker -> Running \cup {Idle}]
    /\ run'[w].pc = pc /\ run'[w].step = step
    /\ run'[w].job = run[w].job /\ run'[w].delivery = run[w].delivery
    /\ \A u \in Worker \ {w} : Same(u)

KeptBody(w) == run'[w].body = run[w].body
KeptParent(w) == run'[w].parent = run[w].parent
KeptCopy(w) == run'[w].copy = run[w].copy

LEMMA BusyRuns ==
    ASSUME TypeOK, NEW w \in Worker
    PROVE  /\ Busy(w) => run[w] \in Running /\ JobOf(w) \in Job
           /\ \A pcs : At(w, pcs) <=> run[w].pc \in pcs
<1>1. run[w] \in Running \cup {Idle} /\ Idle.pc = "idle"
    BY DEF TypeOK, Idle
<1>2. Busy(w) => run[w] \in Running
    BY <1>1 DEF Busy
<1>3. QED
    BY <1>2 DEF Running, JobOf, At

LEMMA Update ==
    ASSUME TypeOK, NEW w \in Worker, NEW new \in Running \cup {Idle},
           run' = [run EXCEPT ![w] = new]
    PROVE  /\ run' \in [Worker -> Running \cup {Idle}] /\ run'[w] = new
           /\ \A u \in Worker \ {w} : run'[u] = run[u] /\ Same(u)
BY DEF TypeOK, Same

LEMMA GoesMoves ==
    ASSUME TypeOK, NEW w \in Worker, Busy(w), NEW pc, Goes(w, pc),
           pc \in {"get", "find", "save", "cancel", "failure", "refreshAgain", "childDone",
                   "split", "actions", "done", "refresh", "download", "success"}
    PROVE  Moved(w, pc, run[w].step) /\ KeptBody(w) /\ KeptParent(w) /\ KeptCopy(w)
<1>1. run[w] \in Running
    BY BusyRuns
<1>2. PICK new : new = [run[w] EXCEPT !.pc = pc]
    OBVIOUS
<1>3. /\ new \in Running /\ new.pc = pc /\ new.step = run[w].step /\ new.job = run[w].job
      /\ new.delivery = run[w].delivery /\ new.body = run[w].body
      /\ new.parent = run[w].parent /\ new.copy = run[w].copy
    BY <1>1, <1>2 DEF Running
<1>4. run' = [run EXCEPT ![w] = new]
    BY <1>2 DEF Goes
<1>5. QED
    BY <1>3, <1>4, Update DEF Moved, KeptBody, KeptParent, KeptCopy

LEMMA GetMoves ==
    ASSUME TypeInv, NEW w \in Worker, Get(w)
    PROVE  /\ Moved(w, IF IsPackage(JobOf(w)) THEN "find" ELSE "child", run[w].step)
           /\ run'[w].body = row[JobOf(w)] /\ run'[w].body \in Row /\ KeptParent(w)
<1>1. /\ run[w] \in Running /\ run[w].pc = "get" /\ row[JobOf(w)] \in Row
    BY BusyRuns DEF Get, At, TypeInv, OwnDelivery, Busy
<1>2. PICK new : new = [run[w] EXCEPT !.pc = IF IsPackage(JobOf(w)) THEN "find" ELSE "child",
                                      !.body = row[JobOf(w)]]
    OBVIOUS
<1>3. /\ new \in Running /\ new.pc = (IF IsPackage(JobOf(w)) THEN "find" ELSE "child")
      /\ new.step = run[w].step /\ new.job = run[w].job
      /\ new.delivery = run[w].delivery /\ new.body = row[JobOf(w)]
      /\ new.parent = run[w].parent /\ new.copy = run[w].copy
    BY <1>1, <1>2 DEF Running
<1>4. run' = [run EXCEPT ![w] = new]
    BY <1>2 DEF Get
<1>5. QED
    BY <1>1, <1>3, <1>4, Update DEF Moved, KeptParent, TypeInv

\* What Look and Enters do: the others may lose alone, and nothing else.
LEMMA EntersMoves ==
    ASSUME TypeOK, NEW w \in Worker, Busy(w), NEW pc \in {"create", "clear", "save"},
           NEW copy \in Copy \cup {NoCopy}, Enters(w, pc, copy)
    PROVE  /\ Moved(w, pc, run[w].step) /\ KeptBody(w) /\ KeptParent(w)
           /\ run'[w].copy = copy
<1>1. run[w] \in Running
    BY BusyRuns
<1>2. PICK new : new = [run[w] EXCEPT !.pc = pc, !.copy = copy,
                                      !.alone = Others(w, CodeOf(w)) = {}]
    OBVIOUS
<1>3. (Others(w, CodeOf(w)) = {}) \in BOOLEAN
    OBVIOUS
<1>4. /\ new \in Running /\ new.pc = pc /\ new.step = run[w].step /\ new.job = run[w].job
      /\ new.delivery = run[w].delivery /\ new.body = run[w].body
      /\ new.parent = run[w].parent /\ new.copy = copy
  <2>1. PICK r : r = run[w]
      OBVIOUS
  <2>2. PICK alone \in BOOLEAN : alone = (Others(w, CodeOf(w)) = {})
      BY <1>3
  <2>3. r \in Running /\ new = [r EXCEPT !.pc = pc, !.copy = copy, !.alone = alone]
      BY <1>1, <1>2, <2>1, <2>2
  <2>4. new \in Running
      BY <2>3, Zenon DEF Running
  <2>5. /\ new.pc = pc /\ new.step = r.step /\ new.job = r.job /\ new.delivery = r.delivery
        /\ new.body = r.body /\ new.parent = r.parent /\ new.copy = copy
      BY <2>3 DEF Running
  <2>6. QED
      BY <2>1, <2>4, <2>5
<1>5. run' = [u \in Worker |-> IF u = w THEN new
                               ELSE IF u \in Others(w, CodeOf(w)) THEN [run[u] EXCEPT !.alone = FALSE]
                               ELSE run[u]]
    BY <1>2 DEF Enters
<1>6. ASSUME NEW u \in Worker \ {w}, u \in Others(w, CodeOf(w))
      PROVE  run[u] \in Running
    BY <1>6, BusyRuns DEF Others, Inside, At, Busy
<1>7. ASSUME NEW u \in Worker \ {w}
      PROVE  Same(u) /\ run'[u] \in Running \cup {Idle}
  <2>1. CASE u \in Others(w, CodeOf(w))
    <3>1. PICK other : other = [run[u] EXCEPT !.alone = FALSE]
        OBVIOUS
    <3>2. run[u] \in Running
        BY <1>6, <2>1
    <3>3. /\ other \in Running /\ other.pc = run[u].pc /\ other.step = run[u].step
          /\ other.job = run[u].job /\ other.delivery = run[u].delivery
          /\ other.hook = run[u].hook /\ other.body = run[u].body
          /\ other.parent = run[u].parent /\ other.copy = run[u].copy
        BY <3>1, <3>2 DEF Running
    <3>4. run'[u] = other
        BY <1>5, <2>1, <3>1
    <3>5. QED
        BY <3>3, <3>4 DEF Same
  <2>2. CASE u \notin Others(w, CodeOf(w))
    <3>1. run'[u] = run[u]
        BY <1>5, <2>2
    <3>2. QED
        BY <3>1 DEF Same, TypeOK
  <2>3. QED
      BY <2>1, <2>2
<1>8. run'[w] = new /\ DOMAIN run' = Worker
    BY <1>5
<1>9. run' \in [Worker -> Running \cup {Idle}]
  <2>1. \A u \in Worker : run'[u] \in Running \cup {Idle}
      BY <1>4, <1>7, <1>8
  <2>2. run' = [u \in Worker |-> run'[u]]
      BY <1>5
  <2>3. QED
      BY <2>1, <2>2
<1>10. QED
    BY <1>4, <1>7, <1>8, <1>9 DEF Moved, KeptBody, KeptParent

\* A worker at a configuration is at one of its code.
LEMMA CodeIsCode ==
    ASSUME TypeInv, NEW w \in Worker, Busy(w)
    PROVE  /\ JobOf(w) \in Job /\ run[w].step \in Nat
           /\ Last(JobOf(w)) \in Nat \ {0}
           /\ IsPackage(JobOf(w)) => order[JobOf(w)].package \in Code
           /\ ~IsPackage(JobOf(w)) => Last(JobOf(w)) = 1
           /\ InDependency(w) => CodeOf(w) \in Code
           /\ run[w].pc \in {"find", "create", "clear", "save", "primary"} => CodeOf(w) \in Code
<1>1. JobOf(w) \in Job /\ run[w] \in Running
    BY BusyRuns DEF TypeInv
<1>2. OrderOK(order[JobOf(w)])
    BY <1>1, OrdersAssumption DEF TypeInv, TypeOK
<1>3. Len(order[JobOf(w)].deps) \in Nat \ {0}
    BY <1>2 DEF OrderOK
<1>4. run[w].step \in Nat /\ Zone(w)
    BY <1>1 DEF Running, TypeInv
<1>5. InDependency(w) => CodeOf(w) \in Code
    BY <1>2, <1>3, <1>4 DEF OrderOK, InDependency, CodeOf, Last
<1>6. run[w].pc \in {"find", "create", "clear", "save", "primary"} => CodeOf(w) \in Code
  <2>1. CASE run[w].step = 0
      BY <1>2, <1>4, <2>1 DEF OrderOK, CodeOf, Zone, ZoneAt, IsPackage
  <2>2. CASE InDependency(w)
      BY <1>5, <2>2
  <2>3. CASE run[w].step = Last(JobOf(w)) + 1
      BY <1>2, <1>3, <1>4, <2>3 DEF OrderOK, CodeOf, Zone, ZoneAt, InDependency, Last, InPrimary
  <2>4. QED
      BY <1>3, <1>4, <2>1, <2>2, <2>3 DEF Zone, ZoneAt, InDependency, Last
<1>7. QED
    BY <1>1, <1>2, <1>3, <1>4, <1>5, <1>6 DEF OrderOK, IsPackage, Last

LEMMA LookMoves ==
    ASSUME TypeInv, NEW w \in Worker, Look(w)
    PROVE  /\ KeptBody(w) /\ KeptParent(w)
           /\ \/ /\ \/ Moved(w, "clear", run[w].step) /\ run'[w].copy.primary
                    \/ Moved(w, "save", run[w].step) /\ ~run'[w].copy.primary
                 /\ run'[w].copy \in Copy /\ run'[w].copy.pos = 1 /\ Len(conf[CodeOf(w)]) = 1
              \/ run[w].pc = "primary" /\ Moved(w, AfterSave(w), run[w].step)
              \/ /\ run[w].pc = "find" /\ Moved(w, "create", run[w].step)
                 /\ Len(conf[CodeOf(w)]) # 1
<1>1. /\ Busy(w) /\ run[w].pc \in {"find", "primary"} /\ run[w] \in Running /\ TypeOK
      /\ CodeOf(w) \in Code /\ JobOf(w) \in Job
    BY BusyRuns, CodeIsCode DEF Look, At, TypeInv, Busy
<1>2. CASE Found(CodeOf(w))
  <2>1. conf[CodeOf(w)][1] \in Configuration /\ Len(conf[CodeOf(w)]) = 1
    <3>1. conf[CodeOf(w)] \in Seq(Configuration)
        BY <1>1 DEF TypeOK
    <3>2. Len(conf[CodeOf(w)]) = 1
        BY <1>2 DEF Found
    <3>3. QED
        BY <3>1, <3>2
  <2>2. PICK copy : copy = Changed(w, conf[CodeOf(w)][1])
      OBVIOUS
  <2>3. copy \in Copy /\ copy.pos = 1
    <3>1. PICK r \in Configuration : r = conf[CodeOf(w)][1]
        BY <2>1
    <3>2. r.version \in Version /\ r.primary \in BOOLEAN /\ JobOf(w) \in Version
        BY <1>1, <3>1 DEF Configuration, Version
    <3>3. \A v \in Version, b \in BOOLEAN :
             [pos |-> 1, version |-> v, primary |-> b] \in Copy
        BY DEF Copy
    <3>4. QED
        BY <2>2, <3>1, <3>2, <3>3 DEF Changed
  <2>4. Enters(w, Saves(copy), copy)
      BY <1>2, <2>2 DEF Look
  <2>5. CASE copy.primary
      BY <1>1, <2>1, <2>3, <2>4, <2>5, EntersMoves DEF Saves
  <2>6. CASE ~copy.primary
      BY <1>1, <2>1, <2>3, <2>4, <2>6, EntersMoves DEF Saves
  <2>7. QED
      BY <2>5, <2>6
<1>3. CASE ~Found(CodeOf(w)) /\ run[w].pc = "primary"
  <2>1. Goes(w, AfterSave(w))
      BY <1>3 DEF Look, At
  <2>2. AfterSave(w) \in {"split", "actions", "done", "refresh", "download"}
      BY DEF AfterSave, AfterPrimary
  <2>3. QED
      BY <1>1, <1>3, <2>1, <2>2, GoesMoves
<1>4. CASE ~Found(CodeOf(w)) /\ run[w].pc = "find"
  <2>1. Enters(w, "create", NoCopy)
      BY <1>4 DEF Look, At
  <2>2. QED
      BY <1>1, <1>4, <2>1, EntersMoves DEF Found
<1>5. QED
    BY <1>1, <1>2, <1>3, <1>4

LEMMA CreateMoves ==
    ASSUME TypeInv, NEW w \in Worker, Create(w)
    PROVE  /\ Moved(w, "save", run[w].step) /\ KeptBody(w) /\ KeptParent(w)
           /\ run'[w].copy \in Copy /\ run'[w].copy.pos = Len(conf[CodeOf(w)]) + 1
           /\ run'[w].copy.primary = FALSE
<1>1. /\ Busy(w) /\ run[w] \in Running /\ TypeOK /\ CodeOf(w) \in Code /\ JobOf(w) \in Job
    BY BusyRuns, CodeIsCode DEF Create, At, TypeInv, Busy
<1>2. Len(conf[CodeOf(w)]) \in Nat
  <2>1. conf[CodeOf(w)] \in Seq(Configuration)
      BY <1>1 DEF TypeOK
  <2>2. QED
      BY <2>1
<1>3. PICK copy : copy = [pos |-> Len(conf[CodeOf(w)]) + 1, version |-> JobOf(w), primary |-> FALSE]
    OBVIOUS
<1>4. copy \in Copy /\ copy.pos = Len(conf[CodeOf(w)]) + 1 /\ copy.primary = FALSE
  <2>1. JobOf(w) \in Version
      BY <1>1 DEF Version
  <2>2. Len(conf[CodeOf(w)]) + 1 \in Nat \ {0}
      BY <1>2
  <2>3. \A n \in Nat \ {0}, v \in Version :
           [pos |-> n, version |-> v, primary |-> FALSE] \in Copy
      BY DEF Copy
  <2>4. QED
      BY <1>3, <2>1, <2>2, <2>3
<1>5. PICK new : new = [run[w] EXCEPT !.pc = "save", !.copy = copy]
    OBVIOUS
<1>6. /\ new \in Running /\ new.pc = "save" /\ new.copy = copy
      /\ new.step = run[w].step /\ new.job = run[w].job /\ new.delivery = run[w].delivery
      /\ new.body = run[w].body /\ new.parent = run[w].parent
    BY <1>1, <1>4, <1>5 DEF Running
<1>7. run' = [run EXCEPT ![w] = new]
    BY <1>3, <1>5 DEF Create
<1>8. QED
    BY <1>1, <1>4, <1>6, <1>7, Update DEF Moved, KeptBody, KeptParent

LEMMA SaveMoves ==
    ASSUME TypeInv, NEW w \in Worker, Save(w)
    PROVE  Moved(w, AfterSave(w), run[w].step) /\ KeptBody(w) /\ KeptParent(w)
<1>1. /\ Busy(w) /\ run[w] \in Running /\ TypeOK
    BY BusyRuns DEF Save, At, TypeInv, Busy
<1>2. AfterSave(w) \in {"split", "actions", "done", "refresh", "download"}
    BY DEF AfterSave, AfterPrimary
<1>3. PICK new : new = [run[w] EXCEPT !.pc = AfterSave(w), !.copy = NoCopy]
    OBVIOUS
<1>4. /\ new \in Running /\ new.pc = AfterSave(w)
      /\ new.step = run[w].step /\ new.job = run[w].job /\ new.delivery = run[w].delivery
      /\ new.body = run[w].body /\ new.parent = run[w].parent
    BY <1>1, <1>2, <1>3 DEF Running
<1>5. run' = [run EXCEPT ![w] = new]
    BY <1>3 DEF Save
<1>6. QED
    BY <1>1, <1>4, <1>5, Update DEF Moved, KeptBody, KeptParent

LEMMA SplitMoves ==
    ASSUME TypeInv, NEW w \in Worker, Split(w)
    PROVE  /\ Moved(w, "child", 1) /\ KeptParent(w)
           /\ run'[w].body = SplitOptions(w) /\ SplitOptions(w) \in Row
           /\ SplitOptions(w).split /\ SplitOptions(w).status = run[w].body.status
           /\ run[w].body \in Row
<1>1. /\ Busy(w) /\ run[w] \in Running /\ TypeOK /\ run[w].body \in Row
    BY BusyRuns DEF Split, At, TypeInv, Holds, Busy
<1>2. PICK body : body = SplitOptions(w)
    OBVIOUS
<1>3. body \in Row /\ body.split /\ body.status = run[w].body.status
    BY <1>1, <1>2 DEF SplitOptions, Row
<1>4. PICK new : new = [run[w] EXCEPT !.pc = "child", !.step = 1, !.body = body]
    OBVIOUS
<1>5. /\ new \in Running /\ new.pc = "child"
      /\ new.step = 1 /\ new.job = run[w].job /\ new.delivery = run[w].delivery
      /\ new.body = body /\ new.parent = run[w].parent
    BY <1>1, <1>3, <1>4 DEF Running
<1>6. run' = [run EXCEPT ![w] = new]
    BY <1>2, <1>4 DEF Split
<1>7. QED
    BY <1>1, <1>2, <1>3, <1>5, <1>6, Update DEF Moved, KeptParent

LEMMA RefreshMoves ==
    ASSUME TypeInv, NEW w \in Worker, Refresh(w)
    PROVE  /\ InDependency(w) /\ IsPackage(JobOf(w)) /\ KeptBody(w) /\ row[JobOf(w)] \in Row
           /\ \/ /\ row[JobOf(w)].split
                 /\ run'[w].parent = row[JobOf(w)]
                 /\ \/ run[w].pc = "refresh" /\ Moved(w, "progress", run[w].step)
                    \/ run[w].pc = "refreshAgain" /\ Moved(w, "progressAgain", run[w].step)
              \/ /\ ~row[JobOf(w)].split
                 /\ Moved(w, "cancel", run[w].step) /\ KeptParent(w)
<1>1. /\ Busy(w) /\ run[w].pc \in {"refresh", "refreshAgain"} /\ run[w] \in Running /\ TypeOK
      /\ row[JobOf(w)] \in Row /\ Zone(w)
    BY BusyRuns DEF Refresh, At, TypeInv, Busy, OwnDelivery
<1>2. InDependency(w) /\ IsPackage(JobOf(w)) /\ run[w].step > 0
    BY <1>1, CodeIsCode DEF Zone, ZoneAt, InDependency, InPackage, InPrimary, InSingle
<1>3. CASE row[JobOf(w)].split
  <2>1. PICK new : new = [run[w] EXCEPT !.parent = row[JobOf(w)],
                                        !.pc = IF @ = "refresh" THEN "progress" ELSE "progressAgain"]
      OBVIOUS
  <2>2. /\ new \in Running /\ new.parent = row[JobOf(w)]
        /\ new.pc = (IF run[w].pc = "refresh" THEN "progress" ELSE "progressAgain")
        /\ new.step = run[w].step /\ new.job = run[w].job /\ new.delivery = run[w].delivery
        /\ new.body = run[w].body
      BY <1>1, <2>1 DEF Running
  <2>3. run' = [run EXCEPT ![w] = new]
      BY <1>3, <2>1 DEF Refresh
  <2>4. QED
      BY <1>1, <1>2, <1>3, <2>2, <2>3, Update DEF Moved, KeptBody
<1>4. CASE ~row[JobOf(w)].split
  <2>1. Goes(w, "cancel")
      BY <1>2, <1>4 DEF Refresh, Goes, AfterRaise
  <2>2. QED
      BY <1>1, <1>2, <1>4, <2>1, GoesMoves
<1>5. QED
    BY <1>3, <1>4

LEMMA ProgressMoves ==
    ASSUME TypeInv, NEW w \in Worker, Progress(w)
    PROVE  /\ KeptBody(w) /\ run'[w].parent = NoCopy
           /\ run[w].parent \in Row /\ run[w].parent.split
           /\ \/ run[w].pc = "progress" /\ Moved(w, "download", run[w].step)
              \/ run[w].pc = "progressAgain" /\ Moved(w, "childDone", run[w].step)
<1>1. /\ Busy(w) /\ run[w].pc \in {"progress", "progressAgain"} /\ run[w] \in Running /\ TypeOK
      /\ run[w].parent \in Row /\ run[w].parent.split
    BY BusyRuns DEF Progress, At, TypeInv, Busy, Holds
<1>2. PICK new : new = [run[w] EXCEPT !.parent = NoCopy,
                                      !.pc = IF @ = "progress" THEN "download" ELSE "childDone"]
    OBVIOUS
<1>3. /\ new \in Running /\ new.parent = NoCopy
      /\ new.pc = (IF run[w].pc = "progress" THEN "download" ELSE "childDone")
      /\ new.step = run[w].step /\ new.job = run[w].job /\ new.delivery = run[w].delivery
      /\ new.body = run[w].body
    BY <1>1, <1>2 DEF Running
<1>4. run' = [run EXCEPT ![w] = new]
    BY <1>2 DEF Progress
<1>5. QED
    BY <1>1, <1>3, <1>4, Update DEF Moved, KeptBody

LEMMA ChildDoneMoves ==
    ASSUME TypeInv, NEW w \in Worker, ChildDone(w)
    PROVE  Moved(w, "next", run[w].step) /\ KeptBody(w) /\ KeptParent(w)
<1>1. Busy(w) /\ run[w] \in Running /\ TypeOK
    BY BusyRuns DEF ChildDone, At, TypeInv, Busy
<1>2. PICK new : new = [run[w] EXCEPT !.pc = "next", !.refused = {}, !.alone = FALSE]
    OBVIOUS
<1>3. /\ new \in Running /\ new.pc = "next"
      /\ new.step = run[w].step /\ new.job = run[w].job /\ new.delivery = run[w].delivery
      /\ new.body = run[w].body /\ new.parent = run[w].parent
    BY <1>1, <1>2 DEF Running
<1>4. run' = [run EXCEPT ![w] = new]
    BY <1>2 DEF ChildDone
<1>5. QED
    BY <1>1, <1>3, <1>4, Update DEF Moved, KeptBody, KeptParent

LEMMA NextMoves ==
    ASSUME TypeInv, NEW w \in Worker, NextDependency(w)
    PROVE  /\ InDependency(w) /\ KeptBody(w) /\ KeptParent(w)
           /\ \/ ~IsPackage(JobOf(w)) /\ Moved(w, "success", run[w].step)
              \/ /\ IsPackage(JobOf(w)) /\ run[w].step = Last(JobOf(w))
                 /\ Moved(w, "complete", run[w].step)
              \/ /\ IsPackage(JobOf(w)) /\ run[w].step < Last(JobOf(w))
                 /\ Moved(w, "child", run[w].step + 1)
<1>1. /\ Busy(w) /\ run[w].pc = "next" /\ run[w] \in Running /\ TypeOK /\ Zone(w)
    BY BusyRuns DEF NextDependency, At, TypeInv, Busy
<1>2. InDependency(w) /\ run[w].step \in Nat /\ run[w].step <= Last(JobOf(w))
      /\ Last(JobOf(w)) \in Nat
    BY <1>1, CodeIsCode DEF Zone, ZoneAt, InDependency, InPackage, InPrimary
<1>3. CASE ~IsPackage(JobOf(w))
  <2>1. Goes(w, "success")
      BY <1>3 DEF NextDependency, Goes
  <2>2. QED
      BY <1>1, <1>2, <1>3, <2>1, GoesMoves
<1>4. CASE IsPackage(JobOf(w))
  <2>1. PICK new : new = IF run[w].step = Last(JobOf(w)) THEN [run[w] EXCEPT !.pc = "complete"]
                         ELSE [run[w] EXCEPT !.pc = "child", !.step = run[w].step + 1]
      OBVIOUS
  <2>2. run' = [run EXCEPT ![w] = new]
      BY <1>4, <2>1 DEF NextDependency
  <2>3. CASE run[w].step = Last(JobOf(w))
    <3>1. /\ new \in Running /\ new.pc = "complete"
          /\ new.step = run[w].step /\ new.job = run[w].job /\ new.delivery = run[w].delivery
          /\ new.body = run[w].body /\ new.parent = run[w].parent
        BY <1>1, <2>1, <2>3 DEF Running
    <3>2. QED
        BY <1>1, <1>2, <1>4, <2>2, <2>3, <3>1, Update DEF Moved, KeptBody, KeptParent
  <2>4. CASE run[w].step # Last(JobOf(w))
    <3>1. PICK n \in Nat : n = run[w].step + 1
        BY <1>2
    <3>2. /\ new \in Running /\ new.pc = "child"
          /\ new.step = n /\ new.job = run[w].job /\ new.delivery = run[w].delivery
          /\ new.body = run[w].body /\ new.parent = run[w].parent
        BY <1>1, <2>1, <2>4, <3>1 DEF Running
    <3>3. run[w].step < Last(JobOf(w))
        BY <1>2, <2>4
    <3>4. QED
        BY <1>1, <1>2, <1>4, <2>2, <3>1, <3>2, <3>3, Update DEF Moved, KeptBody, KeptParent
  <2>5. QED
      BY <2>3, <2>4
<1>5. QED
    BY <1>3, <1>4

LEMMA CompleteMoves ==
    ASSUME TypeInv, NEW w \in Worker, Complete(w)
    PROVE  /\ InDependency(w) /\ IsPackage(JobOf(w)) /\ run[w].step = Last(JobOf(w))
           /\ KeptBody(w) /\ KeptParent(w)
           /\ \/ order[JobOf(w)].primary # NoCode /\ Moved(w, "primary", Last(JobOf(w)) + 1)
              \/ Moved(w, "actions", Last(JobOf(w)) + 1)
              \/ Moved(w, "done", Last(JobOf(w)) + 1)
<1>1. /\ Busy(w) /\ run[w].pc = "complete" /\ run[w] \in Running /\ TypeOK /\ Zone(w)
    BY BusyRuns DEF Complete, At, TypeInv, Busy
<1>2. /\ InDependency(w) /\ IsPackage(JobOf(w)) /\ run[w].step = Last(JobOf(w))
    BY <1>1, CodeIsCode DEF Zone, ZoneAt, InDependency, InPackage, InPrimary, InSingle
<1>3. PICK n \in Nat : n = Last(JobOf(w)) + 1
    BY <1>1, CodeIsCode
<1>4. PICK pc \in {"primary", "actions", "done"} :
        /\ pc = IF order[JobOf(w)].primary = NoCode THEN AfterPrimary(JobOf(w)) ELSE "primary"
        /\ pc = "primary" => order[JobOf(w)].primary # NoCode
    BY DEF AfterPrimary
<1>5. PICK new : new = [run[w] EXCEPT !.step = n, !.pc = pc]
    OBVIOUS
<1>6. /\ new \in Running /\ new.pc = pc
      /\ new.step = n /\ new.job = run[w].job /\ new.delivery = run[w].delivery
      /\ new.body = run[w].body /\ new.parent = run[w].parent
    BY <1>1, <1>5 DEF Running
<1>7. run' = [run EXCEPT ![w] = new]
    BY <1>3, <1>4, <1>5 DEF Complete
<1>8. QED
    BY <1>1, <1>2, <1>3, <1>4, <1>6, <1>7, Update DEF Moved, KeptBody, KeptParent

\* The import and its items.
LEMMA ImportMoves ==
    ASSUME TypeInv, NEW w \in Worker,
           Download(w) \/ \E i \in Item : ImportItem(w, i) \/ RefuseItem(w, i)
    PROVE  Moved(w, "items", run[w].step) /\ KeptBody(w) /\ KeptParent(w)
<1>1. Busy(w) /\ run[w] \in Running /\ TypeOK
    BY BusyRuns DEF Download, ImportItem, RefuseItem, At, TypeInv, Busy
<1>2. run[w].left \in SUBSET Item /\ run[w].refused \in SUBSET Item
    BY <1>1 DEF Running
<1>3. PICK new \in Running :
        /\ run' = [run EXCEPT ![w] = new] /\ new.pc = "items"
        /\ new.step = run[w].step /\ new.job = run[w].job /\ new.delivery = run[w].delivery
        /\ new.body = run[w].body /\ new.parent = run[w].parent
  <2>1. CASE Download(w)
    <3>1. PICK new : new = [run[w] EXCEPT !.pc = "items", !.left = Item]
        OBVIOUS
    <3>2. /\ new \in Running /\ new.pc = "items"
          /\ new.step = run[w].step /\ new.job = run[w].job /\ new.delivery = run[w].delivery
          /\ new.body = run[w].body /\ new.parent = run[w].parent
        BY <1>1, <3>1 DEF Running
    <3>3. run' = [run EXCEPT ![w] = new]
        BY <2>1, <3>1 DEF Download
    <3>4. QED
        BY <3>2, <3>3
  <2>2. ASSUME NEW i \in Item, ImportItem(w, i)
        PROVE  \E new \in Running :
                  /\ run' = [run EXCEPT ![w] = new] /\ new.pc = "items"
                  /\ new.step = run[w].step /\ new.job = run[w].job /\ new.delivery = run[w].delivery
                  /\ new.body = run[w].body /\ new.parent = run[w].parent
    <3>1. PICK new : new = [run[w] EXCEPT !.left = run[w].left \ {i}]
        OBVIOUS
    <3>2. run[w].pc = "items"
        BY <2>2 DEF ImportItem, At
    <3>3. /\ new \in Running /\ new.pc = "items"
          /\ new.step = run[w].step /\ new.job = run[w].job /\ new.delivery = run[w].delivery
          /\ new.body = run[w].body /\ new.parent = run[w].parent
        BY <1>1, <1>2, <3>1, <3>2 DEF Running
    <3>4. run' = [run EXCEPT ![w] = new]
        BY <2>2, <3>1 DEF ImportItem
    <3>5. QED
        BY <3>3, <3>4
  <2>3. ASSUME NEW i \in Item, RefuseItem(w, i)
        PROVE  \E new \in Running :
                  /\ run' = [run EXCEPT ![w] = new] /\ new.pc = "items"
                  /\ new.step = run[w].step /\ new.job = run[w].job /\ new.delivery = run[w].delivery
                  /\ new.body = run[w].body /\ new.parent = run[w].parent
    <3>1. PICK new : new = [run[w] EXCEPT !.left = run[w].left \ {i},
                                          !.refused = run[w].refused \cup {i}]
        OBVIOUS
    <3>2. run[w].pc = "items" /\ run[w].refused \cup {i} \in SUBSET Item
        BY <1>2, <2>3 DEF RefuseItem, At
    <3>3. /\ new \in Running /\ new.pc = "items"
          /\ new.step = run[w].step /\ new.job = run[w].job /\ new.delivery = run[w].delivery
          /\ new.body = run[w].body /\ new.parent = run[w].parent
        BY <1>1, <1>2, <3>1, <3>2 DEF Running
    <3>4. run' = [run EXCEPT ![w] = new]
        BY <2>3, <3>1 DEF RefuseItem
    <3>5. QED
        BY <3>3, <3>4
  <2>4. QED
      BY <2>1, <2>2, <2>3
<1>4. QED
    BY <1>1, <1>3, Update DEF Moved, KeptBody, KeptParent

\* A process that ends, or is lost.
LEMMA IdleMoves ==
    ASSUME TypeInv, NEW w \in Worker, run' = [run EXCEPT ![w] = Idle]
    PROVE  /\ run' \in [Worker -> Running \cup {Idle}] /\ run'[w].pc = "idle"
           /\ \A u \in Worker \ {w} : Same(u)
BY Update DEF TypeInv, Idle

-----------------------------------------------------------------------------
(* Types and places *)

\* A status that is set; the others are as before.
LEMMA SetStatus ==
    ASSUME NEW f, NEW S, DOMAIN f \subseteq Keys, \A x \in DOMAIN f : f[x] \in S,
           NEW k \in Keys, NEW v \in S, NEW g, g = Set(f, k, v)
    PROVE  /\ DOMAIN g \subseteq Keys /\ \A x \in DOMAIN g : g[x] \in S
           /\ \A x : StatusIn(g, x) = IF x = k THEN v ELSE StatusIn(f, x)
<1>1. /\ DOMAIN g = DOMAIN f \cup {k}
      /\ \A x \in DOMAIN g : g[x] = IF x = k THEN v ELSE f[x]
    BY DEF Set
<1>2. QED
    BY <1>1 DEF StatusIn

LEMMA KeyIsKey ==
    ASSUME TypeInv, NEW w \in Worker, Busy(w)
    PROVE  /\ run[w].delivery \in Deliveries
           /\ \A k \in Nat \ {0} : KeyAt(w, k) \in Keys
           /\ run[w].step > 0 => Key(w) \in Keys
<1>1. run[w] \in Running /\ JobOf(w) \in Job
    BY BusyRuns DEF TypeInv
<1>2. run[w].delivery \in Deliveries /\ run[w].step \in Nat
    BY <1>1 DEF Running
<1>3. QED
    BY <1>1, <1>2 DEF KeyAt, Key, Keys

\* The messages of the jobs, when a step sends and takes none.
LEMMA DeliveredKept ==
    ASSUME TypeInv, UNCHANGED <<queue, begun>>, faults' = faults \/ faults' = faults + 1,
           spoilt \subseteq spoilt', \A j \in Job : row'[j] = row[j] \/ row'[j] # NoRow
    PROVE  \A j \in Job : Delivered(j)'
<1> SUFFICES ASSUME NEW j \in Job PROVE Delivered(j)'
    OBVIOUS
<1>1. /\ queue[j] \in Nat /\ begun[j] \in Nat /\ faults \in Nat /\ Delivered(j)
  <2>1. /\ queue \in [Job -> Nat] /\ begun \in [Job -> 0 .. MaxFaults + 1]
        /\ faults \in 0 .. MaxFaults
      BY DEF TypeInv, TypeOK
  <2>2. Delivered(j)
      BY DEF TypeInv
  <2>3. queue[j] \in Nat /\ begun[j] \in 0 .. MaxFaults + 1
      BY <2>1
  <2>4. QED
      BY <2>1, <2>2, <2>3, FaultsAssumption
<1>2. queue[j] + begun[j] <= 1 + faults /\ queue[j] + begun[j] <= 1 + (faults + 1)
    BY <1>1 DEF Delivered
<1>3. QED
    BY <1>1, <1>2 DEF Delivered

\* A step of a worker keeps the places of the others.
LEMMA WorkerStep ==
    ASSUME TypeInv, TypeOK', NEW w \in Worker, Busy(w), UNCHANGED <<order, begun>>,
           \A u \in Worker \ {w} : Same(u),
           run'[w].pc # "idle" =>
              /\ run'[w].job = run[w].job /\ run'[w].delivery = run[w].delivery
              /\ Zone(w)' /\ Holds(w)',
           \A j \in Job : row'[j] = row[j] \/ row'[j] \in Row,
           \A c \in Code : \A n \in Nat : n <= Len(conf[c]) => n <= Len(conf'[c]),
           \/ ended' = ended
           \/ run'[w].pc = "idle" /\ ended' = ended \cup {<<JobOf(w), run[w].delivery>>},
           \A j \in Job : Delivered(j)'
    PROVE  TypeInv'
<1>1. \A u \in Worker : Busy(u) => JobOf(u) \in Job /\ Zone(u) /\ Holds(u) /\ OwnDelivery(u)
    BY BusyRuns DEF TypeInv
<1>2. \A u \in Worker : Busy(u)' => Busy(u) /\ JobOf(u)' = JobOf(u) /\ run'[u].delivery = run[u].delivery
    BY DEF Busy, JobOf, Same
<1>3. ASSUME NEW u \in Worker \ {w}, Busy(u)'
      PROVE  Zone(u)' /\ Holds(u)'
  <2>1. Busy(u) /\ JobOf(u)' = JobOf(u) /\ IsPackage(JobOf(u))' = IsPackage(JobOf(u))
        /\ CodeOf(u)' = CodeOf(u) /\ Last(JobOf(u))' = Last(JobOf(u))
        /\ InDependency(u)' = InDependency(u)
      BY <1>2, <1>3 DEF Same, JobOf, IsPackage, CodeOf, Last, InDependency
  <2>2. Zone(u)'
      BY <1>1, <2>1 DEF Zone, ZoneAt, Same
  <2>3. /\ run[u].pc \in {"clear", "save"} => CodeOf(u) \in Code
        /\ run[u].copy \in Copy => run[u].copy.pos \in Nat
      BY <2>1, CodeIsCode DEF Copy
  <2>4. Holds(u)'
      BY <1>1, <2>1, <2>3 DEF Holds, Same
  <2>5. QED
      BY <2>2, <2>4
<1>4. ASSUME NEW u \in Worker, Busy(u)'
      PROVE  OwnDelivery(u)'
  <2>1. /\ Busy(u) /\ JobOf(u) \in Job /\ OwnDelivery(u)
      BY <1>1, <1>2, <1>4
  <2>2. row'[JobOf(u)] \in Row
      BY <2>1 DEF OwnDelivery
  <2>3. \A v \in Worker \ {u} : Busy(v)' /\ JobOf(v)' = JobOf(u)' =>
            run'[v].delivery # run'[u].delivery
      BY <1>2, <1>4, <2>1 DEF OwnDelivery
  <2>4. <<JobOf(u), run[u].delivery>> \notin ended'
    <3>1. CASE u = w
        BY <1>4, <2>1, <3>1 DEF OwnDelivery, Busy
    <3>2. CASE u # w
        BY <2>1, <3>2 DEF OwnDelivery
    <3>3. QED
        BY <3>1, <3>2
  <2>5. QED
      BY <1>2, <1>4, <2>1, <2>2, <2>3, <2>4 DEF OwnDelivery
<1>5. \A x \in ended' : x[2] <= begun'[x[1]]
  <2>1. run[w].delivery <= begun[JobOf(w)]
      BY <1>1 DEF OwnDelivery
  <2>2. \A x \in ended : x[2] <= begun[x[1]]
      BY DEF TypeInv
  <2>3. QED
      BY <2>1, <2>2
<1>6. \A u \in Worker : Busy(u)' => Zone(u)' /\ Holds(u)'
    BY <1>3 DEF Busy
<1>7. QED
    BY <1>4, <1>5, <1>6 DEF TypeInv

LEMMA ZoneMoves ==
    ASSUME NEW w \in Worker, NEW pc, NEW step, Moved(w, pc, step), UNCHANGED order
    PROVE  /\ Zone(w) <=> ZoneAt(JobOf(w), run[w].pc, run[w].step)
           /\ Zone(w)' <=> ZoneAt(JobOf(w), pc, step)
           /\ JobOf(w)' = JobOf(w) /\ IsPackage(JobOf(w))' = IsPackage(JobOf(w))
           /\ Last(JobOf(w))' = Last(JobOf(w))
           /\ step = run[w].step => CodeOf(w)' = CodeOf(w)
<1>1. JobOf(w)' = JobOf(w) /\ run'[w].pc = pc /\ run'[w].step = step
    BY DEF Moved, JobOf
<1>2. /\ IsPackage(JobOf(w))' = IsPackage(JobOf(w)) /\ Last(JobOf(w))' = Last(JobOf(w))
      /\ InDependency(w)' <=> step \in 1 .. Last(JobOf(w))
    BY <1>1 DEF IsPackage, Last, InDependency
<1>3. step = run[w].step => CodeOf(w)' = CodeOf(w)
    BY <1>1, <1>2 DEF CodeOf, InDependency
<1>4. Zone(w) <=> ZoneAt(JobOf(w), run[w].pc, run[w].step)
    BY DEF Zone
<1>5. Zone(w)' <=> ZoneAt(JobOf(w), pc, step)
    BY <1>1, <1>2 DEF Zone, ZoneAt
<1>6. QED
    BY <1>1, <1>2, <1>3, <1>4, <1>5

LEMMA RowSaved ==
    ASSUME TypeOK, NEW j \in Job, NEW r \in Row, row' = [row EXCEPT ![j] = r]
    PROVE  /\ row' \in [Job -> Row \cup {NoRow}] /\ row'[j] = r /\ r # NoRow
           /\ \A i \in Job : row'[i] = row[i] \/ row'[i] \in Row
           /\ \A i \in Job \ {j} : row'[i] = row[i]
BY RowAssumption DEF TypeOK

LEMMA StatusChanged ==
    ASSUME NEW r \in Row, NEW s \in {"I", "P", "D", "E"}
    PROVE  /\ [r EXCEPT !.status = s] \in Row
           /\ [r EXCEPT !.status = s].status = s
           /\ [r EXCEPT !.status = s].split = r.split
BY DEF Row

\* Steps that save the row of their job, or none, and otherwise move the worker.
LEMMA RowStep ==
    ASSUME TypeInv, NEW w \in Worker, Busy(w), NEW pc, NEW step, Moved(w, pc, step),
           pc # "idle", ZoneAt(JobOf(w), pc, step), Holds(w)',
           UNCHANGED <<order, begun, queue, import, conf, content, histories>>,
           UNCHANGED child \/ (DOMAIN child' \subseteq Keys
              /\ \A x \in DOMAIN child' : child'[x] \in {"I", "P", "D", "E", "C"}),
           UNCHANGED faults,
           \/ UNCHANGED row
           \/ \E r \in Row : row' = [row EXCEPT ![JobOf(w)] = r]
    PROVE  TypeInv'
<1>1. JobOf(w) \in Job /\ TypeOK
    BY BusyRuns DEF TypeInv
<1>2. /\ row' \in [Job -> Row \cup {NoRow}]
      /\ \A i \in Job : row'[i] = row[i] \/ (row'[i] \in Row /\ row'[i] # NoRow)
    BY <1>1, RowSaved, RowAssumption DEF TypeOK
<1>3. TypeOK'
    BY <1>1, <1>2 DEF TypeOK, Moved, histories
<1>4. \A j \in Job : Delivered(j)'
    BY <1>2, DeliveredKept DEF histories
<1>5. Zone(w)'
    BY ZoneMoves
<1>6. QED
    BY <1>2, <1>3, <1>4, <1>5, WorkerStep DEF Moved, histories

LEMMA BeforeStartStep ==
    ASSUME TypeInv, NEW w \in Worker, BeforeStart(w)
    PROVE  TypeInv'
<1>1. /\ Busy(w) /\ run[w].pc = "start" /\ run[w] \in Running /\ run[w].hook \in Row
    BY BusyRuns DEF BeforeStart, At, Busy, TypeInv, Running
<1>2. Moved(w, "get", run[w].step)
    BY <1>1, GoesMoves DEF BeforeStart, TypeInv
<1>3. ZoneAt(JobOf(w), "get", run[w].step)
  <2>1. ZoneAt(JobOf(w), "start", run[w].step)
      BY <1>1, <1>2, ZoneMoves DEF TypeInv, BeforeStart
  <2>2. QED
      BY <2>1 DEF ZoneAt, InPackage, InPackagesDependency, InSingle, InPrimary
<1>4. Holds(w)'
    BY <1>2 DEF Holds, Moved
<1>5. QED
    BY <1>1, <1>2, <1>3, <1>4, RowStep DEF BeforeStart

LEMMA GetStep ==
    ASSUME TypeInv, NEW w \in Worker, Get(w)
    PROVE  TypeInv'
<1>1. /\ Busy(w) /\ run[w].pc = "get" /\ run[w] \in Running
    BY BusyRuns DEF Get, At, Busy, TypeInv
<1>2. PICK pc \in {"find", "child"} :
        /\ pc = IF IsPackage(JobOf(w)) THEN "find" ELSE "child"
        /\ Moved(w, pc, run[w].step) /\ run'[w].body \in Row
    BY GetMoves
<1>3. ZoneAt(JobOf(w), "get", run[w].step)
    BY <1>1, <1>2, ZoneMoves DEF TypeInv, Get
<1>4. ZoneAt(JobOf(w), pc, run[w].step)
    BY <1>2, <1>3 DEF ZoneAt, InPackage, InPackagesDependency, InSingle, InPrimary
<1>5. Holds(w)'
  <2>1. IsPackage(JobOf(w)) => run[w].step = 0
      BY <1>3, CodeIsCode, <1>1 DEF ZoneAt, InPackagesDependency, InPrimary
  <2>2. JobOf(w)' = JobOf(w) /\ IsPackage(JobOf(w))' = IsPackage(JobOf(w))
      BY <1>2, ZoneMoves DEF Get
  <2>3. QED
      BY <1>2, <2>1, <2>2 DEF Holds, Moved
<1>6. QED
    BY <1>1, <1>2, <1>4, <1>5, RowStep DEF Get, tables, histories

\* A worker past its start keeps its copy of the row.
LEMMA HoldsMoves ==
    ASSUME TypeInv, NEW w \in Worker, Busy(w), NEW pc, NEW step, Moved(w, pc, step),
           UNCHANGED order, run[w].pc \notin {"start", "get"}, KeptBody(w),
           step = run[w].step \/ run[w].step > 0,
           pc \notin {"progress", "progressAgain", "clear", "save"}
    PROVE  Holds(w)'
<1>1. Holds(w)
    BY DEF TypeInv
<1>2. JobOf(w)' = JobOf(w) /\ IsPackage(JobOf(w))' = IsPackage(JobOf(w))
    BY ZoneMoves
<1>3. /\ run'[w].pc = pc /\ run'[w].step = step /\ run'[w].body = run[w].body
    BY DEF Moved, KeptBody
<1>4. run[w].step \in Nat /\ (step > 0 => run[w].step > 0)
    BY CodeIsCode
<1>5. QED
    BY <1>1, <1>2, <1>3, <1>4 DEF Holds

\* The status that an installation writes, on its own task or on the row.
LEMMA MarkStatus ==
    ASSUME TypeInv, NEW w \in Worker, Busy(w), run[w].body \in Row,
           NEW s \in {"P", "D", "E"}, Mark(w, s)
    PROVE  /\ DOMAIN child' \subseteq Keys
           /\ \A x \in DOMAIN child' : child'[x] \in {"I", "P", "D", "E", "C"}
           /\ \/ UNCHANGED row
              \/ \E r \in Row : row' = [row EXCEPT ![JobOf(w)] = r]
<1>1. DOMAIN child \subseteq Keys /\ \A x \in DOMAIN child : child[x] \in {"I", "P", "D", "E", "C"}
    BY DEF TypeInv, TypeOK
<1>2. CASE IsPackage(JobOf(w)) /\ run[w].step > 0
  <2>1. child' = Set(child, Key(w), s) /\ UNCHANGED row
      BY <1>2 DEF Mark
  <2>2. Key(w) \in Keys
      BY <1>2, KeyIsKey
  <2>3. \A x \in DOMAIN child' : child'[x] \in {"I", "P", "D", "E", "C"}
      BY <1>1, <2>1 DEF Set
  <2>4. QED
      BY <1>1, <2>1, <2>2, <2>3 DEF Set
<1>3. CASE ~(IsPackage(JobOf(w)) /\ run[w].step > 0)
  <2>1. PICK r \in Row : r = [run[w].body EXCEPT !.status = s]
      BY StatusChanged
  <2>2. row' = [row EXCEPT ![JobOf(w)] = r] /\ UNCHANGED child
      BY <1>3, <2>1 DEF Mark
  <2>3. QED
      BY <1>1, <2>2
<1>4. QED
    BY <1>2, <1>3

LEMMA ChildStep ==
    ASSUME TypeInv, NEW w \in Worker, Child(w)
    PROVE  TypeInv'
<1>1. /\ Busy(w) /\ run[w].pc = "child" /\ run[w] \in Running /\ run[w].body \in Row /\ UNCHANGED order
    BY BusyRuns DEF Child, At, Busy, TypeInv, Holds
<1>2. Moved(w, "find", run[w].step) /\ KeptBody(w)
    BY <1>1, GoesMoves DEF Child, TypeInv
<1>3. ZoneAt(JobOf(w), "find", run[w].step)
  <2>1. ZoneAt(JobOf(w), "child", run[w].step)
      BY <1>1, <1>2, ZoneMoves DEF TypeInv, Child
  <2>2. QED
      BY <2>1 DEF ZoneAt, InPackage, InPackagesDependency, InSingle, InPrimary
<1>4. Holds(w)'
    BY <1>1, <1>2, HoldsMoves
<1>5. QED
    BY <1>1, <1>2, <1>3, <1>4, MarkStatus, RowStep DEF Child

LEMMA CancelRestStep ==
    ASSUME TypeInv, NEW w \in Worker, CancelRest(w)
    PROVE  TypeInv'
<1>1. /\ Busy(w) /\ run[w].pc = "cancel" /\ UNCHANGED order
    BY DEF CancelRest, At, Busy
<1>2. Moved(w, "failure", run[w].step) /\ KeptBody(w)
    BY <1>1, GoesMoves DEF CancelRest, TypeInv
<1>3. ZoneAt(JobOf(w), "failure", run[w].step)
  <2>1. ZoneAt(JobOf(w), "cancel", run[w].step)
      BY <1>1, <1>2, ZoneMoves DEF TypeInv
  <2>2. QED
      BY <2>1 DEF ZoneAt, InPackage, InPackagesDependency, InSingle, InPrimary
<1>4. Holds(w)'
    BY <1>1, <1>2, HoldsMoves
<1>5. DOMAIN child' \subseteq Keys /\ \A x \in DOMAIN child' : child'[x] \in {"I", "P", "D", "E", "C"}
    BY DEF CancelRest, TypeInv, TypeOK
<1>6. QED
    BY <1>1, <1>2, <1>3, <1>4, <1>5, RowStep DEF CancelRest

LEMMA SplitStep ==
    ASSUME TypeInv, NEW w \in Worker, Split(w)
    PROVE  TypeInv'
<1>1. /\ Busy(w) /\ run[w].pc = "split" /\ UNCHANGED order
    BY DEF Split, At, Busy
<1>2. Moved(w, "child", 1) /\ run'[w].body = SplitOptions(w) /\ SplitOptions(w) \in Row
      /\ SplitOptions(w).split
    BY SplitMoves
<1>3. ZoneAt(JobOf(w), "child", 1)
  <2>1. ZoneAt(JobOf(w), "split", run[w].step)
      BY <1>1, <1>2, ZoneMoves DEF TypeInv
  <2>2. Last(JobOf(w)) \in Nat \ {0} /\ run[w].step \in Nat
      BY <1>1, CodeIsCode
  <2>3. IsPackage(JobOf(w))
      BY <2>1, <2>2 DEF ZoneAt, InPackagesDependency, InSingle, InPrimary
  <2>4. QED
      BY <2>2, <2>3 DEF ZoneAt, InPackagesDependency
<1>4. Holds(w)'
    BY <1>2 DEF Holds, Moved
<1>5. DOMAIN child' \subseteq Keys /\ \A x \in DOMAIN child' : child'[x] \in {"I", "P", "D", "E", "C"}
  <2>1. \A k \in 1 .. Last(JobOf(w)) : KeyAt(w, k) \in Keys
      BY <1>1, KeyIsKey
  <2>2. /\ DOMAIN child' = DOMAIN child \cup {KeyAt(w, k) : k \in 1 .. Last(JobOf(w))}
        /\ \A x \in DOMAIN child' : child'[x] = IF x \in DOMAIN child THEN child[x] ELSE "I"
      BY DEF Split
  <2>3. DOMAIN child \subseteq Keys /\ \A x \in DOMAIN child : child[x] \in {"I", "P", "D", "E", "C"}
      BY DEF TypeInv, TypeOK
  <2>4. QED
      BY <2>1, <2>2, <2>3
<1>6. row' = [row EXCEPT ![JobOf(w)] = SplitOptions(w)]
    BY DEF Split
<1>7. QED
    BY <1>1, <1>2, <1>3, <1>4, <1>5, <1>6, RowStep DEF Split

\* The types of the tables and the histories after a step.
TablesTyped ==
    /\ DOMAIN child \subseteq Keys /\ \A x \in DOMAIN child : child[x] \in {"I", "P", "D", "E", "C"}
    /\ DOMAIN import \subseteq Keys /\ \A x \in DOMAIN import : import[x] \in {"P", "D"}
    /\ conf \in [Code -> Seq(Configuration)]
    /\ content \in [Code -> [Item -> Job \cup {""}]]
    /\ raced \subseteq Code /\ crossed \in BOOLEAN
    /\ settled \in [Code -> (SUBSET Item) \cup {Unsettled}]

\* Any step that leaves its worker at work.
LEMMA TableStep ==
    ASSUME TypeInv, NEW w \in Worker, Busy(w), NEW pc, NEW step, Moved(w, pc, step),
           pc # "idle", ZoneAt(JobOf(w), pc, step), Holds(w)', TablesTyped',
           UNCHANGED <<order, begun, queue, ended, lost>>,
           \A c \in Code : \A n \in Nat : n <= Len(conf[c]) => n <= Len(conf'[c]),
           \/ UNCHANGED <<faults, spoilt>>
           \/ Fault /\ UNCHANGED spoilt
           \/ Fault /\ spoilt' = spoilt \cup {JobOf(w)},
           \/ UNCHANGED row
           \/ \E r \in Row : row' = [row EXCEPT ![JobOf(w)] = r]
    PROVE  TypeInv'
<1>1. JobOf(w) \in Job /\ TypeOK
    BY BusyRuns DEF TypeInv
<1>2. /\ row' \in [Job -> Row \cup {NoRow}]
      /\ \A i \in Job : row'[i] = row[i] \/ (row'[i] \in Row /\ row'[i] # NoRow)
    BY <1>1, RowSaved, RowAssumption DEF TypeOK
<1>3. faults' \in 0 .. MaxFaults /\ (faults' = faults \/ faults' = faults + 1)
  <2>1. \A n \in 0 .. MaxFaults : n < MaxFaults => n + 1 \in 0 .. MaxFaults
      BY FaultsAssumption
  <2>2. faults \in 0 .. MaxFaults
      BY <1>1 DEF TypeOK
  <2>3. faults' = faults \/ (faults < MaxFaults /\ faults' = faults + 1)
      BY DEF Fault
  <2>4. QED
      BY <2>1, <2>2, <2>3, Zenon
<1>4. spoilt \subseteq spoilt' /\ spoilt' \subseteq Job
    BY <1>1 DEF TypeOK
<1>5. TypeOK'
    BY <1>1, <1>2, <1>3, <1>4 DEF TypeOK, TablesTyped, Moved
<1>6. \A j \in Job : Delivered(j)'
    BY <1>2, <1>3, <1>4, DeliveredKept
<1>7. Zone(w)'
    BY ZoneMoves
<1>8. QED
    BY <1>2, <1>5, <1>6, <1>7, WorkerStep DEF Moved

LEMMA Typed ==
    ASSUME TypeInv
    PROVE  TablesTyped
BY DEF TypeInv, TypeOK, TablesTyped

LEMMA Replaced ==
    ASSUME NEW D, NEW S, NEW f \in [D -> S], NEW d, NEW v \in S
    PROVE  [f EXCEPT ![d] = v] \in [D -> S]
OBVIOUS

LEMMA LookStep ==
    ASSUME TypeInv, NEW w \in Worker, Look(w)
    PROVE  TypeInv'
<1>1. /\ Busy(w) /\ run[w].pc \in {"find", "primary"} /\ UNCHANGED <<order, conf>> /\ CodeOf(w) \in Code
      /\ Last(JobOf(w)) \in Nat \ {0} /\ run[w].step \in Nat
    BY CodeIsCode DEF Look, At, Busy, tables
<1>2. TablesTyped'
  <2>1. settled' \in [Code -> (SUBSET Item) \cup {Unsettled}]
    <3>1. settled \in [Code -> (SUBSET Item) \cup {Unsettled}]
        BY Typed DEF TablesTyped
    <3>2. settled' = [settled EXCEPT ![CodeOf(w)] = Unsettled] \/ settled' = settled
        BY DEF Look
    <3>3. \A S, v : v \in S \cup {v}
        OBVIOUS
    <3>4. QED
        BY <3>1, <3>2, <3>3, Replaced
  <2>2. QED
      BY <2>1, Typed DEF Look, tables, TablesTyped
<1>3. KeptBody(w) /\ Zone(w) /\ Holds(w)
    BY <1>1, LookMoves DEF TypeInv
<1>4. \A c \in Code : \A n \in Nat : n <= Len(conf[c]) => n <= Len(conf'[c])
    BY <1>1
<1>5. ASSUME NEW pc \in {"clear", "save"}, Moved(w, pc, run[w].step),
             run'[w].copy \in Copy, run'[w].copy.pos = 1, Len(conf[CodeOf(w)]) = 1
      PROVE  TypeInv'
  <2>1. ZoneAt(JobOf(w), pc, run[w].step)
    <3>1. ZoneAt(JobOf(w), run[w].pc, run[w].step)
        BY <1>1, <1>3, <1>5, ZoneMoves
    <3>2. QED
        BY <1>1, <3>1 DEF ZoneAt, InPackage, InPackagesDependency, InSingle, InPrimary
  <2>2. CodeOf(w)' = CodeOf(w) /\ JobOf(w)' = JobOf(w) /\ IsPackage(JobOf(w))' = IsPackage(JobOf(w))
      BY <1>1, <1>5, ZoneMoves
  <2>3. run'[w].copy.pos <= Len(conf'[CodeOf(w)'])
    <3>1. conf'[CodeOf(w)'] = conf[CodeOf(w)]
        BY <1>1, <2>2
    <3>2. Len(conf'[CodeOf(w)']) = 1
        BY <1>5, <3>1
    <3>3. \A m, n : m = 1 /\ n = 1 => m <= n
        OBVIOUS
    <3>4. QED
        BY <1>5, <3>2, <3>3, Zenon
  <2>4. Holds(w)'
      BY <1>1, <1>3, <1>5, <2>2, <2>3 DEF Holds, Moved, KeptBody
  <2>5. QED
      BY <1>1, <1>2, <1>4, <1>5, <2>1, <2>4, TableStep DEF Look, tables
<1>6. CASE run[w].pc = "primary" /\ Moved(w, AfterSave(w), run[w].step)
  <2>1. ZoneAt(JobOf(w), "primary", run[w].step)
      BY <1>1, <1>3, <1>6, ZoneMoves
  <2>2. run[w].step = Last(JobOf(w)) + 1 /\ ~InDependency(w) /\ run[w].step > 0
      BY <1>1, <2>1 DEF ZoneAt, InPackage, InPackagesDependency, InSingle, InDependency
  <2>3. AfterSave(w) = AfterPrimary(JobOf(w)) /\ AfterPrimary(JobOf(w)) \in {"actions", "done"}
      BY <1>1, <2>2 DEF AfterSave, AfterPrimary
  <2>4. ZoneAt(JobOf(w), AfterSave(w), run[w].step)
      BY <1>1, <2>1, <2>2, <2>3 DEF ZoneAt, InPrimary
  <2>5. Holds(w)'
      BY <1>1, <1>3, <1>6, <2>3, HoldsMoves
  <2>6. QED
      BY <1>1, <1>2, <1>4, <1>6, <2>3, <2>4, <2>5, TableStep DEF Look, tables
<1>7. CASE run[w].pc = "find" /\ Moved(w, "create", run[w].step)
  <2>1. ZoneAt(JobOf(w), "find", run[w].step)
      BY <1>1, <1>3, <1>7, ZoneMoves
  <2>2. ZoneAt(JobOf(w), "create", run[w].step)
      BY <2>1 DEF ZoneAt, InPackage, InPackagesDependency, InSingle, InPrimary
  <2>3. Holds(w)'
      BY <1>1, <1>3, <1>7, HoldsMoves
  <2>4. QED
      BY <1>1, <1>2, <1>4, <1>7, <2>2, <2>3, TableStep DEF Look, tables
<1>8. QED
    BY <1>5, <1>6, <1>7, LookMoves

\* A row more.
LEMMA Appended ==
    ASSUME TypeInv, NEW c \in Code, NEW r \in Configuration,
           conf' = [conf EXCEPT ![c] = Append(conf[c], r)]
    PROVE  /\ conf' \in [Code -> Seq(Configuration)]
           /\ Len(conf[c]) \in Nat /\ Len(conf'[c]) = Len(conf[c]) + 1
           /\ conf'[c][Len(conf[c]) + 1] = r
           /\ \A n \in 1 .. Len(conf[c]) : conf'[c][n] = conf[c][n]
           /\ \A e \in Code \ {c} : conf'[e] = conf[e]
           /\ \A e \in Code : \A n \in Nat : n <= Len(conf[e]) => n <= Len(conf'[e])
<1>1. conf \in [Code -> Seq(Configuration)]
    BY DEF TypeInv, TypeOK
<1>2. conf[c] \in Seq(Configuration)
    BY <1>1
<1>3. PICK longer \in Seq(Configuration) : longer = Append(conf[c], r)
  <2>1. Append(conf[c], r) \in Seq(Configuration)
      BY <1>2
  <2>2. QED
      BY <2>1
<1>4. /\ Len(conf[c]) \in Nat /\ Len(longer) = Len(conf[c]) + 1 /\ longer[Len(conf[c]) + 1] = r
      /\ \A n \in 1 .. Len(conf[c]) : longer[n] = conf[c][n]
      /\ \A n \in Nat : n <= Len(conf[c]) => n <= Len(longer)
    BY <1>2, <1>3
<1>5. conf'[c] = longer /\ \A e \in Code \ {c} : conf'[e] = conf[e]
    BY <1>1, <1>3
<1>6. conf' \in [Code -> Seq(Configuration)]
    BY <1>1, <1>3
<1>7. QED
    BY <1>4, <1>5, <1>6

LEMMA CreateStep ==
    ASSUME TypeInv, NEW w \in Worker, Create(w)
    PROVE  TypeInv'
<1>1. /\ Busy(w) /\ run[w].pc = "create" /\ UNCHANGED order /\ CodeOf(w) \in Code /\ Zone(w) /\ Holds(w)
    BY CodeIsCode DEF Create, At, Busy, TypeInv
<1>2. PICK r \in Configuration : r = [version |-> FirstVersion(w), primary |-> FALSE]
  <2>1. FirstVersion(w) \in Version
      BY DEF FirstVersion, Version
  <2>2. \A v \in Version : [version |-> v, primary |-> FALSE] \in Configuration
      BY DEF Configuration
  <2>3. QED
      BY <2>1, <2>2
<1>3. conf' = [conf EXCEPT ![CodeOf(w)] = Append(conf[CodeOf(w)], r)]
    BY <1>2 DEF Create
<1>4. /\ conf' \in [Code -> Seq(Configuration)]
      /\ Len(conf[CodeOf(w)]) + 1 = Len(conf'[CodeOf(w)])
      /\ Len(conf[CodeOf(w)]) \in Nat
      /\ \A e \in Code : \A n \in Nat : n <= Len(conf[e]) => n <= Len(conf'[e])
    BY <1>1, <1>3, Appended
<1>5. /\ Moved(w, "save", run[w].step) /\ KeptBody(w)
      /\ run'[w].copy \in Copy /\ run'[w].copy.pos = Len(conf[CodeOf(w)]) + 1
    BY CreateMoves
<1>6. ZoneAt(JobOf(w), "save", run[w].step)
  <2>1. ZoneAt(JobOf(w), "create", run[w].step)
      BY <1>1, <1>5, ZoneMoves
  <2>2. QED
      BY <2>1 DEF ZoneAt, InPackage, InPackagesDependency, InSingle, InPrimary
<1>7. CodeOf(w)' = CodeOf(w) /\ JobOf(w)' = JobOf(w) /\ IsPackage(JobOf(w))' = IsPackage(JobOf(w))
    BY <1>1, <1>5, ZoneMoves
<1>8. run'[w].copy.pos <= Len(conf[CodeOf(w)])'
  <2>1. \A n \in Nat : n + 1 <= n + 1
      OBVIOUS
  <2>2. run'[w].copy.pos <= Len(conf'[CodeOf(w)])
      BY <1>4, <1>5, <2>1
  <2>3. QED
      BY <1>7, <2>2
<1>9. Holds(w)'
    BY <1>1, <1>5, <1>7, <1>8 DEF Holds, Moved, KeptBody
<1>10. TablesTyped'
    BY <1>1, <1>4, Typed DEF Create, TablesTyped
<1>11. QED
    BY <1>1, <1>4, <1>5, <1>6, <1>9, <1>10, TableStep DEF Create

LEMMA Rows ==
    ASSUME TypeInv, NEW c \in Code
    PROVE  /\ conf[c] \in Seq(Configuration) /\ Len(conf[c]) \in Nat
           /\ DOMAIN conf[c] = 1 .. Len(conf[c])
           /\ \A p \in DOMAIN conf[c] : conf[c][p] \in Configuration
<1>1. conf[c] \in Seq(Configuration)
    BY DEF TypeInv, TypeOK
<1>2. QED
    BY <1>1

LEMMA Cleared ==
    ASSUME TypeInv, NEW w \in Worker, ClearOthers(w)
    PROVE  /\ conf' \in [Code -> Seq(Configuration)]
           /\ \A c \in Code : /\ DOMAIN conf'[c] = DOMAIN conf[c] /\ Len(conf'[c]) = Len(conf[c])
                              /\ \A p \in DOMAIN conf[c] :
                                    conf'[c][p].primary =>
                                       c = CodeOf(w) /\ p = run[w].copy.pos /\ conf[c][p].primary
<1>1. ASSUME NEW c \in Code
      PROVE  /\ conf'[c] \in Seq(Configuration)
             /\ DOMAIN conf'[c] = DOMAIN conf[c] /\ Len(conf'[c]) = Len(conf[c])
             /\ \A p \in DOMAIN conf[c] :
                   conf'[c][p].primary =>
                      c = CodeOf(w) /\ p = run[w].copy.pos /\ conf[c][p].primary
  <2>1. PICK rows : rows = [p \in DOMAIN conf[c] |->
                              IF c = CodeOf(w) /\ p = run[w].copy.pos THEN conf[c][p]
                              ELSE [conf[c][p] EXCEPT !.primary = FALSE]]
      OBVIOUS
  <2>2. /\ Len(conf[c]) \in Nat /\ DOMAIN conf[c] = 1 .. Len(conf[c])
        /\ \A p \in DOMAIN conf[c] : conf[c][p] \in Configuration
      BY Rows
  <2>3. \A r \in Configuration : /\ [r EXCEPT !.primary = FALSE] \in Configuration
                                 /\ ~[r EXCEPT !.primary = FALSE].primary
      BY DEF Configuration
  <2>4. /\ DOMAIN rows = 1 .. Len(conf[c])
        /\ \A p \in 1 .. Len(conf[c]) : rows[p] \in Configuration
      BY <2>1, <2>2, <2>3
  <2>5. rows \in Seq(Configuration) /\ Len(rows) = Len(conf[c])
    <3>1. rows \in [1 .. Len(conf[c]) -> Configuration]
        BY <2>1, <2>2, <2>3
    <3>2. QED
        BY <2>2, <3>1
  <2>6. \A p \in DOMAIN conf[c] :
            rows[p].primary => c = CodeOf(w) /\ p = run[w].copy.pos /\ conf[c][p].primary
      BY <2>1, <2>2, <2>3
  <2>7. conf'[c] = rows
      BY <2>1 DEF ClearOthers
  <2>8. QED
      BY <2>2, <2>4, <2>5, <2>6, <2>7
<1>2. DOMAIN conf' = Code /\ conf' = [c \in Code |-> conf'[c]]
    BY DEF ClearOthers
<1>3. QED
    BY <1>1, <1>2

LEMMA ClearOthersStep ==
    ASSUME TypeInv, NEW w \in Worker, ClearOthers(w)
    PROVE  TypeInv'
<1>1. /\ Busy(w) /\ run[w].pc = "clear" /\ UNCHANGED order /\ CodeOf(w) \in Code /\ Zone(w) /\ Holds(w)
      /\ Goes(w, "save") /\ TypeOK
    BY CodeIsCode DEF ClearOthers, At, Busy, TypeInv
<1>2. /\ conf' \in [Code -> Seq(Configuration)]
      /\ \A c \in Code : Len(conf'[c]) = Len(conf[c])
    BY Cleared
<1>3. Moved(w, "save", run[w].step) /\ KeptBody(w) /\ KeptCopy(w)
    BY <1>1, GoesMoves
<1>4. ZoneAt(JobOf(w), "save", run[w].step)
  <2>1. ZoneAt(JobOf(w), "clear", run[w].step)
      BY <1>1, <1>3, ZoneMoves
  <2>2. QED
      BY <2>1 DEF ZoneAt, InPackage, InPackagesDependency, InSingle, InPrimary
<1>5. CodeOf(w)' = CodeOf(w) /\ JobOf(w)' = JobOf(w) /\ IsPackage(JobOf(w))' = IsPackage(JobOf(w))
    BY <1>1, <1>3, ZoneMoves
<1>6. Holds(w)'
    BY <1>1, <1>2, <1>3, <1>5 DEF Holds, Moved, KeptBody, KeptCopy
<1>7. TablesTyped'
    BY <1>1, <1>2, Typed DEF ClearOthers, TablesTyped, histories
<1>8. QED
    BY <1>1, <1>2, <1>3, <1>4, <1>6, <1>7, TableStep DEF ClearOthers, histories

LEMMA Saved ==
    ASSUME TypeInv, NEW w \in Worker, Save(w)
    PROVE  /\ conf' \in [Code -> Seq(Configuration)] /\ CodeOf(w) \in Code
           /\ run[w].copy.pos \in DOMAIN conf[CodeOf(w)]
           /\ conf'[CodeOf(w)][run[w].copy.pos].primary = run[w].copy.primary
           /\ \A c \in Code : /\ DOMAIN conf'[c] = DOMAIN conf[c] /\ Len(conf'[c]) = Len(conf[c])
                              /\ \A p \in DOMAIN conf[c] :
                                    \/ c = CodeOf(w) /\ p = run[w].copy.pos
                                    \/ conf'[c][p] = conf[c][p]
<1>1. /\ Busy(w) /\ CodeOf(w) \in Code /\ Holds(w) /\ run[w].pc = "save"
    BY CodeIsCode DEF Save, At, Busy, TypeInv
<1>2. run[w].copy \in Copy /\ run[w].copy.pos <= Len(conf[CodeOf(w)])
    BY <1>1 DEF Holds
<1>3. run[w].copy.pos \in Nat \ {0} /\ run[w].copy.version \in Version /\ run[w].copy.primary \in BOOLEAN
    BY <1>2 DEF Copy
<1>4. /\ Len(conf[CodeOf(w)]) \in Nat /\ DOMAIN conf[CodeOf(w)] = 1 .. Len(conf[CodeOf(w)])
      /\ conf[CodeOf(w)] \in [1 .. Len(conf[CodeOf(w)]) -> Configuration]
  <2>1. conf[CodeOf(w)] \in Seq(Configuration)
      BY <1>1, Rows
  <2>2. QED
      BY <2>1
<1>5. run[w].copy.pos \in 1 .. Len(conf[CodeOf(w)])
    BY <1>2, <1>3, <1>4
<1>6. PICK r \in Configuration :
         r = [version |-> run[w].copy.version, primary |-> run[w].copy.primary]
    BY <1>3 DEF Configuration
<1>7. r.primary = run[w].copy.primary
    BY <1>6
<1>8. PICK rows : rows = [conf[CodeOf(w)] EXCEPT ![run[w].copy.pos] = r]
    OBVIOUS
<1>9. /\ rows \in [1 .. Len(conf[CodeOf(w)]) -> Configuration]
      /\ DOMAIN rows = 1 .. Len(conf[CodeOf(w)])
      /\ rows[run[w].copy.pos] = r
      /\ \A p \in 1 .. Len(conf[CodeOf(w)]) : p = run[w].copy.pos \/ rows[p] = conf[CodeOf(w)][p]
    BY <1>4, <1>5, <1>8
<1>10. rows \in Seq(Configuration) /\ Len(rows) = Len(conf[CodeOf(w)])
    BY <1>4, <1>9
<1>11. conf' = [conf EXCEPT ![CodeOf(w)] = rows]
    BY <1>6, <1>8 DEF Save
<1>12. conf \in [Code -> Seq(Configuration)]
    BY DEF TypeInv, TypeOK
<1>13. conf'[CodeOf(w)] = rows /\ \A c \in Code \ {CodeOf(w)} : conf'[c] = conf[c]
    BY <1>1, <1>11, <1>12
<1>14. conf' \in [Code -> Seq(Configuration)]
    BY <1>10, <1>11, <1>12
<1>15. QED
    BY <1>1, <1>4, <1>5, <1>7, <1>9, <1>10, <1>13, <1>14

LEMMA SaveStep ==
    ASSUME TypeInv, NEW w \in Worker, Save(w)
    PROVE  TypeInv'
<1>1. /\ Busy(w) /\ run[w].pc = "save" /\ UNCHANGED order /\ CodeOf(w) \in Code /\ Zone(w) /\ Holds(w)
      /\ Last(JobOf(w)) \in Nat \ {0} /\ run[w].step \in Nat
    BY CodeIsCode DEF Save, At, Busy, TypeInv
<1>2. /\ conf' \in [Code -> Seq(Configuration)]
      /\ \A c \in Code : Len(conf'[c]) = Len(conf[c])
    BY Saved
<1>3. Moved(w, AfterSave(w), run[w].step) /\ KeptBody(w)
    BY SaveMoves
<1>4. AfterSave(w) \in {"split", "actions", "done", "refresh", "download"}
    BY DEF AfterSave, AfterPrimary
<1>5. ZoneAt(JobOf(w), AfterSave(w), run[w].step)
  <2>1. ZoneAt(JobOf(w), "save", run[w].step)
      BY <1>1, <1>3, ZoneMoves
  <2>2. CASE run[w].step = 0
      BY <1>1, <2>1, <2>2 DEF ZoneAt, InPackage, AfterSave
  <2>3. CASE InDependency(w) /\ IsPackage(JobOf(w))
      BY <1>1, <2>1, <2>3 DEF ZoneAt, InPackagesDependency, AfterSave, InDependency
  <2>4. CASE InDependency(w) /\ ~IsPackage(JobOf(w))
      BY <1>1, <2>1, <2>4 DEF ZoneAt, InSingle, AfterSave, InDependency
  <2>5. CASE run[w].step = Last(JobOf(w)) + 1
    <3>1. ~InDependency(w) /\ run[w].step # 0
        BY <1>1, <2>5 DEF InDependency
    <3>2. AfterSave(w) \in {"actions", "done"}
        BY <3>1 DEF AfterSave, AfterPrimary
    <3>3. QED
        BY <1>1, <2>1, <2>5, <3>2 DEF ZoneAt, InPrimary
  <2>6. QED
      BY <1>1, <2>1, <2>2, <2>3, <2>4, <2>5 DEF ZoneAt, InDependency
<1>6. Holds(w)'
    BY <1>1, <1>3, <1>4, HoldsMoves
<1>7. TablesTyped'
    BY <1>1, <1>2, Typed DEF Save, TablesTyped
<1>8. QED
    BY <1>1, <1>2, <1>3, <1>4, <1>5, <1>6, <1>7, TableStep DEF Save

LEMMA RefreshStep ==
    ASSUME TypeInv, NEW w \in Worker, Refresh(w)
    PROVE  TypeInv'
<1>1. /\ Busy(w) /\ run[w].pc \in {"refresh", "refreshAgain"} /\ UNCHANGED order /\ Zone(w) /\ Holds(w)
    BY DEF Refresh, At, Busy, TypeInv
<1>2. ASSUME NEW pc \in {"progress", "progressAgain"}, Moved(w, pc, run[w].step),
             row[JobOf(w)].split, run'[w].parent = row[JobOf(w)]
      PROVE  TypeInv'
  <2>1. ZoneAt(JobOf(w), run[w].pc, run[w].step)
      BY <1>1, <1>2, ZoneMoves
  <2>2. ZoneAt(JobOf(w), pc, run[w].step)
      BY <1>1, <2>1 DEF ZoneAt, InPackage, InPackagesDependency, InSingle, InPrimary
  <2>3. JobOf(w)' = JobOf(w) /\ IsPackage(JobOf(w))' = IsPackage(JobOf(w))
      BY <1>1, <1>2, ZoneMoves
  <2>4. Holds(w)'
      BY <1>1, <1>2, <2>3, RefreshMoves DEF Holds, Moved, KeptBody
  <2>5. QED
      BY <1>1, <1>2, <2>2, <2>4, RowStep DEF Refresh, tables
<1>3. CASE Moved(w, "cancel", run[w].step)
  <2>1. ZoneAt(JobOf(w), run[w].pc, run[w].step)
      BY <1>1, <1>3, ZoneMoves
  <2>2. ZoneAt(JobOf(w), "cancel", run[w].step)
      BY <1>1, <2>1, RefreshMoves, CodeIsCode
      DEF ZoneAt, InPackage, InPackagesDependency, InSingle, InPrimary
  <2>3. Holds(w)'
      BY <1>1, <1>3, RefreshMoves, HoldsMoves
  <2>4. QED
      BY <1>1, <1>3, <2>2, <2>3, RowStep DEF Refresh, tables
<1>4. QED
    BY <1>2, <1>3, RefreshMoves

LEMMA ProgressStep ==
    ASSUME TypeInv, NEW w \in Worker, Progress(w)
    PROVE  TypeInv'
<1>1. /\ Busy(w) /\ run[w].pc \in {"progress", "progressAgain"} /\ UNCHANGED order
    BY DEF Progress, At, Busy, TypeInv
<1>2. PICK pc \in {"download", "childDone"} :
         /\ Moved(w, pc, run[w].step)
         /\ run[w].pc = IF pc = "download" THEN "progress" ELSE "progressAgain"
    BY ProgressMoves
<1>3. ZoneAt(JobOf(w), pc, run[w].step)
  <2>1. ZoneAt(JobOf(w), run[w].pc, run[w].step)
      BY <1>1, <1>2, ZoneMoves DEF TypeInv
  <2>2. QED
      BY <1>1, <2>1 DEF ZoneAt, InPackage, InPackagesDependency, InSingle, InPrimary
<1>4. Holds(w)'
    BY <1>1, <1>2, ProgressMoves, HoldsMoves
<1>5. \E r \in Row : row' = [row EXCEPT ![JobOf(w)] = r]
    BY ProgressMoves DEF Progress
<1>6. QED
    BY <1>1, <1>2, <1>3, <1>4, <1>5, RowStep DEF Progress

LEMMA ChildDoneStep ==
    ASSUME TypeInv, NEW w \in Worker, ChildDone(w)
    PROVE  TypeInv'
<1>1. /\ Busy(w) /\ run[w].pc = "childDone" /\ UNCHANGED <<order, conf>> /\ run[w].body \in Row
      /\ run[w] \in Running
    BY BusyRuns DEF ChildDone, At, Busy, TypeInv, Holds
<1>2. Moved(w, "next", run[w].step) /\ KeptBody(w)
    BY ChildDoneMoves
<1>3. ZoneAt(JobOf(w), "childDone", run[w].step)
    BY <1>1, <1>2, ZoneMoves DEF TypeInv
<1>4. ZoneAt(JobOf(w), "next", run[w].step)
    BY <1>3 DEF ZoneAt, InPackage, InPackagesDependency, InSingle, InPrimary
<1>5. Holds(w)'
    BY <1>1, <1>2, HoldsMoves
<1>6. /\ DOMAIN child' \subseteq Keys
      /\ \A x \in DOMAIN child' : child'[x] \in {"I", "P", "D", "E", "C"}
      /\ UNCHANGED row \/ \E r \in Row : row' = [row EXCEPT ![JobOf(w)] = r]
    BY <1>1, MarkStatus DEF ChildDone
<1>7. settled' \in [Code -> (SUBSET Item) \cup {Unsettled}]
  <2>1. settled \in [Code -> (SUBSET Item) \cup {Unsettled}]
      BY Typed DEF TablesTyped
  <2>2. run[w].refused \in (SUBSET Item) \cup {Unsettled}
      BY <1>1 DEF Running
  <2>3. settled' = [settled EXCEPT ![CodeOf(w)] = run[w].refused] \/ settled' = settled
      BY DEF ChildDone
  <2>4. QED
      BY <2>1, <2>2, <2>3, Replaced
<1>8. TablesTyped'
    BY <1>6, <1>7, Typed DEF ChildDone, TablesTyped
<1>9. QED
    BY <1>1, <1>2, <1>4, <1>5, <1>6, <1>8, TableStep DEF ChildDone

LEMMA NextDependencyStep ==
    ASSUME TypeInv, NEW w \in Worker, NextDependency(w)
    PROVE  TypeInv'
<1>1. /\ Busy(w) /\ run[w].pc = "next" /\ UNCHANGED order /\ KeptBody(w) /\ run[w].step > 0
      /\ run[w].step \in Nat /\ Last(JobOf(w)) \in Nat \ {0} /\ run[w].step <= Last(JobOf(w))
  <2>1. Busy(w) /\ run[w].pc = "next" /\ UNCHANGED order
      BY DEF NextDependency, At, Busy
  <2>2. KeptBody(w) /\ run[w].step \in 1 .. Last(JobOf(w))
      BY NextMoves DEF InDependency
  <2>3. run[w].step \in Nat /\ Last(JobOf(w)) \in Nat \ {0}
      BY <2>1, CodeIsCode
  <2>4. QED
      BY <2>1, <2>2, <2>3
<1>2. PICK n \in Nat : n = run[w].step + 1
    BY <1>1
<1>3. PICK pc \in {"success", "complete", "child"}, step \in {run[w].step, n} :
         /\ Moved(w, pc, step)
         /\ pc = "success" => step = run[w].step /\ ~IsPackage(JobOf(w))
         /\ pc = "complete" => step = run[w].step /\ step = Last(JobOf(w)) /\ IsPackage(JobOf(w))
         /\ pc = "child" => step = n /\ run[w].step < Last(JobOf(w)) /\ IsPackage(JobOf(w))
    BY <1>2, NextMoves
<1>4. ZoneAt(JobOf(w), "next", run[w].step)
    BY <1>1, <1>3, ZoneMoves DEF TypeInv
<1>5. ZoneAt(JobOf(w), pc, step)
    BY <1>1, <1>2, <1>3, <1>4 DEF ZoneAt, InPackage, InPackagesDependency, InSingle, InPrimary
<1>6. Holds(w)'
    BY <1>1, <1>3, HoldsMoves
<1>7. QED
    BY <1>1, <1>3, <1>5, <1>6, RowStep DEF NextDependency, tables

LEMMA CompleteStep ==
    ASSUME TypeInv, NEW w \in Worker, Complete(w)
    PROVE  TypeInv'
<1>1. /\ Busy(w) /\ run[w].pc = "complete" /\ UNCHANGED order /\ KeptBody(w) /\ run[w].step > 0
      /\ run[w].step \in Nat /\ Last(JobOf(w)) \in Nat \ {0} /\ run[w].body \in Row
  <2>1. Busy(w) /\ run[w].pc = "complete" /\ UNCHANGED order
      BY DEF Complete, At, Busy
  <2>2. KeptBody(w) /\ run[w].step \in 1 .. Last(JobOf(w))
      BY CompleteMoves DEF InDependency
  <2>3. run[w].step \in Nat /\ Last(JobOf(w)) \in Nat \ {0}
      BY <2>1, CodeIsCode
  <2>4. run[w].body \in Row
      BY <2>1 DEF TypeInv, Holds
  <2>5. QED
      BY <2>1, <2>2, <2>3, <2>4
<1>2. PICK n \in Nat : n = Last(JobOf(w)) + 1
    BY <1>1
<1>3. PICK pc \in {"primary", "actions", "done"} :
         Moved(w, pc, n) /\ (pc = "primary" => order[JobOf(w)].primary # NoCode)
    BY <1>2, CompleteMoves
<1>4. ZoneAt(JobOf(w), pc, n)
    BY <1>1, <1>2, <1>3, CompleteMoves DEF ZoneAt, InPrimary
<1>5. Holds(w)'
    BY <1>1, <1>3, HoldsMoves
<1>6. QED
    BY <1>1, <1>3, <1>4, <1>5, RowStep DEF Complete

LEMMA ActionsStep ==
    ASSUME TypeInv, NEW w \in Worker, Actions(w) \/ PackageDone(w)
    PROVE  TypeInv'
<1>1. /\ Busy(w) /\ run[w].pc \in {"actions", "done"} /\ UNCHANGED order /\ run[w].body \in Row /\ TypeOK
    BY DEF Actions, PackageDone, At, Busy, TypeInv, Holds
<1>2. PICK pc \in {"done", "success"} : Goes(w, pc)
    BY DEF Actions, PackageDone
<1>3. Moved(w, pc, run[w].step) /\ KeptBody(w)
    BY <1>1, <1>2, GoesMoves
<1>4. ZoneAt(JobOf(w), pc, run[w].step)
  <2>1. ZoneAt(JobOf(w), run[w].pc, run[w].step)
      BY <1>1, <1>3, ZoneMoves DEF TypeInv
  <2>2. Last(JobOf(w)) \in Nat \ {0} /\ run[w].step \in Nat
      BY <1>1, CodeIsCode
  <2>3. run[w].step = Last(JobOf(w)) + 1
      BY <1>1, <2>1, <2>2 DEF ZoneAt, InPackage, InPackagesDependency, InSingle
  <2>4. QED
      BY <2>1, <2>2, <2>3 DEF ZoneAt, InPrimary
<1>5. Holds(w)'
    BY <1>1, <1>3, HoldsMoves
<1>6. \E r \in Row : row' = [row EXCEPT ![JobOf(w)] = r]
  <2>1. CASE Actions(w)
      BY <1>1, <2>1 DEF Actions
  <2>2. CASE PackageDone(w)
      BY <1>1, <2>2, StatusChanged DEF PackageDone
  <2>3. QED
      BY <2>1, <2>2
<1>7. UNCHANGED <<order, queue, begun, child, import, conf, content, faults, histories>>
    BY DEF Actions, PackageDone
<1>8. QED
    BY <1>1, <1>3, <1>4, <1>5, <1>6, <1>7, RowStep DEF histories

LEMMA ImportSet ==
    ASSUME TypeInv, NEW w \in Worker, Busy(w), run[w].step > 0, NEW s \in {"P", "D"},
           import' = Set(import, Key(w), s)
    PROVE  DOMAIN import' \subseteq Keys /\ \A x \in DOMAIN import' : import'[x] \in {"P", "D"}
<1>1. DOMAIN import \subseteq Keys /\ \A x \in DOMAIN import : import[x] \in {"P", "D"}
    BY DEF TypeInv, TypeOK
<1>2. Key(w) \in Keys
    BY KeyIsKey
<1>3. QED
    BY <1>1, <1>2 DEF Set

LEMMA ImportStep ==
    ASSUME TypeInv, NEW w \in Worker,
           Download(w) \/ ImportDone(w) \/ \E i \in Item : ImportItem(w, i) \/ RefuseItem(w, i)
    PROVE  TypeInv'
<1>1. /\ Busy(w) /\ run[w].pc \in {"download", "items"} /\ UNCHANGED <<order, conf>>
      /\ TypeOK /\ Zone(w)
    BY DEF Download, ImportDone, ImportItem, RefuseItem, At, Busy, TypeInv, tables
<1>2. PICK pc \in {"items", "refreshAgain", "childDone"} :
         /\ Moved(w, pc, run[w].step) /\ KeptBody(w)
         /\ pc = "refreshAgain" => IsPackage(JobOf(w))
         /\ pc = "childDone" => ~IsPackage(JobOf(w))
  <2>1. CASE ImportDone(w)
      BY <1>1, <2>1, GoesMoves DEF ImportDone
  <2>2. CASE ~ImportDone(w)
      BY <2>2, ImportMoves
  <2>3. QED
      BY <2>1, <2>2
<1>3. ZoneAt(JobOf(w), run[w].pc, run[w].step) /\ run[w].step \in Nat
    BY <1>1, <1>2, ZoneMoves, CodeIsCode
<1>4. ZoneAt(JobOf(w), pc, run[w].step) /\ InDependency(w) /\ run[w].step > 0
    BY <1>1, <1>2, <1>3, CodeIsCode
    DEF ZoneAt, InPackage, InPackagesDependency, InSingle, InPrimary, InDependency
<1>5. Holds(w)'
    BY <1>1, <1>2, HoldsMoves
<1>6. DOMAIN import' \subseteq Keys /\ \A x \in DOMAIN import' : import'[x] \in {"P", "D"}
  <2>1. CASE UNCHANGED import
      BY <2>1, Typed DEF TablesTyped
  <2>2. CASE import' = Set(import, Key(w), "P") \/ import' = Set(import, Key(w), "D")
      BY <1>1, <1>4, <2>2, ImportSet
  <2>3. QED
      BY <2>1, <2>2 DEF Download, ImportDone, ImportItem, RefuseItem, tables
<1>7. content' \in [Code -> [Item -> Job \cup {""}]]
  <2>1. content \in [Code -> [Item -> Job \cup {""}]]
      BY Typed DEF TablesTyped
  <2>2. ASSUME NEW i \in Item, ImportItem(w, i)
        PROVE  content' \in [Code -> [Item -> Job \cup {""}]]
    <3>1. CodeOf(w) \in Code /\ JobOf(w) \in Job
        BY <1>1, <1>4, CodeIsCode
    <3>2. [content[CodeOf(w)] EXCEPT ![i] = JobOf(w)] \in [Item -> Job \cup {""}]
        BY <2>1, <3>1, Replaced
    <3>3. content' = [content EXCEPT ![CodeOf(w)] = [content[CodeOf(w)] EXCEPT ![i] = JobOf(w)]]
        BY <2>2 DEF ImportItem, Imported
    <3>4. QED
        BY <2>1, <3>2, <3>3, Replaced
  <2>3. QED
      BY <2>1, <2>2 DEF Download, ImportDone, RefuseItem, tables
<1>8. TablesTyped'
    BY <1>1, <1>6, <1>7, Typed
    DEF Download, ImportDone, ImportItem, RefuseItem, TablesTyped, tables, histories
<1>9. /\ UNCHANGED <<row, begun, queue, ended, lost, spoilt>>
      /\ UNCHANGED faults \/ Fault
    BY DEF Download, ImportDone, ImportItem, RefuseItem, tables, histories
<1>10. QED
    BY <1>1, <1>2, <1>4, <1>5, <1>8, <1>9, TableStep

LEMMA FailsStep ==
    ASSUME TypeInv, NEW w \in Worker, Fails(w)
    PROVE  TypeInv'
<1>1. /\ Busy(w) /\ run[w].pc \in {"find", "download", "items"} /\ UNCHANGED <<order, conf>>
      /\ TypeOK /\ Zone(w) /\ run[w].body \in Row
    BY DEF Fails, At, Busy, TypeInv, Holds
<1>2. PICK pc \in {"cancel", "failure"} :
         /\ Goes(w, pc)
         /\ pc = IF IsPackage(JobOf(w)) /\ run[w].step > 0 THEN "cancel" ELSE "failure"
    BY DEF Fails, AfterRaise
<1>3. Moved(w, pc, run[w].step) /\ KeptBody(w)
    BY <1>1, <1>2, GoesMoves
<1>4. ZoneAt(JobOf(w), run[w].pc, run[w].step) /\ run[w].step \in Nat
    BY <1>1, <1>3, ZoneMoves, CodeIsCode
<1>5. ZoneAt(JobOf(w), pc, run[w].step)
    BY <1>1, <1>2, <1>4, CodeIsCode
    DEF ZoneAt, InPackage, InPackagesDependency, InSingle, InPrimary
<1>6. Holds(w)'
    BY <1>1, <1>3, HoldsMoves
<1>7. /\ DOMAIN child' \subseteq Keys
      /\ \A x \in DOMAIN child' : child'[x] \in {"I", "P", "D", "E", "C"}
      /\ UNCHANGED row \/ \E r \in Row : row' = [row EXCEPT ![JobOf(w)] = r]
  <2>1. CASE Mark(w, "E")
      BY <1>1, <2>1, MarkStatus
  <2>2. CASE UNCHANGED <<row, child>>
      BY <2>2, Typed DEF TablesTyped
  <2>3. QED
      BY <2>1, <2>2 DEF Fails
<1>8. TablesTyped'
    BY <1>7, Typed DEF Fails, TablesTyped
<1>9. Fault /\ spoilt' = spoilt \cup {JobOf(w)} /\ UNCHANGED <<order, begun, queue, ended, lost, conf>>
    BY DEF Fails, Spoils
<1>10. QED
    BY <1>1, <1>3, <1>5, <1>6, <1>7, <1>8, <1>9, TableStep

LEMMA HookStep ==
    ASSUME TypeInv, NEW w \in Worker, OnSuccess(w) \/ OnFailure(w)
    PROVE  TypeInv'
<1>1. /\ Busy(w) /\ run[w] \in Running /\ JobOf(w) \in Job /\ TypeOK /\ run[w].hook \in Row
      /\ run[w].delivery \in Deliveries
    BY BusyRuns DEF OnSuccess, OnFailure, At, Busy, TypeInv, Running
<1>2. PICK s \in {"D", "E"} : Hook(w, s)
    BY DEF OnSuccess, OnFailure
<1>3. run' = [run EXCEPT ![w] = Idle]
    BY <1>2 DEF Hook
<1>4. \E r \in Row : row' = [row EXCEPT ![JobOf(w)] = r]
    BY <1>1, <1>2, StatusChanged DEF Hook
<1>5. /\ row' \in [Job -> Row \cup {NoRow}]
      /\ \A i \in Job : row'[i] = row[i] \/ (row'[i] \in Row /\ row'[i] # NoRow)
    BY <1>1, <1>4, RowSaved, RowAssumption
<1>6. \A j \in Job : Delivered(j)'
    BY <1>2, <1>5, DeliveredKept DEF Hook
<1>7. /\ run' \in [Worker -> Running \cup {Idle}] /\ run'[w].pc = "idle"
      /\ \A u \in Worker \ {w} : Same(u)
    BY <1>3, IdleMoves
<1>8. TypeOK'
  <2>1. ended' \subseteq Job \X Deliveries
    <3>1. ended \subseteq Job \X Deliveries
        BY <1>1 DEF TypeOK
    <3>2. ended' = ended \cup {<<JobOf(w), run[w].delivery>>}
        BY <1>2 DEF Hook
    <3>3. <<JobOf(w), run[w].delivery>> \in Job \X Deliveries
        BY <1>1
    <3>4. QED
        BY <3>1, <3>2, <3>3
  <2>2. /\ UNCHANGED <<order, queue, begun, child, import, conf, content, faults,
                       raced, crossed, settled, spoilt, lost>>
      BY <1>2 DEF Hook
  <2>3. QED
      BY <1>1, <1>5, <1>7, <2>1, <2>2 DEF TypeOK
<1>9. UNCHANGED <<order, begun, conf>> /\ ended' = ended \cup {<<JobOf(w), run[w].delivery>>}
    BY <1>2 DEF Hook
<1>10. QED
    BY <1>1, <1>5, <1>6, <1>7, <1>8, <1>9, WorkerStep

LEMMA LoseChildStep ==
    ASSUME TypeInv, NEW w \in Worker, LoseChild(w)
    PROVE  TypeInv'
<1>1. /\ Busy(w) /\ JobOf(w) \in Job /\ TypeOK
    BY BusyRuns DEF LoseChild, At, Busy, TypeInv
<1>2. /\ run' \in [Worker -> Running \cup {Idle}] /\ run'[w].pc = "idle"
      /\ \A u \in Worker \ {w} : Same(u)
    BY IdleMoves DEF LoseChild
<1>3. faults' \in 0 .. MaxFaults /\ (faults' = faults \/ faults' = faults + 1)
  <2>1. \A n \in 0 .. MaxFaults : n < MaxFaults => n + 1 \in 0 .. MaxFaults
      BY FaultsAssumption
  <2>2. faults \in 0 .. MaxFaults
      BY <1>1 DEF TypeOK
  <2>3. faults < MaxFaults /\ faults' = faults + 1
      BY DEF LoseChild, Spoils, Fault
  <2>4. QED
      BY <2>1, <2>2, <2>3, Zenon
<1>4. /\ UNCHANGED <<order, row, child, import, conf, content, queue, begun, raced, crossed, settled, ended>>
      /\ spoilt' = spoilt \cup {JobOf(w)} /\ lost' = lost \cup {JobOf(w)}
    BY DEF LoseChild, Spoils, tables
<1>5. TypeOK'
    BY <1>1, <1>2, <1>3, <1>4 DEF TypeOK
<1>6. \A j \in Job : Delivered(j)'
    BY <1>3, <1>4, DeliveredKept
<1>7. QED
    BY <1>1, <1>2, <1>4, <1>5, <1>6, WorkerStep

\* Steps that move no worker at work.
LEMMA OthersStep ==
    ASSUME TypeInv, TypeOK', UNCHANGED <<order, conf, ended>>,
           \A j \in Job : begun'[j] = begun[j] \/ (begun'[j] \in Nat /\ begun'[j] = begun[j] + 1),
           \A j \in Job : row'[j] = row[j] \/ row'[j] \in Row,
           \A j \in Job : Delivered(j)',
           \A u \in Worker : Busy(u)' => (Busy(u) /\ run'[u] = run[u]) \/ (Zone(u)' /\ Holds(u)' /\ OwnDelivery(u)'),
           \A u, v \in Worker : (u # v /\ Busy(u)' /\ Busy(v)' /\ JobOf(u)' = JobOf(v)'
                                 /\ run'[u] = run[u] /\ run'[v] # run[v])
                                => run'[u].delivery # run'[v].delivery
    PROVE  TypeInv'
<1>1. \A j \in Job : begun[j] \in Nat /\ \A n \in Nat : n <= begun[j] => n <= begun'[j]
  <2>1. \A j \in Job : begun[j] \in 0 .. MaxFaults + 1
      BY DEF TypeInv, TypeOK
  <2>2. \A j \in Job : begun[j] \in Nat
      BY <2>1, FaultsAssumption
  <2>3. \A m, n \in Nat : n <= m => n <= m + 1
      OBVIOUS
  <2>4. QED
      BY <2>2, <2>3
<1>2. \A x \in ended' : x[2] <= begun'[x[1]]
  <2>1. \A x \in ended : x[1] \in Job /\ x[2] \in Nat /\ x[2] <= begun[x[1]]
    <3>1. ended \subseteq Job \X Deliveries
        BY DEF TypeInv, TypeOK
    <3>2. \A d \in Deliveries : d \in Nat
        BY FaultsAssumption DEF Deliveries
    <3>3. QED
        BY <3>1, <3>2 DEF TypeInv
  <2>2. QED
      BY <1>1, <2>1
<1>3. ASSUME NEW u \in Worker, Busy(u)', Busy(u), run'[u] = run[u]
      PROVE  Zone(u)' /\ Holds(u)' /\ OwnDelivery(u)'
  <2>1. /\ JobOf(u)' = JobOf(u) /\ IsPackage(JobOf(u))' = IsPackage(JobOf(u))
        /\ CodeOf(u)' = CodeOf(u) /\ Last(JobOf(u))' = Last(JobOf(u))
      BY <1>3 DEF JobOf, IsPackage, CodeOf, Last, InDependency
  <2>2. Zone(u) /\ Holds(u) /\ OwnDelivery(u)
      BY <1>3 DEF TypeInv
  <2>3. Zone(u)' /\ Holds(u)'
      BY <1>3, <2>1, <2>2 DEF Zone, ZoneAt, Holds
  <2>4. JobOf(u) \in Job /\ run[u].delivery \in Nat
      BY <1>3, KeyIsKey, BusyRuns, FaultsAssumption DEF TypeInv, Deliveries
  <2>5. row'[JobOf(u)] \in Row /\ run[u].delivery <= begun'[JobOf(u)]
      BY <1>1, <2>2, <2>4 DEF OwnDelivery
  <2>6. ASSUME NEW v \in Worker \ {u}, Busy(v)', JobOf(v)' = JobOf(u)'
        PROVE  run'[v].delivery # run'[u].delivery
    <3>1. CASE run'[v] = run[v]
      <4>1. Busy(v) /\ JobOf(v) = JobOf(u)
          BY <2>1, <2>6, <3>1 DEF Busy, JobOf
      <4>2. QED
          BY <1>3, <2>2, <2>6, <3>1, <4>1 DEF OwnDelivery
    <3>2. CASE run'[v] # run[v]
        BY <1>3, <2>6, <3>2
    <3>3. QED
        BY <3>1, <3>2
  <2>7. OwnDelivery(u)'
      BY <1>3, <2>1, <2>2, <2>5, <2>6 DEF OwnDelivery
  <2>8. QED
      BY <2>3, <2>7
<1>4. QED
    BY <1>2, <1>3 DEF TypeInv

LEMMA Counts ==
    ASSUME TypeInv, NEW j \in Job
    PROVE  /\ queue[j] \in Nat /\ begun[j] \in Nat /\ faults \in Nat /\ faults <= MaxFaults
           /\ queue \in [Job -> Nat] /\ begun \in [Job -> 0 .. MaxFaults + 1]
           /\ queue[j] + begun[j] <= 1 + faults
           /\ j \notin spoilt => queue[j] + begun[j] <= 1
           /\ row[j] = NoRow => queue[j] = 0 /\ begun[j] = 0
           /\ row[j] \in Row \cup {NoRow}
<1>1. /\ queue \in [Job -> Nat] /\ begun \in [Job -> 0 .. MaxFaults + 1]
      /\ faults \in 0 .. MaxFaults /\ row \in [Job -> Row \cup {NoRow}]
    BY DEF TypeInv, TypeOK
<1>2. queue[j] \in Nat /\ begun[j] \in 0 .. MaxFaults + 1 /\ row[j] \in Row \cup {NoRow}
    BY <1>1
<1>3. Delivered(j)
    BY DEF TypeInv
<1>4. QED
    BY <1>1, <1>2, <1>3, FaultsAssumption DEF Delivered

LEMMA RequestStep ==
    ASSUME TypeInv, NEW j \in Job, Request(j)
    PROVE  TypeInv'
<1>1. TypeOK /\ row[j] = NoRow /\ queue[j] = 0 /\ begun[j] = 0 /\ UNCHANGED <<order, conf, ended, run, begun, faults, spoilt>>
    BY Counts DEF Request, TypeInv, histories
<1>2. PICK r \in Row : r = [status |-> "I", split |-> FALSE]
    BY DEF Row
<1>3. row' = [row EXCEPT ![j] = r] /\ queue' = [queue EXCEPT ![j] = 1]
    BY <1>2 DEF Request
<1>4. /\ row' \in [Job -> Row \cup {NoRow}] /\ row'[j] = r /\ r # NoRow
      /\ \A i \in Job : row'[i] = row[i] \/ row'[i] \in Row
      /\ \A i \in Job \ {j} : row'[i] = row[i]
    BY <1>1, <1>3, RowSaved
<1>5. /\ queue \in [Job -> Nat] /\ queue' \in [Job -> Nat] /\ queue'[j] = 1
      /\ \A i \in Job \ {j} : queue'[i] = queue[i]
    BY <1>1, <1>3 DEF TypeOK
<1>6. TypeOK'
    BY <1>1, <1>4, <1>5 DEF TypeOK, Request, histories
<1>7. ASSUME NEW i \in Job
      PROVE  Delivered(i)'
  <2>1. CASE i = j
    <3>1. \A q, b : \A f \in Nat : q = 1 /\ b = 0 => q + b <= 1 + f /\ q + b <= 1
        OBVIOUS
    <3>2. queue'[i] = 1 /\ begun'[i] = 0 /\ faults' \in Nat /\ row'[i] # NoRow
        BY <1>1, <1>4, <1>5, <2>1, Counts
    <3>3. queue'[i] + begun'[i] <= 1 + faults' /\ queue'[i] + begun'[i] <= 1
        BY <3>1, <3>2, Zenon
    <3>4. QED
        BY <3>2, <3>3 DEF Delivered
  <2>2. CASE i # j
      BY <1>1, <1>4, <1>5, <2>2 DEF Delivered, TypeInv
  <2>3. QED
      BY <2>1, <2>2
<1>8. QED
    BY <1>1, <1>4, <1>6, <1>7, OthersStep DEF Busy

LEMMA RedeliverStep ==
    ASSUME TypeInv, NEW w \in Worker, Redeliver(w)
    PROVE  TypeInv'
<1>1. /\ Busy(w) /\ JobOf(w) \in Job /\ TypeOK /\ row[JobOf(w)] \in Row
      /\ UNCHANGED <<order, row, conf, ended, run, begun>>
    BY BusyRuns DEF Redeliver, At, Busy, TypeInv, OwnDelivery, tables
<1>2. PICK j \in Job : j = JobOf(w)
    BY <1>1
<1>3. PICK q \in Nat, b \in Nat, f \in Nat : q = queue[j] /\ b = begun[j] /\ f = faults
    BY Counts
<1>4. /\ f < MaxFaults /\ faults' = f + 1 /\ spoilt' = spoilt \cup {j}
      /\ queue' = [queue EXCEPT ![j] = q + 1]
    BY <1>2, <1>3 DEF Redeliver, Spoils, Fault
<1>5. faults' \in 0 .. MaxFaults /\ (faults' = faults \/ faults' = faults + 1)
  <2>1. f + 1 \in 0 .. MaxFaults
      BY <1>4, FaultsAssumption
  <2>2. QED
      BY <1>3, <1>4, <2>1
<1>6. /\ queue \in [Job -> Nat] /\ queue' \in [Job -> Nat] /\ queue'[j] = q + 1
      /\ \A i \in Job \ {j} : queue'[i] = queue[i]
  <2>1. queue \in [Job -> Nat]
      BY Counts
  <2>2. q + 1 \in Nat
      OBVIOUS
  <2>3. QED
      BY <1>4, <2>1, <2>2
<1>7. TypeOK'
    BY <1>1, <1>4, <1>5, <1>6 DEF TypeOK, Redeliver, tables
<1>8. ASSUME NEW i \in Job
      PROVE  Delivered(i)'
  <2>1. CASE i = j
    <3>1. (q + 1) + b <= 1 + (f + 1)
        BY <1>3, Counts
    <3>2. queue'[i] + begun'[i] <= 1 + faults'
        BY <1>1, <1>3, <1>4, <1>6, <2>1, <3>1
    <3>3. i \in spoilt' /\ row'[i] # NoRow
        BY <1>1, <1>2, <1>4, <2>1, RowAssumption
    <3>4. QED
        BY <3>2, <3>3 DEF Delivered
  <2>2. CASE i # j
    <3>1. /\ queue[i] + begun[i] <= 1 + faults /\ queue[i] + begun[i] <= 1 + (faults + 1)
          /\ i \notin spoilt => queue[i] + begun[i] <= 1
          /\ row[i] = NoRow => queue[i] = 0 /\ begun[i] = 0
        BY Counts
    <3>2. queue'[i] = queue[i] /\ begun'[i] = begun[i] /\ spoilt \subseteq spoilt' /\ row'[i] = row[i]
        BY <1>1, <1>4, <1>6, <2>2
    <3>3. QED
        BY <1>5, <3>1, <3>2 DEF Delivered
  <2>3. QED
      BY <2>1, <2>2
<1>9. QED
    BY <1>1, <1>7, <1>8, OthersStep DEF Busy

LEMMA TakeStep ==
    ASSUME TypeInv, NEW w \in Worker, NEW j \in Job, Take(w, j)
    PROVE  TypeInv'
<1>1. /\ TypeOK /\ run[w].pc = "idle" /\ queue[j] > 0
      /\ UNCHANGED <<order, row, conf, ended, faults, spoilt>>
    BY DEF Take, At, TypeInv, tables, histories
<1>2. row[j] \in Row /\ row[j] # NoRow
    BY <1>1, Counts, RowAssumption
<1>3. PICK q \in Nat, b \in Nat, f \in Nat : q = queue[j] /\ b = begun[j] /\ f = faults
    BY Counts
<1>4. /\ q > 0 /\ q + b <= 1 + f /\ f <= MaxFaults
      /\ queue' = [queue EXCEPT ![j] = q - 1] /\ begun' = [begun EXCEPT ![j] = b + 1]
    BY <1>1, <1>3, Counts DEF Take
<1>5. /\ q - 1 \in Nat /\ b + 1 \in 0 .. MaxFaults + 1 /\ b + 1 \in Nat /\ b + 1 \in Deliveries
      /\ (q - 1) + (b + 1) <= 1 + f
      /\ q + b <= 1 => (q - 1) + (b + 1) <= 1
    BY <1>4, FaultsAssumption DEF Deliveries
<1>6. /\ queue' \in [Job -> Nat] /\ queue'[j] = q - 1
      /\ \A i \in Job \ {j} : queue'[i] = queue[i]
      /\ begun' \in [Job -> 0 .. MaxFaults + 1] /\ begun'[j] = b + 1
      /\ \A i \in Job \ {j} : begun'[i] = begun[i]
    BY <1>1, <1>4, <1>5 DEF TypeOK
<1>7. PICK new : new = [pc |-> "start", job |-> j, delivery |-> b + 1,
                        step |-> IF IsPackage(j) THEN 0 ELSE 1,
                        hook |-> [row[j] EXCEPT !.status = "P"], body |-> NoCopy,
                        parent |-> NoCopy, copy |-> NoCopy, left |-> {}, refused |-> {},
                        alone |-> FALSE]
    OBVIOUS
<1>8. new \in Running /\ new.pc = "start" /\ new.job = j /\ new.delivery = b + 1
      /\ new.step = IF IsPackage(j) THEN 0 ELSE 1
  <2>1. PICK r \in {s \in Row : s.status = "P"} : r = [row[j] EXCEPT !.status = "P"]
      BY <1>2, StatusChanged
  <2>2. PICK step \in {0, 1} : step = IF IsPackage(j) THEN 0 ELSE 1
      OBVIOUS
  <2>3. new = [pc |-> "start", job |-> j, delivery |-> b + 1, step |-> step,
               hook |-> r, body |-> NoCopy,
               parent |-> NoCopy, copy |-> NoCopy, left |-> {}, refused |-> {},
               alone |-> FALSE]
      BY <1>7, <2>1, <2>2
  <2>4. QED
      BY <1>5, <2>2, <2>3 DEF Running
<1>9. run' = [run EXCEPT ![w] = new]
    BY <1>3, <1>7 DEF Take
<1>10. /\ run' \in [Worker -> Running \cup {Idle}] /\ run'[w] = new
       /\ \A u \in Worker \ {w} : run'[u] = run[u]
    BY <1>1, <1>8, <1>9, Update
<1>11. TypeOK'
    BY <1>1, <1>6, <1>10 DEF TypeOK, Take, tables, histories
<1>12. ASSUME NEW i \in Job
       PROVE  Delivered(i)'
  <2>1. CASE i = j
    <3>1. queue'[i] + begun'[i] <= 1 + faults'
        BY <1>1, <1>3, <1>5, <1>6, <2>1
    <3>2. i \notin spoilt' => queue'[i] + begun'[i] <= 1
        BY <1>1, <1>3, <1>5, <1>6, <2>1, Counts
    <3>3. QED
        BY <1>1, <1>2, <2>1, <3>1, <3>2 DEF Delivered
  <2>2. CASE i # j
      BY <1>1, <1>6, <2>2 DEF Delivered, TypeInv
  <2>3. QED
      BY <2>1, <2>2
<1>13. \A x \in ended : x[1] = j => x[2] \in Nat /\ x[2] <= b
  <2>1. ended \subseteq Job \X Deliveries
      BY <1>1 DEF TypeOK
  <2>2. \A d \in Deliveries : d \in Nat
      BY FaultsAssumption DEF Deliveries
  <2>3. QED
      BY <1>3, <2>1, <2>2 DEF TypeInv
<1>14. \A v \in Worker \ {w} : Busy(v) /\ JobOf(v) = j => run[v].delivery \in Nat /\ run[v].delivery <= b
  <2>1. \A d \in Deliveries : d \in Nat
      BY FaultsAssumption DEF Deliveries
  <2>2. QED
      BY <1>3, <2>1, KeyIsKey DEF TypeInv, OwnDelivery
<1>15. \A n \in Nat : n <= b => n # b + 1
    BY <1>3
<1>16. JobOf(w)' = j /\ \A u \in Worker \ {w} : JobOf(u)' = JobOf(u) /\ (Busy(u)' <=> Busy(u))
    BY <1>8, <1>10 DEF JobOf, Busy
<1>17. Zone(w)'
  <2>1. Len(order[j].deps) \in Nat \ {0} /\ Last(j) = Len(order[j].deps)
    <3>1. OrderOK(order[j])
        BY <1>1, OrdersAssumption DEF TypeOK
    <3>2. QED
        BY <3>1 DEF OrderOK, Last
  <2>2. ZoneAt(j, "start", IF IsPackage(j) THEN 0 ELSE 1)
    <3>1. CASE IsPackage(j)
        BY <2>1, <3>1 DEF ZoneAt, InPackage
    <3>2. CASE ~IsPackage(j)
        BY <2>1, <3>2 DEF ZoneAt, InSingle
    <3>3. QED
        BY <3>1, <3>2
  <2>3. PICK s \in {0, 1} : s = IF IsPackage(j) THEN 0 ELSE 1
      OBVIOUS
  <2>4. JobOf(w)' = j /\ run'[w].pc = "start" /\ run'[w].step = s /\ ZoneAt(j, "start", s)
      BY <1>8, <1>10, <1>16, <2>2, <2>3
  <2>5. Last(j)' = Last(j) /\ IsPackage(j)' = IsPackage(j)
      BY <1>1 DEF Last, IsPackage
  <2>6. Last(JobOf(w))' = Last(j) /\ IsPackage(JobOf(w))' = IsPackage(j)
      BY <2>4, <2>5 DEF Last, IsPackage
  <2>7. QED
      BY <1>1, <2>4, <2>6 DEF Zone, ZoneAt
<1>18. Holds(w)'
    BY <1>8, <1>10 DEF Holds
<1>19. OwnDelivery(w)'
  <2>1. row'[JobOf(w)'] \in Row
      BY <1>1, <1>2, <1>16
  <2>2. run'[w].delivery = b + 1 /\ begun'[JobOf(w)'] = b + 1
      BY <1>6, <1>8, <1>10, <1>16
  <2>3. b + 1 <= b + 1
      BY <1>5
  <2>4. <<j, b + 1>> \notin ended
      BY <1>13, <1>15
  <2>5. \A u \in Worker \ {w} : Busy(u)' /\ JobOf(u)' = j => run'[u].delivery # b + 1
      BY <1>10, <1>14, <1>15, <1>16
  <2>6. QED
      BY <1>1, <1>16, <2>1, <2>2, <2>3, <2>4, <2>5 DEF OwnDelivery
<1>20. \A i \in Job : begun'[i] = begun[i] \/ (begun'[i] \in Nat /\ begun'[i] = begun[i] + 1)
    BY <1>3, <1>5, <1>6
<1>21. \A u, v \in Worker : (u # v /\ Busy(u)' /\ Busy(v)' /\ JobOf(u)' = JobOf(v)'
                             /\ run'[u] = run[u] /\ run'[v] # run[v])
                            => run'[u].delivery # run'[v].delivery
    BY <1>8, <1>10, <1>14, <1>15, <1>16
<1>22. \A u \in Worker : Busy(u)' => (Busy(u) /\ run'[u] = run[u])
                                     \/ (Zone(u)' /\ Holds(u)' /\ OwnDelivery(u)')
    BY <1>10, <1>16, <1>17, <1>18, <1>19
<1>23. QED
    BY <1>1, <1>11, <1>12, <1>20, <1>21, <1>22, OthersStep

LEMMA InitTyped ==
    ASSUME Init
    PROVE  TypeInv
<1>1. run \in [Worker -> Running \cup {Idle}] /\ \A w \in Worker : ~Busy(w)
    BY DEF Init, Busy, Idle
<1>2. settled \in [Code -> (SUBSET Item) \cup {Unsettled}]
  <2>1. Unsettled \in (SUBSET Item) \cup {Unsettled}
      OBVIOUS
  <2>2. QED
      BY <2>1 DEF Init
<1>3. content \in [Code -> [Item -> Job \cup {""}]]
    BY DEF Init
<1>4. /\ row \in [Job -> Row \cup {NoRow}] /\ queue \in [Job -> Nat]
      /\ begun \in [Job -> 0 .. MaxFaults + 1] /\ faults \in 0 .. MaxFaults
      /\ conf \in [Code -> Seq(Configuration)]
  <2>1. 0 \in 0 .. MaxFaults + 1 /\ 0 \in 0 .. MaxFaults /\ 0 \in Nat
      BY FaultsAssumption
  <2>2. <<>> \in Seq(Configuration)
      OBVIOUS
  <2>3. QED
      BY <2>1, <2>2 DEF Init
<1>5. DOMAIN child = {} /\ DOMAIN import = {} /\ ended = {} /\ order \in Orders
      /\ raced = {} /\ crossed = FALSE /\ spoilt = {} /\ lost = {}
    BY DEF Init
<1>6. TypeOK
    BY <1>1, <1>2, <1>3, <1>4, <1>5 DEF TypeOK
<1>7. ASSUME NEW j \in Job
      PROVE  Delivered(j)
  <2>1. queue[j] = 0 /\ begun[j] = 0 /\ faults = 0
      BY DEF Init
  <2>2. QED
      BY <2>1 DEF Delivered
<1>8. QED
    BY <1>1, <1>5, <1>6, <1>7 DEF TypeInv

LEMMA StutterStep ==
    ASSUME TypeInv, UNCHANGED vars
    PROVE  TypeInv'
<1>1. TypeOK' /\ UNCHANGED <<order, row, conf, ended, run, begun, queue, faults, spoilt>>
    BY DEF TypeInv, TypeOK, vars
<1>2. \A j \in Job : Delivered(j)'
    BY <1>1 DEF TypeInv, Delivered
<1>3. QED
    BY <1>1, <1>2, OthersStep DEF Busy

LEMMA TypeInvKept ==
    ASSUME TypeInv, [Next]_vars
    PROVE  TypeInv'
<1>1. ASSUME NEW j \in Job, Request(j)
      PROVE  TypeInv'
    BY <1>1, RequestStep
<1>2. ASSUME NEW w \in Worker, Work(w)
      PROVE  TypeInv'
    BY <1>2, TakeStep, BeforeStartStep, GetStep, HookStep, CancelRestStep, ChildStep, LookStep,
       CreateStep, ClearOthersStep, SaveStep, SplitStep, RefreshStep, ProgressStep, ChildDoneStep,
       NextDependencyStep, CompleteStep, ActionsStep, ImportStep
    DEF Work
<1>3. ASSUME NEW w \in Worker, Disturb(w)
      PROVE  TypeInv'
    BY <1>3, RedeliverStep, LoseChildStep, FailsStep, ImportStep DEF Disturb
<1>4. QED
    BY <1>1, <1>2, <1>3, StutterStep DEF Next

\* Types of the state, for any number of jobs, workers and faults: above all
\* that a row of Configuration is never without its version, however the
\* creations and the saves of installations beside each other interleave.
THEOREM TypeCorrect == Spec => []TypeOK
<1>1. Init => TypeInv
    BY InitTyped
<1>2. TypeInv /\ [Next]_vars => TypeInv'
    BY TypeInvKept
<1>3. TypeInv => TypeOK
    BY DEF TypeInv
<1>4. QED
    BY <1>1, <1>2, <1>3, PTL DEF Spec

-----------------------------------------------------------------------------
(* The rows of the configurations *)

LEMMA SameCode ==
    ASSUME NEW u \in Worker, Same(u), UNCHANGED order
    PROVE  /\ CodeOf(u)' = CodeOf(u) /\ JobOf(u)' = JobOf(u)
           /\ SavingPrimary(u)' <=> SavingPrimary(u)
BY DEF Same, CodeOf, JobOf, Last, InDependency, SavingPrimary, At

LEMMA ConfKept ==
    ASSUME ConfInv, UNCHANGED <<order, conf, raced, crossed>>,
           \A u \in Worker : run'[u].pc \in {"create", "save"} => Same(u)
    PROVE  ConfInv'
<1>1. \A u \in Worker : run'[u].pc \in {"create", "save"} =>
          /\ run[u].pc = run'[u].pc /\ run[u].copy = run'[u].copy
          /\ CodeOf(u)' = CodeOf(u) /\ (SavingPrimary(u)' <=> SavingPrimary(u))
    BY SameCode DEF Same
<1>2. Creates'
    BY <1>1 DEF ConfInv, Creates
<1>3. OneRowPerCode'
    BY DEF ConfInv, OneRowPerCode
<1>4. \A u \in Worker : SavingPrimary(u)' => run'[u].pc = "save" /\ SavingPrimary(u)
    BY <1>1 DEF SavingPrimary, At
<1>5. \A c \in Code : \A p \in Nat : IsPrimary(c, p)' <=> IsPrimary(c, p)
    BY DEF IsPrimary
<1>6. Primaries'
    BY <1>1, <1>4, <1>5 DEF ConfInv, Primaries
<1>7. QED
    BY <1>2, <1>3, <1>6 DEF ConfInv

LEMMA LookConf ==
    ASSUME TypeInv, ConfInv, NEW w \in Worker, Look(w)
    PROVE  ConfInv'
<1>1. /\ Busy(w) /\ run[w].pc \in {"find", "primary"} /\ UNCHANGED <<order, conf, raced, crossed>>
      /\ CodeOf(w) \in Code
    BY CodeIsCode DEF Look, At, Busy, tables
<1>2. PICK pc : Moved(w, pc, run[w].step)
    BY LookMoves
<1>3. /\ run'[w].pc = pc /\ CodeOf(w)' = CodeOf(w) /\ \A u \in Worker \ {w} : Same(u)
    BY <1>1, <1>2, ZoneMoves DEF Moved
<1>4. pc = "create" => Len(conf[CodeOf(w)]) # 1
  <2>1. AfterSave(w) \in {"split", "actions", "done", "refresh", "download"}
      BY DEF AfterSave, AfterPrimary
  <2>2. QED
      BY <1>2, <2>1, LookMoves DEF Moved
<1>5. pc = "save" => ~run'[w].copy.primary
  <2>1. AfterSave(w) \in {"split", "actions", "done", "refresh", "download"}
      BY DEF AfterSave, AfterPrimary
  <2>2. QED
      BY <1>2, <2>1, LookMoves DEF Moved
<1>6. \A u \in Worker \ {w} : /\ run'[u].pc = run[u].pc /\ run'[u].copy = run[u].copy
                              /\ CodeOf(u)' = CodeOf(u) /\ (SavingPrimary(u)' <=> SavingPrimary(u))
    BY <1>1, <1>3, SameCode DEF Same
<1>7. Creates'
  <2>1. pc = "create" => conf[CodeOf(w)] = <<>> \/ CodeOf(w) \in raced
    <3>1. conf[CodeOf(w)] \in Seq(Configuration)
        BY <1>1, Rows
    <3>2. Len(conf[CodeOf(w)]) > 1 => CodeOf(w) \in raced
        BY <1>1 DEF ConfInv, OneRowPerCode
    <3>3. Len(conf[CodeOf(w)]) = 0 => conf[CodeOf(w)] = <<>>
        BY <3>1
    <3>4. Len(conf[CodeOf(w)]) \in Nat
        BY <3>1
    <3>5. \A n \in Nat : n = 0 \/ n = 1 \/ n > 1
        OBVIOUS
    <3>6. QED
        BY <1>4, <3>2, <3>3, <3>4, <3>5, Zenon
  <2>2. QED
      BY <1>1, <1>3, <1>6, <2>1 DEF ConfInv, Creates
<1>8. OneRowPerCode'
    BY <1>1 DEF ConfInv, OneRowPerCode
<1>9. \A u \in Worker : SavingPrimary(u)' => u # w /\ SavingPrimary(u)
    BY <1>3, <1>5, <1>6 DEF SavingPrimary, At
<1>10. \A c \in Code : \A p \in Nat : IsPrimary(c, p)' <=> IsPrimary(c, p)
    BY <1>1 DEF IsPrimary
<1>11. Primaries'
    BY <1>1, <1>6, <1>9, <1>10 DEF ConfInv, Primaries
<1>12. QED
    BY <1>7, <1>8, <1>11 DEF ConfInv

LEMMA CreateConf ==
    ASSUME TypeInv, ConfInv, NEW w \in Worker, Create(w)
    PROVE  ConfInv'
<1>1. /\ Busy(w) /\ run[w].pc = "create" /\ UNCHANGED <<order, crossed>> /\ CodeOf(w) \in Code
    BY CodeIsCode DEF Create, At, Busy
<1>2. PICK c \in Code : c = CodeOf(w)
    BY <1>1
<1>3. PICK r \in Configuration : r = [version |-> FirstVersion(w), primary |-> FALSE]
  <2>1. FirstVersion(w) \in Version
      BY DEF FirstVersion, Version
  <2>2. \A v \in Version : [version |-> v, primary |-> FALSE] \in Configuration
      BY DEF Configuration
  <2>3. QED
      BY <2>1, <2>2
<1>4. conf' = [conf EXCEPT ![c] = Append(conf[c], r)] /\ ~r.primary
    BY <1>2, <1>3 DEF Create
<1>5. /\ Len(conf[c]) \in Nat /\ Len(conf'[c]) = Len(conf[c]) + 1
      /\ conf'[c][Len(conf[c]) + 1] = r
      /\ \A n \in 1 .. Len(conf[c]) : conf'[c][n] = conf[c][n]
      /\ \A e \in Code \ {c} : conf'[e] = conf[e]
      /\ DOMAIN conf[c] = 1 .. Len(conf[c])
      /\ conf[c] \in Seq(Configuration)
    BY <1>4, Appended, Rows
<1>6. DOMAIN conf'[c] = 1 .. Len(conf[c]) + 1
  <2>1. Append(conf[c], r) = conf'[c]
      BY <1>4 DEF TypeInv, TypeOK
  <2>2. DOMAIN Append(conf[c], r) = 1 .. Len(conf[c]) + 1
      BY <1>5
  <2>3. QED
      BY <2>1, <2>2
<1>7. /\ Moved(w, "save", run[w].step) /\ ~run'[w].copy.primary
    BY CreateMoves
<1>8. /\ run'[w].pc = "save" /\ \A u \in Worker \ {w} : Same(u)
    BY <1>7 DEF Moved
<1>9. \A u \in Worker \ {w} : /\ run'[u].pc = run[u].pc /\ run'[u].copy = run[u].copy
                              /\ CodeOf(u)' = CodeOf(u) /\ (SavingPrimary(u)' <=> SavingPrimary(u))
    BY <1>1, <1>8, SameCode DEF Same
<1>10. conf[c] = <<>> \/ c \in raced
    BY <1>1, <1>2 DEF ConfInv, Creates
<1>11. raced' = IF \E u \in Others(w, c) : At(u, {"create"}) THEN raced \cup {c} ELSE raced
    BY <1>2 DEF Create
<1>12. raced \subseteq raced'
    BY <1>11
<1>13. Creates'
  <2>1. ASSUME NEW u \in Worker, run'[u].pc = "create"
        PROVE  (conf[CodeOf(u)] = <<>> \/ CodeOf(u) \in raced)'
    <3>1. u # w /\ run[u].pc = "create" /\ CodeOf(u)' = CodeOf(u)
        BY <1>8, <1>9, <2>1
    <3>2. CodeOf(u) \in Code /\ (conf[CodeOf(u)] = <<>> \/ CodeOf(u) \in raced)
        BY <3>1, CodeIsCode DEF ConfInv, Creates, Busy
    <3>3. CASE CodeOf(u) = c
      <4>1. u \in Others(w, c) /\ At(u, {"create"})
          BY <3>1, <3>3 DEF Others, Inside, At
      <4>2. QED
          BY <1>11, <3>1, <3>3, <4>1
    <3>4. CASE CodeOf(u) # c
        BY <1>5, <1>12, <3>1, <3>2, <3>4
    <3>5. QED
        BY <3>3, <3>4
  <2>2. QED
      BY <2>1 DEF Creates
<1>14. OneRowPerCode'
  <2>1. ASSUME NEW e \in Code, Len(conf'[e]) > 1
        PROVE  e \in raced'
    <3>1. CASE e = c
      <4>1. Len(conf[c]) # 0
        <5>1. \A m, n \in Nat : m = n + 1 /\ m > 1 => n # 0
            OBVIOUS
        <5>2. Len(conf[c]) + 1 \in Nat
            BY <1>5
        <5>3. QED
            BY <1>5, <2>1, <3>1, <5>1, <5>2
      <4>2. conf[c] # <<>>
          BY <4>1
      <4>3. QED
          BY <1>10, <1>12, <3>1, <4>2
    <3>2. CASE e # c
        BY <1>5, <1>12, <2>1, <3>2 DEF ConfInv, OneRowPerCode
    <3>3. QED
        BY <3>1, <3>2
  <2>2. QED
      BY <2>1 DEF OneRowPerCode
<1>15. \A u \in Worker : SavingPrimary(u)' => u # w /\ SavingPrimary(u)
    BY <1>7, <1>9 DEF SavingPrimary, At
<1>16. \A e \in Code : \A p \in Nat : IsPrimary(e, p)' => IsPrimary(e, p)
  <2>1. ASSUME NEW e \in Code, NEW p \in Nat, IsPrimary(e, p)'
        PROVE  IsPrimary(e, p)
    <3>1. p \in DOMAIN conf'[e] /\ conf'[e][p].primary
        BY <2>1 DEF IsPrimary
    <3>2. CASE e = c
      <4>1. p \in 1 .. Len(conf[c]) + 1 /\ p # Len(conf[c]) + 1
          BY <1>4, <1>5, <1>6, <3>1, <3>2
      <4>2. p \in 1 .. Len(conf[c])
          BY <1>5, <4>1
      <4>3. QED
          BY <1>5, <3>1, <3>2, <4>2 DEF IsPrimary
    <3>3. CASE e # c
        BY <1>5, <3>1, <3>3 DEF IsPrimary
    <3>4. QED
        BY <3>2, <3>3
  <2>2. QED
      BY <2>1
<1>17. Primaries'
    BY <1>1, <1>9, <1>15, <1>16 DEF ConfInv, Primaries
<1>18. QED
    BY <1>13, <1>14, <1>17 DEF ConfInv

LEMMA ClearConf ==
    ASSUME TypeInv, ConfInv, NEW w \in Worker, ClearOthers(w)
    PROVE  ConfInv'
<1>1. /\ Busy(w) /\ run[w].pc = "clear" /\ UNCHANGED <<order, raced, crossed>> /\ CodeOf(w) \in Code
      /\ Goes(w, "save") /\ TypeOK
    BY CodeIsCode DEF ClearOthers, At, Busy, TypeInv, histories
<1>2. Moved(w, "save", run[w].step) /\ KeptCopy(w)
    BY <1>1, GoesMoves
<1>3. /\ run'[w].pc = "save" /\ run'[w].copy = run[w].copy /\ CodeOf(w)' = CodeOf(w)
      /\ \A u \in Worker \ {w} : Same(u)
    BY <1>1, <1>2, ZoneMoves DEF Moved, KeptCopy
<1>4. \A u \in Worker \ {w} : /\ run'[u].pc = run[u].pc /\ run'[u].copy = run[u].copy
                              /\ CodeOf(u)' = CodeOf(u) /\ (SavingPrimary(u)' <=> SavingPrimary(u))
    BY <1>1, <1>3, SameCode DEF Same
<1>5. \A c \in Code : /\ DOMAIN conf'[c] = DOMAIN conf[c] /\ Len(conf'[c]) = Len(conf[c])
                      /\ \A p \in DOMAIN conf[c] :
                            conf'[c][p].primary =>
                               c = CodeOf(w) /\ p = run[w].copy.pos /\ conf[c][p].primary
    BY Cleared
<1>6. conf' \in [Code -> Seq(Configuration)]
    BY Cleared
<1>7. Creates'
  <2>1. ASSUME NEW u \in Worker, run'[u].pc = "create"
        PROVE  (conf[CodeOf(u)] = <<>> \/ CodeOf(u) \in raced)'
    <3>1. u # w /\ run[u].pc = "create" /\ CodeOf(u)' = CodeOf(u)
        BY <1>3, <1>4, <2>1
    <3>2. CodeOf(u) \in Code /\ (conf[CodeOf(u)] = <<>> \/ CodeOf(u) \in raced)
        BY <3>1, CodeIsCode DEF ConfInv, Creates, Busy
    <3>3. conf[CodeOf(u)] = <<>> => conf'[CodeOf(u)] = <<>>
      <4>1. conf[CodeOf(u)] = <<>> => Len(conf'[CodeOf(u)]) = 0
          BY <1>5, <3>2
      <4>2. conf'[CodeOf(u)] \in Seq(Configuration)
          BY <1>6, <3>2
      <4>3. QED
          BY <4>1, <4>2
    <3>4. QED
        BY <1>1, <3>1, <3>2, <3>3
  <2>2. QED
      BY <2>1 DEF Creates
<1>8. OneRowPerCode'
    BY <1>1, <1>5 DEF ConfInv, OneRowPerCode
<1>9. \A c \in Code : \A p \in Nat : IsPrimary(c, p)' =>
         IsPrimary(c, p) /\ c = CodeOf(w) /\ p = run[w].copy.pos
    BY <1>5 DEF IsPrimary
<1>10. ASSUME ~crossed', NEW u \in Worker, SavingPrimary(u)', NEW c \in Code, NEW p \in Nat, IsPrimary(c, p)'
       PROVE  c = CodeOf(u)' /\ p = run'[u].copy.pos
  <2>1. CASE u = w
      BY <1>3, <1>9, <1>10, <2>1
  <2>2. CASE u # w
      BY <1>1, <1>4, <1>9, <1>10, <2>2 DEF ConfInv, Primaries
  <2>3. QED
      BY <2>1, <2>2
<1>11. Primaries'
    BY <1>9, <1>10 DEF Primaries
<1>12. QED
    BY <1>7, <1>8, <1>11 DEF ConfInv

LEMMA SaveConf ==
    ASSUME TypeInv, ConfInv, NEW w \in Worker, Save(w)
    PROVE  ConfInv'
<1>1. /\ Busy(w) /\ run[w].pc = "save" /\ UNCHANGED <<order, raced>> /\ CodeOf(w) \in Code
    BY CodeIsCode DEF Save, At, Busy
<1>2. Moved(w, AfterSave(w), run[w].step) /\ AfterSave(w) \in {"split", "actions", "done", "refresh", "download"}
    BY SaveMoves DEF AfterSave, AfterPrimary
<1>3. run'[w].pc \notin {"save", "create"} /\ \A u \in Worker \ {w} : Same(u)
    BY <1>2 DEF Moved
<1>4. \A u \in Worker \ {w} : /\ run'[u].pc = run[u].pc /\ run'[u].copy = run[u].copy
                              /\ CodeOf(u)' = CodeOf(u) /\ (SavingPrimary(u)' <=> SavingPrimary(u))
    BY <1>1, <1>3, SameCode DEF Same
<1>5. /\ run[w].copy.pos \in DOMAIN conf[CodeOf(w)]
      /\ conf'[CodeOf(w)][run[w].copy.pos].primary = run[w].copy.primary
      /\ conf' \in [Code -> Seq(Configuration)]
      /\ \A c \in Code : /\ DOMAIN conf'[c] = DOMAIN conf[c] /\ Len(conf'[c]) = Len(conf[c])
                         /\ \A p \in DOMAIN conf[c] :
                               \/ c = CodeOf(w) /\ p = run[w].copy.pos
                               \/ conf'[c][p] = conf[c][p]
    BY Saved
<1>6. Creates'
  <2>1. ASSUME NEW u \in Worker, run'[u].pc = "create"
        PROVE  (conf[CodeOf(u)] = <<>> \/ CodeOf(u) \in raced)'
    <3>1. u # w /\ run[u].pc = "create" /\ CodeOf(u)' = CodeOf(u)
        BY <1>3, <1>4, <2>1
    <3>2. CodeOf(u) \in Code /\ (conf[CodeOf(u)] = <<>> \/ CodeOf(u) \in raced)
        BY <3>1, CodeIsCode DEF ConfInv, Creates, Busy
    <3>3. conf[CodeOf(u)] = <<>> => conf'[CodeOf(u)] = <<>>
      <4>1. conf[CodeOf(u)] = <<>> => Len(conf'[CodeOf(u)]) = 0
          BY <1>5, <3>2
      <4>2. conf'[CodeOf(u)] \in Seq(Configuration)
          BY <1>5, <3>2
      <4>3. QED
          BY <4>1, <4>2
    <3>4. QED
        BY <1>1, <3>1, <3>2, <3>3
  <2>2. QED
      BY <2>1 DEF Creates
<1>7. OneRowPerCode'
    BY <1>1, <1>5 DEF ConfInv, OneRowPerCode
<1>8. \A c \in Code : \A p \in Nat : IsPrimary(c, p)' =>
         \/ IsPrimary(c, p)
         \/ SavingPrimary(w) /\ c = CodeOf(w) /\ p = run[w].copy.pos
    BY <1>1, <1>5 DEF IsPrimary, SavingPrimary, At
<1>9. \A u \in Worker : SavingPrimary(u)' => u # w /\ SavingPrimary(u)
    BY <1>3, <1>4 DEF SavingPrimary, At
<1>10. ~crossed' => ~crossed /\ ~(SavingPrimary(w) /\ \E u \in Worker \ {w} : SavingPrimary(u))
    BY DEF Save
<1>11. ASSUME ~crossed'
       PROVE  \A c, e \in Code : \A p, q \in Nat :
                 IsPrimary(c, p)' /\ IsPrimary(e, q)' => c = e /\ p = q
    BY <1>8, <1>10, <1>11 DEF ConfInv, Primaries
<1>12. ASSUME ~crossed', NEW u \in Worker, SavingPrimary(u)'
       PROVE  \A c \in Code : \A p \in Nat : IsPrimary(c, p)' => c = CodeOf(u)' /\ p = run'[u].copy.pos
  <2>1. u # w /\ SavingPrimary(u) /\ ~SavingPrimary(w)
      BY <1>9, <1>10, <1>12
  <2>2. QED
      BY <1>4, <1>8, <1>10, <1>12, <2>1 DEF ConfInv, Primaries
<1>13. Primaries'
    BY <1>11, <1>12 DEF Primaries
<1>14. QED
    BY <1>6, <1>7, <1>13 DEF ConfInv

\* The rest neither creates nor saves a row, and sends no worker there.
LEMMA QuietStep ==
    ASSUME TypeInv, [Next]_vars
    PROVE  \/ \E w \in Worker : Look(w) \/ Create(w) \/ ClearOthers(w) \/ Save(w)
           \/ /\ UNCHANGED <<order, conf, raced, crossed>>
              /\ \A u \in Worker : run'[u].pc \in {"create", "save"} => Same(u)
<1>1. CASE UNCHANGED vars \/ \E j \in Job : Request(j)
    BY <1>1 DEF vars, Request, Same, histories
<1>2. ASSUME NEW w \in Worker, NEW j \in Job, Take(w, j)
      PROVE  /\ UNCHANGED <<order, conf, raced, crossed>>
             /\ \A u \in Worker : run'[u].pc \in {"create", "save"} => Same(u)
  <2>1. /\ UNCHANGED <<order, conf, raced, crossed>> /\ run'[w].pc = "start"
        /\ \A u \in Worker \ {w} : run'[u] = run[u]
      BY <1>2 DEF Take, tables, histories, TypeInv, TypeOK
  <2>2. QED
      BY <2>1 DEF Same
<1>3. ASSUME NEW w \in Worker, Work(w) \/ Disturb(w), ~(\E j \in Job : Take(w, j)), ~Redeliver(w),
             ~Look(w), ~Create(w), ~ClearOthers(w), ~Save(w)
      PROVE  /\ run'[w].pc \notin {"create", "save"} /\ \A u \in Worker \ {w} : Same(u)
  <2>1. TypeOK
      BY DEF TypeInv
  <2>2. CASE OnSuccess(w) \/ OnFailure(w) \/ LoseChild(w)
      BY <2>2, IdleMoves DEF OnSuccess, OnFailure, LoseChild, Hook
  <2>3. CASE BeforeStart(w) \/ CancelRest(w) \/ Child(w) \/ Actions(w) \/ PackageDone(w) \/ ImportDone(w) \/ Fails(w)
    <3>1. /\ Busy(w)
          /\ \E pc \in {"get", "failure", "find", "done", "success", "refreshAgain", "childDone", "cancel"} :
                Goes(w, pc)
        BY <2>3 DEF BeforeStart, CancelRest, Child, Actions, PackageDone, ImportDone, Fails, AfterRaise,
                    At, Busy
    <3>2. QED
        BY <2>1, <3>1, GoesMoves DEF Moved
  <2>4. CASE Get(w) \/ Split(w) \/ Refresh(w) \/ Progress(w) \/ ChildDone(w) \/ NextDependency(w) \/ Complete(w)
      BY <2>4, GetMoves, SplitMoves, RefreshMoves, ProgressMoves, ChildDoneMoves, NextMoves, CompleteMoves
      DEF Moved
  <2>5. CASE Download(w) \/ \E i \in Item : ImportItem(w, i) \/ RefuseItem(w, i)
      BY <2>5, ImportMoves DEF Moved
  <2>6. QED
      BY <1>3, <2>2, <2>3, <2>4, <2>5 DEF Work, Disturb
<1>4. ASSUME NEW w \in Worker, Work(w) \/ Disturb(w), ~Look(w), ~Create(w), ~ClearOthers(w), ~Save(w)
      PROVE  UNCHANGED <<order, conf, raced, crossed>>
    BY <1>4 DEF Work, Disturb, Take, BeforeStart, Get, OnSuccess, OnFailure, Hook, Redeliver, LoseChild, Fails,
       CancelRest, Child, Split, Refresh, Progress, ChildDone, NextDependency, Complete, Actions, PackageDone,
       Download, ImportItem, RefuseItem, ImportDone, Spoils, tables, histories
<1>5. ASSUME NEW w \in Worker, Redeliver(w)
      PROVE  \A u \in Worker : Same(u)
    BY <1>5 DEF Redeliver, Same
<1>6. QED
    BY <1>1, <1>2, <1>3, <1>4, <1>5 DEF Next

LEMMA ConfInvKept ==
    ASSUME TypeInv, ConfInv, [Next]_vars
    PROVE  ConfInv'
BY QuietStep, ConfKept, LookConf, CreateConf, ClearConf, SaveConf

LEMMA InitConf ==
    ASSUME Init
    PROVE  ConfInv
<1>1. \A w \in Worker : run[w].pc = "idle"
    BY DEF Init, Idle
<1>2. \A c \in Code : conf[c] = <<>>
    BY DEF Init
<1>3. \A c \in Code : Len(conf[c]) = 0 /\ DOMAIN conf[c] = {}
    BY <1>2
<1>4. Creates
    BY <1>1 DEF Creates
<1>5. OneRowPerCode
    BY <1>3 DEF OneRowPerCode
<1>6. Primaries
    BY <1>1, <1>3 DEF Primaries, IsPrimary, SavingPrimary, At
<1>7. QED
    BY <1>4, <1>5, <1>6 DEF ConfInv

\* A second row of a configuration code comes only from processes that looked
\* for it before either created it: installations one after the other, and
\* installations of different codes, leave one row per code.
THEOREM RowsComeFromRaces == Spec => []OneRowPerCode
<1>1. Init => TypeInv /\ ConfInv
    BY InitTyped, InitConf
<1>2. TypeInv /\ ConfInv /\ [Next]_vars => TypeInv' /\ ConfInv'
    BY TypeInvKept, ConfInvKept
<1>3. TypeInv /\ ConfInv => OneRowPerCode
    BY DEF ConfInv
<1>4. QED
    BY <1>1, <1>2, <1>3, PTL DEF Spec

\* Two configurations are primary only when the saves of two primary modules
\* met: the clear of the other rows and the save are two statements.
THEOREM PrimariesComeFromCrossing == Spec => []AtMostOnePrimary
<1>1. Init => TypeInv /\ ConfInv
    BY InitTyped, InitConf
<1>2. TypeInv /\ ConfInv /\ [Next]_vars => TypeInv' /\ ConfInv'
    BY TypeInvKept, ConfInvKept
<1>3. TypeInv /\ ConfInv => AtMostOnePrimary
  <2> SUFFICES ASSUME TypeInv, ConfInv, ~crossed
               PROVE  AtMostOnePrimary
      BY DEF AtMostOnePrimary
  <2>1. PICK S : S = {x \in Code \X (1 .. Cardinality(Job) * (MaxFaults + 1)) :
                         x[2] \in DOMAIN conf[x[1]] /\ conf[x[1]][x[2]].primary}
      OBVIOUS
  <2>2. \A x \in S : /\ x = <<x[1], x[2]>> /\ x[1] \in Code /\ IsPrimary(x[1], x[2])
                     /\ x[2] \in Nat
    <3>1. \A c \in Code : \A p \in DOMAIN conf[c] : p \in Nat
        BY Rows
    <3>2. QED
        BY <2>1, <3>1 DEF IsPrimary
  <2>3. \A x, y \in S : x = y
      BY <2>2 DEF ConfInv, Primaries
  <2>4. Cardinality(S) \in {0, 1}
    <3>1. CASE S = {}
        BY <3>1, FS_EmptySet
    <3>2. CASE S # {}
      <4>1. PICK x : x \in S
          BY <3>2
      <4>2. S = {x}
          BY <2>3, <4>1
      <4>3. QED
          BY <4>2, FS_Singleton
    <3>3. QED
        BY <3>1, <3>2
  <2>5. QED
      BY <2>1, <2>4 DEF AtMostOnePrimary
<1>4. QED
    BY <1>1, <1>2, <1>3, PTL DEF Spec

-----------------------------------------------------------------------------
(* Why a job fails *)

\* Two workers are at the same job only after a redelivery.
LEMMA Alone ==
    ASSUME TypeInv, NEW w \in Worker, NEW u \in Worker \ {w}, Busy(w), Busy(u),
           JobOf(u) = JobOf(w)
    PROVE  JobOf(w) \in spoilt
<1>1. JobOf(w) \in Job
    BY BusyRuns DEF TypeInv
<1>2. /\ run[w].delivery \in Deliveries /\ run[u].delivery \in Deliveries
      /\ run[w].delivery # run[u].delivery
      /\ run[w].delivery <= begun[JobOf(w)] /\ run[u].delivery <= begun[JobOf(w)]
    BY KeyIsKey DEF TypeInv, OwnDelivery
<1>3. PICK m, n, b, q \in Nat :
        /\ m = run[w].delivery /\ n = run[u].delivery /\ b = begun[JobOf(w)] /\ q = queue[JobOf(w)]
        /\ m > 0 /\ n > 0
    BY <1>1, <1>2, Counts, FaultsAssumption DEF Deliveries
<1>4. q + b > 1
    BY <1>2, <1>3
<1>5. JobOf(w) \notin spoilt => q + b <= 1
    BY <1>1, <1>3, Counts
<1>6. QED
    BY <1>3, <1>4, <1>5

LEMMA CausesStep ==
    ASSUME TypeInv, Causes, NEW w \in Worker, Busy(w), UNCHANGED order,
           spoilt \subseteq spoilt', \A u \in Worker \ {w} : Same(u),
           run'[w].pc # "idle" => CauseOf(w)',
           \/ UNCHANGED row
           \/ \E r \in Row : /\ row' = [row EXCEPT ![JobOf(w)] = r]
                             /\ r.status = "E" => JobOf(w) \in spoilt'
    PROVE  Causes'
<1>1. JobOf(w) \in Job /\ TypeOK
    BY BusyRuns DEF TypeInv
<1>2. /\ \A i \in Job \ {JobOf(w)} : row'[i] = row[i]
      /\ \/ row'[JobOf(w)] = row[JobOf(w)]
         \/ row'[JobOf(w)].status = "E" => JobOf(w) \in spoilt'
    BY <1>1, RowSaved
<1>3. \A j \in Job : Blamed(j, row[j])'
  <2>1. \A j \in Job : row'[j] = row[j] => Blamed(j, row[j])'
      BY DEF Causes, Blamed
  <2>2. QED
      BY <1>2, <2>1 DEF Blamed
<1>4. ASSUME NEW u \in Worker \ {w}, Busy(u)'
      PROVE  CauseOf(u)'
  <2>1. Busy(u) /\ CauseOf(u) /\ Same(u) /\ JobOf(u)' = JobOf(u) /\ IsPackage(JobOf(u))' = IsPackage(JobOf(u))
      BY <1>4 DEF Busy, Same, Causes, JobOf, IsPackage
  <2>2. JobOf(u) \in Job
      BY <2>1, BusyRuns DEF TypeInv
  <2>3. CASE JobOf(u) = JobOf(w)
    <3>1. JobOf(u) \in spoilt'
        BY <2>1, <2>3, Alone
    <3>2. QED
        BY <2>1, <3>1 DEF CauseOf, Blamed
  <2>4. CASE JobOf(u) # JobOf(w)
    <3>1. row'[JobOf(u)] = row[JobOf(u)]
        BY <1>2, <2>2, <2>4
    <3>2. QED
        BY <2>1, <3>1 DEF CauseOf, Blamed, Same
  <2>5. QED
      BY <2>3, <2>4
<1>5. Busy(w)' => CauseOf(w)'
    BY DEF Busy
<1>6. QED
    BY <1>3, <1>4, <1>5 DEF Causes

\* A worker that moves on within its part of the job, and leaves the row or
\* saves one that holds the options of the package.
LEMMA CauseMoves ==
    ASSUME TypeInv, Causes, NEW w \in Worker, Busy(w), NEW pc, NEW step, Moved(w, pc, step),
           UNCHANGED order, spoilt \subseteq spoilt', run[w].pc \notin {"success", "failure"},
           KeptBody(w), KeptParent(w) \/ run'[w].parent = NoCopy,
           pc \in {"cancel", "failure"} => JobOf(w) \in spoilt',
           step = run[w].step \/ run[w].step > 0,
           \/ UNCHANGED row
           \/ \E r \in Row : /\ row' = [row EXCEPT ![JobOf(w)] = r]
                             /\ r.status = "E" => JobOf(w) \in spoilt'
                             /\ IsPackage(JobOf(w)) /\ run[w].step > 0 => r.split
    PROVE  Causes'
<1>1. JobOf(w) \in Job /\ TypeOK /\ CauseOf(w)
    BY BusyRuns DEF TypeInv, Causes
<1>2. /\ JobOf(w)' = JobOf(w) /\ IsPackage(JobOf(w))' = IsPackage(JobOf(w))
      /\ run'[w].pc = pc /\ run'[w].step = step /\ run'[w].body = run[w].body
      /\ run'[w].parent = run[w].parent \/ run'[w].parent = NoCopy
    BY ZoneMoves DEF Moved, KeptBody, KeptParent
<1>3. JobOf(w) \notin spoilt /\ IsPackage(JobOf(w)) /\ run[w].step > 0 => row'[JobOf(w)].split
  <2>1. CASE UNCHANGED row
      BY <1>1, <2>1 DEF CauseOf
  <2>2. CASE ~UNCHANGED row
      BY <1>1, <2>2, RowSaved
  <2>3. QED
      BY <2>1, <2>2
<1>4. step > 0 /\ run[w].step = step => run[w].step > 0
    OBVIOUS
<1>5. /\ Blamed(JobOf(w), run[w].body)' /\ Blamed(JobOf(w), run[w].parent)'
    BY <1>1, <1>2, RowAssumption DEF CauseOf, Blamed
<1>6. pc \notin {"success", "failure"} => run[w].pc \notin {"success", "failure"}
    OBVIOUS
<1>7. CauseOf(w)'
    BY <1>2, <1>3, <1>4, <1>5, <1>6 DEF CauseOf
<1>8. QED
    BY <1>7, CausesStep DEF Moved

LEMMA MarkRow ==
    ASSUME NEW w \in Worker, run[w].body \in Row, NEW s \in {"P", "D", "E"}, Mark(w, s)
    PROVE  \/ UNCHANGED row
           \/ \E r \in Row : /\ row' = [row EXCEPT ![JobOf(w)] = r] /\ r.status = s
                             /\ ~(IsPackage(JobOf(w)) /\ run[w].step > 0)
<1>1. PICK r : r = [run[w].body EXCEPT !.status = s]
    OBVIOUS
<1>2. r \in Row /\ r.status = s
    BY <1>1 DEF Row
<1>3. QED
    BY <1>1, <1>2 DEF Mark

\* Steps that save no row, and steps that save the worker's copy.
LEMMA CauseOfWork ==
    ASSUME TypeInv, Causes, NEW w \in Worker,
           \/ CancelRest(w) \/ Look(w) \/ Create(w) \/ ClearOthers(w) \/ Save(w) \/ NextDependency(w)
           \/ Download(w) \/ ImportDone(w) \/ \E i \in Item : ImportItem(w, i) \/ RefuseItem(w, i)
    PROVE  Causes'
<1>1. /\ Busy(w) /\ run[w].pc \notin {"success", "failure"} /\ UNCHANGED <<order, row, spoilt>> /\ TypeOK
    BY DEF CancelRest, Look, Create, ClearOthers, Save, NextDependency, Download, ImportDone,
           ImportItem, RefuseItem, At, Busy, tables, histories, TypeInv
<1>2. CancelRest(w) => JobOf(w) \in spoilt
    BY <1>1 DEF CancelRest, At, Causes, CauseOf
<1>3. \E pc, step :
         /\ Moved(w, pc, step) /\ KeptBody(w) /\ KeptParent(w)
         /\ pc \in {"cancel", "failure"} => JobOf(w) \in spoilt
         /\ step = run[w].step \/ run[w].step > 0
  <2>1. CASE CancelRest(w)
      BY <1>1, <1>2, <2>1, GoesMoves DEF CancelRest
  <2>2. CASE Look(w)
    <3>1. AfterSave(w) \notin {"cancel", "failure"}
        BY DEF AfterSave, AfterPrimary
    <3>2. QED
        BY <2>2, <3>1, LookMoves
  <2>3. CASE Create(w)
      BY <2>3, CreateMoves
  <2>4. CASE ClearOthers(w)
      BY <1>1, <2>4, GoesMoves DEF ClearOthers
  <2>5. CASE Save(w)
    <3>1. AfterSave(w) \notin {"cancel", "failure"}
        BY DEF AfterSave, AfterPrimary
    <3>2. QED
        BY <2>5, <3>1, SaveMoves
  <2>6. CASE NextDependency(w)
    <3>1. run[w].step > 0
        BY <1>1, <2>6, NextMoves, CodeIsCode DEF InDependency
    <3>2. QED
        BY <2>6, <3>1, NextMoves
  <2>7. CASE ImportDone(w)
      BY <1>1, <2>7, GoesMoves DEF ImportDone
  <2>8. CASE Download(w) \/ \E i \in Item : ImportItem(w, i) \/ RefuseItem(w, i)
      BY <2>8, ImportMoves
  <2>9. QED
      BY <2>1, <2>2, <2>3, <2>4, <2>5, <2>6, <2>7, <2>8
<1>4. QED
    BY <1>1, <1>3, CauseMoves

LEMMA CauseOfSaves ==
    ASSUME TypeInv, Causes, NEW w \in Worker,
           \/ BeforeStart(w) \/ Child(w) \/ Progress(w) \/ ChildDone(w) \/ Complete(w)
           \/ Actions(w) \/ PackageDone(w)
    PROVE  Causes'
<1>1. /\ Busy(w) /\ run[w].pc \notin {"success", "failure"} /\ UNCHANGED <<order, spoilt>> /\ TypeOK
      /\ run[w] \in Running
    BY BusyRuns DEF BeforeStart, Child, Progress, ChildDone, Complete, Actions, PackageDone,
           At, Busy, tables, histories, TypeInv
<1>2. CauseOf(w) /\ Holds(w) /\ Zone(w)
    BY <1>1 DEF Causes, TypeInv
<1>3. \E pc, step :
         /\ Moved(w, pc, step) /\ KeptBody(w)
         /\ KeptParent(w) \/ run'[w].parent = NoCopy
         /\ pc \notin {"cancel", "failure"}
         /\ step = run[w].step \/ run[w].step > 0
  <2>1. CASE BeforeStart(w) \/ Child(w) \/ Actions(w) \/ PackageDone(w)
    <3>1. \E pc \in {"get", "find", "done", "success"} : Goes(w, pc)
        BY <2>1 DEF BeforeStart, Child, Actions, PackageDone
    <3>2. QED
        BY <1>1, <3>1, GoesMoves
  <2>2. CASE Progress(w)
      BY <2>2, ProgressMoves
  <2>3. CASE ChildDone(w)
      BY <2>3, ChildDoneMoves
  <2>4. CASE Complete(w)
    <3>1. run[w].step > 0
        BY <1>1, <2>4, CompleteMoves, CodeIsCode DEF InDependency
    <3>2. QED
        BY <2>4, <3>1, CompleteMoves
  <2>5. QED
      BY <2>1, <2>2, <2>3, <2>4
<1>4. \/ UNCHANGED row
      \/ \E r \in Row : /\ row' = [row EXCEPT ![JobOf(w)] = r]
                        /\ r.status = "E" => JobOf(w) \in spoilt'
                        /\ IsPackage(JobOf(w)) /\ run[w].step > 0 => r.split
  <2>1. CASE BeforeStart(w)
    <3>1. run[w].pc = "start"
        BY <2>1 DEF BeforeStart, At
    <3>2. ~(IsPackage(JobOf(w)) /\ run[w].step > 0)
        BY <1>1, <1>2, <3>1, CodeIsCode DEF Zone, ZoneAt, InPackagesDependency, InPrimary
    <3>3. run[w].hook \in Row /\ run[w].hook.status = "P"
        BY <1>1 DEF Running
    <3>4. QED
        BY <2>1, <3>2, <3>3 DEF BeforeStart
  <2>2. CASE Child(w) \/ ChildDone(w)
    <3>1. run[w].body \in Row
        BY <1>2, <2>2 DEF Holds, Child, ChildDone, At
    <3>2. QED
        BY <2>2, <3>1, MarkRow DEF Child, ChildDone
  <2>3. CASE Progress(w)
    <3>1. run[w].parent \in Row /\ run[w].parent.split
        BY <2>3, ProgressMoves
    <3>2. QED
        BY <1>1, <1>2, <2>3, <3>1 DEF Progress, CauseOf, Blamed
  <2>4. CASE Complete(w) \/ Actions(w)
    <3>1. run[w].body \in Row /\ (IsPackage(JobOf(w)) /\ run[w].step > 0 => run[w].body.split)
        BY <1>2, <2>4 DEF Holds, Complete, Actions, At
    <3>2. QED
        BY <1>1, <1>2, <2>4, <3>1 DEF Complete, Actions, CauseOf, Blamed
  <2>5. CASE PackageDone(w)
    <3>1. run[w].body \in Row /\ (IsPackage(JobOf(w)) /\ run[w].step > 0 => run[w].body.split)
        BY <1>2, <2>5 DEF Holds, PackageDone, At
    <3>2. QED
      <4>1. PICK r : r = [run[w].body EXCEPT !.status = "D"]
          OBVIOUS
      <4>2. r \in Row /\ r.status = "D" /\ r.split = run[w].body.split
          BY <3>1, <4>1, StatusChanged
      <4>3. QED
          BY <2>5, <3>1, <4>1, <4>2 DEF PackageDone
  <2>6. QED
      BY <2>1, <2>2, <2>3, <2>4, <2>5
<1>5. QED
    BY <1>1, <1>3, <1>4, CauseMoves

\* Steps that read the row, and the steps that spoil a job or end a delivery.
LEMMA CauseOfReads ==
    ASSUME TypeInv, Causes, NEW w \in Worker, Get(w) \/ Split(w) \/ Refresh(w)
    PROVE  Causes'
<1>1. /\ Busy(w) /\ run[w].pc \in {"get", "split", "refresh", "refreshAgain"} /\ UNCHANGED <<order, spoilt>> /\ TypeOK
      /\ JobOf(w) \in Job
    BY BusyRuns DEF Get, Split, Refresh, At, Busy, tables, histories, TypeInv
<1>2. CauseOf(w) /\ Zone(w) /\ run[w].step \in Nat /\ Blamed(JobOf(w), row[JobOf(w)])
    BY <1>1, CodeIsCode DEF Causes, TypeInv
<1>3. CASE Get(w)
  <2>1. PICK pc \in {"find", "child"} : Moved(w, pc, run[w].step)
      BY <1>3, GetMoves
  <2>2. /\ JobOf(w)' = JobOf(w) /\ run'[w].pc = pc /\ run'[w].step = run[w].step
        /\ IsPackage(JobOf(w))' = IsPackage(JobOf(w)) /\ run'[w].parent = run[w].parent
        /\ run'[w].body = row[JobOf(w)] /\ UNCHANGED row
      BY <1>1, <1>3, <2>1, ZoneMoves, GetMoves DEF Moved, KeptParent, Get, tables
  <2>3. run[w].pc = "get"
      BY <1>3 DEF Get, At
  <2>4. ~(IsPackage(JobOf(w)) /\ run[w].step > 0)
      BY <1>1, <1>2, <2>3, CodeIsCode DEF Zone, ZoneAt, InPackagesDependency, InPrimary
  <2>5. CauseOf(w)'
      BY <1>1, <1>2, <2>1, <2>2, <2>4 DEF CauseOf, Blamed
  <2>6. QED
      BY <1>1, <2>1, <2>2, <2>5, CausesStep DEF Moved
<1>4. CASE Split(w)
  <2>1. PICK r \in Row : /\ r = SplitOptions(w) /\ run'[w].body = r /\ r.split
                         /\ r.status = run[w].body.status /\ run[w].body \in Row
      BY <1>4, SplitMoves
  <2>2. Moved(w, "child", 1) /\ row' = [row EXCEPT ![JobOf(w)] = r]
      BY <1>4, <2>1, SplitMoves DEF Split
  <2>3. /\ JobOf(w)' = JobOf(w) /\ run'[w].pc = "child"
        /\ run'[w].parent = run[w].parent /\ row'[JobOf(w)] = r
      BY <1>1, <1>4, <2>2, ZoneMoves, SplitMoves, RowSaved DEF Moved, KeptParent
  <2>4. r.status = "E" => JobOf(w) \in spoilt
      BY <1>2, <2>1 DEF CauseOf, Blamed
  <2>5. CauseOf(w)'
      BY <1>1, <1>2, <2>1, <2>3, <2>4 DEF CauseOf, Blamed
  <2>6. QED
      BY <1>1, <2>2, <2>4, <2>5, CausesStep DEF Moved
<1>5. CASE Refresh(w)
  <2>1. InDependency(w) /\ IsPackage(JobOf(w)) /\ KeptBody(w) /\ UNCHANGED row /\ run[w].step > 0
    <3>1. InDependency(w) /\ IsPackage(JobOf(w)) /\ KeptBody(w) /\ UNCHANGED row
        BY <1>5, RefreshMoves DEF Refresh, tables
    <3>2. Last(JobOf(w)) \in Nat /\ run[w].step \in Nat
        BY <1>1, CodeIsCode
    <3>3. QED
        BY <3>1, <3>2 DEF InDependency
  <2>2. CASE /\ row[JobOf(w)].split /\ run'[w].parent = row[JobOf(w)]
             /\ \E pc \in {"progress", "progressAgain"} : Moved(w, pc, run[w].step)
    <3>1. PICK pc \in {"progress", "progressAgain"} : Moved(w, pc, run[w].step)
        BY <2>2
    <3>2. JobOf(w)' = JobOf(w) /\ run'[w].pc = pc /\ run'[w].body = run[w].body
        BY <1>1, <2>1, <3>1, ZoneMoves DEF Moved, KeptBody
    <3>3. CauseOf(w)'
        BY <1>1, <1>2, <2>1, <2>2, <3>1, <3>2 DEF CauseOf, Blamed
    <3>4. QED
        BY <1>1, <2>1, <3>1, <3>3, CausesStep DEF Moved
  <2>3. CASE ~row[JobOf(w)].split /\ Moved(w, "cancel", run[w].step) /\ KeptParent(w)
    <3>1. JobOf(w) \in spoilt
        BY <1>1, <1>2, <2>1, <2>3 DEF CauseOf
    <3>2. QED
        BY <1>1, <2>1, <2>3, <3>1, CauseMoves
  <2>4. QED
      BY <1>5, <2>2, <2>3, RefreshMoves
<1>6. QED
    BY <1>3, <1>4, <1>5

LEMMA CauseOfEnds ==
    ASSUME TypeInv, Causes, NEW w \in Worker, OnSuccess(w) \/ OnFailure(w) \/ LoseChild(w) \/ Fails(w)
    PROVE  Causes'
<1>1. Busy(w) /\ UNCHANGED order /\ spoilt \subseteq spoilt' /\ TypeOK /\ run[w] \in Running /\ CauseOf(w)
    BY BusyRuns DEF OnSuccess, OnFailure, Hook, LoseChild, Fails, Spoils, At, Busy, tables, TypeInv, Causes
<1>2. CASE OnSuccess(w) \/ OnFailure(w)
  <2>1. PICK s \in {"D", "E"} : Hook(w, s) /\ (s = "E" => JobOf(w) \in spoilt)
      BY <1>1, <1>2 DEF OnSuccess, OnFailure, At, CauseOf
  <2>2. run[w].hook \in Row /\ run' = [run EXCEPT ![w] = Idle]
      BY <1>1, <2>1 DEF Running, Hook
  <2>3. \E r \in Row : /\ row' = [row EXCEPT ![JobOf(w)] = r]
                       /\ r.status = "E" => JobOf(w) \in spoilt'
      BY <1>1, <2>1, <2>2, StatusChanged DEF Hook
  <2>4. QED
      BY <1>1, <2>2, <2>3, IdleMoves, CausesStep
<1>3. CASE LoseChild(w)
  <2>1. run' = [run EXCEPT ![w] = Idle] /\ UNCHANGED row
      BY <1>3 DEF LoseChild, tables
  <2>2. QED
      BY <1>1, <2>1, IdleMoves, CausesStep
<1>4. CASE Fails(w)
  <2>1. run[w].pc \in {"find", "download", "items"} /\ JobOf(w) \in spoilt' /\ run[w].body \in Row
      BY <1>1, <1>4 DEF Fails, Spoils, At, TypeInv, Holds
  <2>2. PICK pc \in {"cancel", "failure"} : Goes(w, pc)
      BY <1>4 DEF Fails, AfterRaise
  <2>3. Moved(w, pc, run[w].step) /\ KeptBody(w) /\ KeptParent(w)
      BY <1>1, <2>2, GoesMoves
  <2>4. \/ UNCHANGED row
        \/ \E r \in Row : /\ row' = [row EXCEPT ![JobOf(w)] = r]
                          /\ ~(IsPackage(JobOf(w)) /\ run[w].step > 0)
      BY <1>4, <2>1, MarkRow DEF Fails
  <2>5. QED
      BY <1>1, <2>1, <2>3, <2>4, CauseMoves
<1>5. QED
    BY <1>2, <1>3, <1>4

LEMMA CauseOfOthers ==
    ASSUME TypeInv, Causes,
           \/ UNCHANGED vars
           \/ \E j \in Job : Request(j)
           \/ \E w \in Worker : Redeliver(w) \/ \E j \in Job : Take(w, j)
    PROVE  Causes'
<1>1. ASSUME NEW u \in Worker, Busy(u), run'[u] = run[u], UNCHANGED order, spoilt \subseteq spoilt',
             row'[JobOf(u)] = row[JobOf(u)]
      PROVE  CauseOf(u)'
    BY <1>1 DEF Causes, CauseOf, Blamed, JobOf, IsPackage
<1>2. ASSUME NEW w \in Worker, NEW j \in Job, Take(w, j)
      PROVE  Causes'
  <2>1. /\ UNCHANGED <<order, row, spoilt>> /\ TypeOK
        /\ \A u \in Worker \ {w} : run'[u] = run[u]
        /\ run'[w].pc = "start" /\ run'[w].job = j /\ run'[w].body = NoCopy /\ run'[w].parent = NoCopy
        /\ run'[w].step = IF IsPackage(j) THEN 0 ELSE 1
    <3>1. UNCHANGED <<order, row, spoilt>>
        BY <1>2 DEF Take, tables, histories
    <3>2. TypeOK
        BY DEF TypeInv
    <3>3. PICK new : new = [pc |-> "start", job |-> j, delivery |-> begun[j] + 1,
                            step |-> IF IsPackage(j) THEN 0 ELSE 1,
                            hook |-> [row[j] EXCEPT !.status = "P"], body |-> NoCopy,
                            parent |-> NoCopy, copy |-> NoCopy, left |-> {}, refused |-> {},
                            alone |-> FALSE]
        OBVIOUS
    <3>4. run' = [run EXCEPT ![w] = new]
        BY <1>2, <3>3 DEF Take
    <3>5. /\ new.pc = "start" /\ new.job = j /\ new.body = NoCopy
          /\ new.parent = NoCopy /\ new.step = IF IsPackage(j) THEN 0 ELSE 1
        BY <3>3
    <3>6. run \in [Worker -> Running \cup {Idle}]
        BY <3>2 DEF TypeOK
    <3>7. QED
        BY <3>1, <3>2, <3>4, <3>5, <3>6
  <2>2. JobOf(w)' = j /\ (IsPackage(JobOf(w))' <=> IsPackage(j))
      BY <2>1 DEF JobOf, IsPackage
  <2>3. CauseOf(w)'
    <3>1. Blamed(j, NoCopy)'
        BY RowAssumption DEF Blamed
    <3>2. run'[w].step > 0 /\ IsPackage(j) => FALSE
        BY <2>1
    <3>3. QED
        BY <2>1, <2>2, <3>1, <3>2 DEF CauseOf
  <2>4. \A u \in Worker \ {w} : Busy(u)' => CauseOf(u)'
      BY <1>1, <2>1 DEF Busy
  <2>5. \A i \in Job : Blamed(i, row[i])'
      BY <2>1 DEF Causes, Blamed
  <2>6. QED
      BY <2>3, <2>4, <2>5 DEF Causes
<1>3. ASSUME NEW w \in Worker, Redeliver(w)
      PROVE  Causes'
  <2>1. UNCHANGED <<order, row, run>> /\ spoilt \subseteq spoilt'
      BY <1>3 DEF Redeliver, Spoils, tables
  <2>2. QED
      BY <1>1, <2>1 DEF Causes, Blamed, Busy
<1>4. ASSUME NEW j \in Job, Request(j)
      PROVE  Causes'
  <2>1. /\ UNCHANGED <<order, run, spoilt>> /\ row[j] = NoRow
        /\ row'[j].status = "I" /\ \A i \in Job \ {j} : row'[i] = row[i]
      BY <1>4 DEF Request, histories, TypeInv, TypeOK
  <2>2. \A u \in Worker : Busy(u) => JobOf(u) \in Job \ {j}
    <3>1. \A u \in Worker : Busy(u) => JobOf(u) \in Job /\ row[JobOf(u)] \in Row
        BY BusyRuns DEF TypeInv, OwnDelivery
    <3>2. QED
        BY <2>1, <3>1, RowAssumption
  <2>3. \A u \in Worker : Busy(u)' => CauseOf(u)'
      BY <1>1, <2>1, <2>2 DEF Busy
  <2>4. \A i \in Job : Blamed(i, row[i])'
      BY <2>1 DEF Causes, Blamed
  <2>5. QED
      BY <2>3, <2>4 DEF Causes
<1>5. CASE UNCHANGED vars
  <2>1. UNCHANGED <<order, row, run, spoilt>>
      BY <1>5 DEF vars
  <2>2. QED
      BY <1>1, <2>1 DEF Causes, Blamed, Busy
<1>6. QED
    BY <1>2, <1>3, <1>4, <1>5

LEMMA CausesKept ==
    ASSUME TypeInv, Causes, [Next]_vars
    PROVE  Causes'
<1>1. ASSUME NEW w \in Worker, Work(w)
      PROVE  Causes'
    BY <1>1, CauseOfWork, CauseOfSaves, CauseOfReads, CauseOfEnds, CauseOfOthers DEF Work
<1>2. ASSUME NEW w \in Worker, Disturb(w)
      PROVE  Causes'
    BY <1>2, CauseOfWork, CauseOfEnds, CauseOfOthers DEF Disturb
<1>3. QED
    BY <1>1, <1>2, CauseOfOthers DEF Next

\* A job fails only after a failure, or when two of its deliveries met: a
\* package's options are never lost to an undisturbed installation, however
\* often the row is saved over by copies that were read before.
THEOREM FailuresHaveCauses == Spec => []FailureHasCause
<1>1. Init => TypeInv /\ Causes
  <2> SUFFICES ASSUME Init PROVE TypeInv /\ Causes
      OBVIOUS
  <2>1. \A j \in Job : row[j] = NoRow
      BY DEF Init
  <2>2. \A w \in Worker : run[w] = Idle
      BY DEF Init
  <2>3. \A w \in Worker : ~Busy(w)
      BY <2>2 DEF Idle, Busy
  <2>4. QED
      BY <2>1, <2>3, InitTyped, RowAssumption DEF Causes, Blamed
<1>2. TypeInv /\ Causes /\ [Next]_vars => TypeInv' /\ Causes'
    BY TypeInvKept, CausesKept
<1>3. TypeInv /\ Causes => FailureHasCause
    BY Counts DEF Causes, Blamed, FailureHasCause
<1>4. QED
    BY <1>1, <1>2, <1>3, PTL DEF Spec

-----------------------------------------------------------------------------
(* What is installed when a task says that it is *)

\* Another job, or another delivery of it: nothing that a worker does there
\* changes what is said of this one.
LEMMA LedgerApart ==
    ASSUME NEW j \in Job, NEW d \in Deliveries, NEW pc, NEW step, UNCHANGED order,
           \A k \in Nat \ {0} : ChildAt(j, d, k)' = ChildAt(j, d, k) /\ ImportAt(j, d, k)' = ImportAt(j, d, k)
    PROVE  /\ LedgerAt(j, d, pc, step)' <=> LedgerAt(j, d, pc, step)
           /\ Installed(j, d)' <=> Installed(j, d)
<1>1. Last(j)' = Last(j) /\ IsPackage(j)' = IsPackage(j)
    BY DEF Last, IsPackage
<1>2. \A k \in 1 .. Last(j) : k \in Nat \ {0}
    OBVIOUS
<1>3. \A k \in Nat \ {0} : InstalledStep(j, d, k)' <=> InstalledStep(j, d, k)
    BY <1>1 DEF InstalledStep
<1>4. \A k \in Nat \ {0} : PresentAt(j, d, k, pc)' <=> PresentAt(j, d, k, pc)
    BY <1>1, <1>3 DEF PresentAt
<1>5. Installed(j, d)' <=> Installed(j, d)
    BY <1>1, <1>2, <1>3 DEF Installed
<1>6. LedgerAt(j, d, pc, step)' <=> LedgerAt(j, d, pc, step)
    BY <1>1, <1>2, <1>3, <1>4 DEF LedgerAt
<1>7. QED
    BY <1>5, <1>6

LEMMA LedgerStep ==
    ASSUME TypeInv, Ledger, NEW w \in Worker, Busy(w), UNCHANGED <<order, begun>>,
           NEW j \in Job, NEW d \in Deliveries, j = JobOf(w), d = run[w].delivery,
           NEW pc, NEW step, run'[w].pc = pc, run'[w].step = step,
           \A u \in Worker \ {w} : Same(u),
           \A i \in Job, e \in Deliveries, k \in Nat \ {0} : <<i, e>> # <<j, d>> =>
               ChildAt(i, e, k)' = ChildAt(i, e, k) /\ ImportAt(i, e, k)' = ImportAt(i, e, k),
           Installed(j, d) => Installed(j, d)',
           pc # "idle" =>
              /\ run'[w].job = j /\ run'[w].delivery = d /\ LedgerAt(j, d, pc, step)'
              /\ Honest(j, run'[w].body) \/ run'[w].body = run[w].body
              /\ Honest(j, run'[w].parent) \/ run'[w].parent = run[w].parent \/ run'[w].parent = NoCopy,
           \/ UNCHANGED row
           \/ \E r \in Row : /\ row' = [row EXCEPT ![j] = r]
                             /\ Honest(j, r) \/ Installed(j, d)',
           \/ ended' = ended
           \/ /\ ended' = ended \cup {<<j, d>>}
              /\ \A k \in Nat \ {0} : ChildAt(j, d, k)' # "I"
    PROVE  Ledger'
<1>1. /\ TypeOK /\ d <= begun[j] /\ d \in 1 .. begun[j] /\ \A i \in Job : begun[i] \in Nat
  <2>1. d <= begun[j] /\ TypeOK
      BY DEF TypeInv, OwnDelivery
  <2>2. QED
      BY <2>1, Counts DEF Deliveries
<1>2. ASSUME NEW i \in Job, NEW e \in 1 .. begun[i], Installed(i, e)
      PROVE  Installed(i, e)'
  <2>1. e \in Deliveries
    <3>1. begun[i] \in 0 .. MaxFaults + 1
        BY <1>1 DEF TypeOK
    <3>2. QED
        BY <3>1, FaultsAssumption DEF Deliveries
  <2>2. CASE <<i, e>> = <<j, d>>
      BY <1>2, <2>2
  <2>3. CASE <<i, e>> # <<j, d>>
      BY <1>2, <2>1, <2>3, LedgerApart
  <2>4. QED
      BY <2>2, <2>3
<1>3. \A i \in Job : \A r : Honest(i, r) => (r \in Row /\ r.status = "D" =>
         \E e \in 1 .. begun'[i] : Installed(i, e)')
    BY <1>2 DEF Honest
<1>4. Installed(j, d)' => \E e \in 1 .. begun'[j] : Installed(j, e)'
    BY <1>1
<1>5. ASSUME NEW i \in Job
      PROVE  Honest(i, row[i])'
  <2>1. CASE row'[i] = row[i]
      BY <1>3, <2>1 DEF Ledger, Honest
  <2>2. CASE row'[i] # row[i]
    <3>1. i = j /\ (Honest(j, row'[j]) \/ Installed(j, d)')
        BY <1>1, <2>2, RowSaved
    <3>2. row'[j] \in Row /\ row'[j].status = "D" => \E e \in 1 .. begun'[j] : Installed(j, e)'
        BY <1>3, <1>4, <3>1
    <3>3. QED
        BY <3>1, <3>2 DEF Honest
  <2>3. QED
      BY <2>1, <2>2
<1>6. ASSUME NEW u \in Worker \ {w}, Busy(u)'
      PROVE  /\ LedgerAt(JobOf(u), run[u].delivery, run[u].pc, run[u].step)'
             /\ Honest(JobOf(u), run[u].body)' /\ Honest(JobOf(u), run[u].parent)'
  <2>1. /\ Busy(u) /\ JobOf(u)' = JobOf(u) /\ run'[u].delivery = run[u].delivery
        /\ run'[u].pc = run[u].pc /\ run'[u].step = run[u].step
        /\ run'[u].body = run[u].body /\ run'[u].parent = run[u].parent
      BY <1>6 DEF Same, Busy, JobOf
  <2>2. PICK i \in Job, e \in Deliveries : i = JobOf(u) /\ e = run[u].delivery
      BY <2>1, BusyRuns, KeyIsKey DEF TypeInv
  <2>3. <<i, e>> # <<j, d>>
      BY <2>1, <2>2 DEF TypeInv, OwnDelivery
  <2>4. LedgerAt(i, e, run[u].pc, run[u].step)
      BY <2>1, <2>2 DEF Ledger
  <2>5. PICK upc, ustep : upc = run[u].pc /\ ustep = run[u].step
      OBVIOUS
  <2>6. LedgerAt(i, e, upc, ustep)'
      BY <2>3, <2>4, <2>5, LedgerApart
  <2>7. LedgerAt(JobOf(u), run[u].delivery, run[u].pc, run[u].step)'
      BY <2>1, <2>2, <2>5, <2>6
  <2>8. Honest(i, run[u].body) /\ Honest(i, run[u].parent)
      BY <2>1, <2>2 DEF Ledger
  <2>9. QED
      BY <1>3, <2>1, <2>2, <2>7, <2>8 DEF Honest
<1>7. ASSUME Busy(w)'
      PROVE  /\ LedgerAt(JobOf(w), run[w].delivery, run[w].pc, run[w].step)'
             /\ Honest(JobOf(w), run[w].body)' /\ Honest(JobOf(w), run[w].parent)'
  <2>1. pc # "idle" /\ JobOf(w)' = j /\ run'[w].delivery = d
      BY <1>7 DEF Busy, JobOf
  <2>2. LedgerAt(JobOf(w), run[w].delivery, run[w].pc, run[w].step)'
      BY <2>1
  <2>3. Honest(j, run[w].body) /\ Honest(j, run[w].parent)
      BY DEF Ledger
  <2>4. Honest(j, run'[w].body) /\ (Honest(j, run'[w].parent) \/ run'[w].parent \notin Row)
      BY <2>1, <2>3, RowAssumption
  <2>5. QED
      BY <1>3, <2>1, <2>2, <2>4 DEF Honest
<1>8. ASSUME NEW i \in Job, NEW e \in Deliveries, NEW k \in Nat \ {0}
      PROVE  /\ e > begun'[i] => ChildAt(i, e, k)' = "none" /\ ImportAt(i, e, k)' = "none"
             /\ <<i, e>> \in ended' => ChildAt(i, e, k)' # "I"
  <2>1. CASE <<i, e>> = <<j, d>>
    <3>1. ~(e > begun'[i])
        BY <1>1, <2>1 DEF Deliveries
    <3>2. <<i, e>> \notin ended
        BY <2>1 DEF TypeInv, OwnDelivery
    <3>3. QED
        BY <2>1, <3>1, <3>2
  <2>2. CASE <<i, e>> # <<j, d>>
    <3>1. ChildAt(i, e, k)' = ChildAt(i, e, k) /\ ImportAt(i, e, k)' = ImportAt(i, e, k)
        BY <2>2
    <3>2. <<i, e>> \in ended' => <<i, e>> \in ended
        BY <2>2
    <3>3. QED
        BY <3>1, <3>2 DEF Ledger
  <2>3. QED
      BY <2>1, <2>2
<1>9. \A u \in Worker : Busy(u)' =>
         /\ LedgerAt(JobOf(u), run[u].delivery, run[u].pc, run[u].step)'
         /\ Honest(JobOf(u), run[u].body)' /\ Honest(JobOf(u), run[u].parent)'
    BY <1>6, <1>7
<1>10. QED
    BY <1>5, <1>8, <1>9 DEF Ledger

BeforeImport == {"find", "create", "clear", "save", "refresh", "progress", "download"}
AfterImport == {"refreshAgain", "progressAgain", "childDone"}

\* Moves that change neither the child nor the import.
Passes(j, pc, next) ==
    \/ pc \in BeforeImport /\ next \in BeforeImport
    \/ pc \in AfterImport /\ next \in AfterImport
    \/ IsPackage(j) /\ pc \in BeforeImport \cup AfterImport \cup {"items"} /\ next = "cancel"
    \/ ~IsPackage(j) /\ pc \in BeforeImport \cup {"start", "get", "child"}
                     /\ next \in BeforeImport \cup {"start", "get", "child", "failure"}
    \/ ~IsPackage(j) /\ pc = "items" /\ next = "failure"
    \/ ~IsPackage(j) /\ pc = "childDone" /\ next = "next"
    \/ pc = "items" /\ next = "items"
    \/ pc = "next" /\ next \in {"complete", "success"}

LEMMA PassesPresent ==
    ASSUME NEW j, NEW d, NEW k, NEW pc, NEW next, Passes(j, pc, next), PresentAt(j, d, k, pc)
    PROVE  PresentAt(j, d, k, next)
BY DEF Passes, PresentAt, BeforeImport, AfterImport, InstalledStep

LEMMA LedgerGoes ==
    ASSUME NEW j, NEW d, NEW pc, NEW next, NEW step, LedgerAt(j, d, pc, step),
           pc # "failure", next = "failure" => step = 0 \/ ~IsPackage(j),
           step \in 1 .. Last(j) => Passes(j, pc, next)
    PROVE  LedgerAt(j, d, next, step)
<1>1. \A k \in 1 .. Last(j) : k = step => PresentAt(j, d, k, next)
    BY PassesPresent DEF LedgerAt
<1>2. QED
    BY <1>1 DEF LedgerAt

\* A worker that moves on; the row is left, or saved from an honest copy.
LEMMA LedgerQuiet ==
    ASSUME TypeInv, Ledger, NEW w \in Worker, Busy(w), UNCHANGED <<order, begun, child, import, ended>>,
           NEW pc, NEW step, Moved(w, pc, step), pc # "idle",
           LedgerAt(JobOf(w), run[w].delivery, pc, step),
           Honest(JobOf(w), run'[w].body) \/ run'[w].body = run[w].body,
           Honest(JobOf(w), run'[w].parent) \/ run'[w].parent = run[w].parent \/ run'[w].parent = NoCopy,
           \/ UNCHANGED row
           \/ \E r \in Row : /\ row' = [row EXCEPT ![JobOf(w)] = r]
                             /\ Honest(JobOf(w), r) \/ Installed(JobOf(w), run[w].delivery)
    PROVE  Ledger'
<1>1. PICK j \in Job, d \in Deliveries : j = JobOf(w) /\ d = run[w].delivery
    BY BusyRuns, KeyIsKey DEF TypeInv
<1>2. \A i \in Job, e \in Deliveries, k \in Nat \ {0} :
         ChildAt(i, e, k)' = ChildAt(i, e, k) /\ ImportAt(i, e, k)' = ImportAt(i, e, k)
    BY DEF ChildAt, ImportAt, StatusIn
<1>3. LedgerAt(j, d, pc, step)' /\ (Installed(j, d)' <=> Installed(j, d))
    BY <1>1, <1>2, LedgerApart
<1>4. /\ run'[w].pc = pc /\ run'[w].step = step /\ run'[w].job = j /\ run'[w].delivery = d
      /\ \A u \in Worker \ {w} : Same(u)
    BY <1>1 DEF Moved, JobOf
<1>5. QED
    BY <1>1, <1>2, <1>3, <1>4, LedgerStep

LEMMA LedgerGoesOn ==
    ASSUME TypeInv, Ledger, NEW w \in Worker, Busy(w), UNCHANGED <<order, begun, child, import, ended>>,
           NEW pc, Moved(w, pc, run[w].step), pc # "idle", run[w].pc # "failure",
           pc = "failure" => run[w].step = 0 \/ ~IsPackage(JobOf(w)),
           InDependency(w) => Passes(JobOf(w), run[w].pc, pc),
           Honest(JobOf(w), run'[w].body) \/ KeptBody(w),
           Honest(JobOf(w), run'[w].parent) \/ KeptParent(w) \/ run'[w].parent = NoCopy,
           \/ UNCHANGED row
           \/ \E r \in Row : /\ row' = [row EXCEPT ![JobOf(w)] = r]
                             /\ Honest(JobOf(w), r) \/ Installed(JobOf(w), run[w].delivery)
    PROVE  Ledger'
<1>1. LedgerAt(JobOf(w), run[w].delivery, run[w].pc, run[w].step)
    BY DEF Ledger
<1>2. LedgerAt(JobOf(w), run[w].delivery, pc, run[w].step)
    BY <1>1, LedgerGoes DEF InDependency
<1>3. QED
    BY <1>2, LedgerQuiet DEF KeptBody, KeptParent

\* A worker that is through has installed everything.
LEMMA ThroughIsInstalled ==
    ASSUME TypeInv, Ledger, NEW w \in Worker, Busy(w),
           \/ run[w].step = Last(JobOf(w)) + 1
           \/ run[w].pc = "success"
           \/ run[w].pc = "childDone" /\ ~IsPackage(JobOf(w))
    PROVE  Installed(JobOf(w), run[w].delivery)
<1>1. PICK j \in Job, d \in Deliveries : j = JobOf(w) /\ d = run[w].delivery
    BY BusyRuns, KeyIsKey DEF TypeInv
<1>2. /\ LedgerAt(j, d, run[w].pc, run[w].step) /\ ZoneAt(j, run[w].pc, run[w].step)
      /\ run[w].step \in Nat /\ Last(j) \in Nat \ {0} /\ (~IsPackage(j) => Last(j) = 1)
    BY <1>1, CodeIsCode DEF Ledger, TypeInv, Zone
<1>3. CASE run[w].step = Last(j) + 1
    BY <1>1, <1>2, <1>3 DEF LedgerAt, Installed
<1>4. CASE run[w].pc \in {"success", "childDone"} /\ run[w].step # Last(j) + 1 /\ ~IsPackage(j)
  <2>1. run[w].step = 1 /\ Last(j) = 1
      BY <1>2, <1>4 DEF ZoneAt
  <2>2. PresentAt(j, d, 1, run[w].pc)
      BY <1>2, <2>1 DEF LedgerAt
  <2>3. InstalledStep(j, d, 1)
      BY <1>4, <2>2 DEF PresentAt, InstalledStep
  <2>4. QED
      BY <1>1, <2>1, <2>3 DEF Installed
<1>5. CASE run[w].pc = "success" /\ IsPackage(j)
    BY <1>2, <1>3, <1>5 DEF ZoneAt, InPackage, InPackagesDependency
<1>6. QED
    BY <1>1, <1>3, <1>4, <1>5

LEMMA LedgerOfReads ==
    ASSUME TypeInv, Ledger, NEW w \in Worker,
           \/ BeforeStart(w) \/ Get(w) \/ Refresh(w) \/ Look(w) \/ Create(w) \/ ClearOthers(w) \/ Save(w)
           \/ \E i \in Item : ImportItem(w, i) \/ RefuseItem(w, i)
    PROVE  Ledger'
<1>1. /\ Busy(w) /\ UNCHANGED <<order, begun, child, import, ended>> /\ TypeOK /\ run[w].pc # "failure"
      /\ run[w] \in Running /\ JobOf(w) \in Job
    BY BusyRuns DEF BeforeStart, Get, Refresh, Look, Create, ClearOthers, Save, ImportItem, RefuseItem,
                    At, Busy, tables, histories, TypeInv
<1>2. ZoneAt(JobOf(w), run[w].pc, run[w].step) /\ (InDependency(w) <=> run[w].step \in 1 .. Last(JobOf(w)))
    BY <1>1 DEF TypeInv, Zone, InDependency
<1>3. Honest(JobOf(w), row[JobOf(w)]) /\ Honest(JobOf(w), run[w].body) /\ Honest(JobOf(w), run[w].parent)
    BY <1>1 DEF Ledger
<1>4. CASE BeforeStart(w)
  <2>1. Goes(w, "get") /\ run[w].pc = "start" /\ row' = [row EXCEPT ![JobOf(w)] = run[w].hook]
      BY <1>4 DEF BeforeStart, At
  <2>2. Moved(w, "get", run[w].step) /\ KeptBody(w) /\ KeptParent(w)
      BY <1>1, <2>1, GoesMoves
  <2>3. InDependency(w) => Passes(JobOf(w), "start", "get")
      BY <1>2, <2>1, CodeIsCode, <1>1 DEF ZoneAt, InPackagesDependency, Passes
  <2>4. run[w].hook \in Row /\ Honest(JobOf(w), run[w].hook)
      BY <1>1 DEF Running, Honest
  <2>5. QED
      BY <1>1, <2>1, <2>2, <2>3, <2>4, LedgerGoesOn
<1>5. CASE Get(w)
  <2>1. /\ Moved(w, IF IsPackage(JobOf(w)) THEN "find" ELSE "child", run[w].step)
        /\ run'[w].body = row[JobOf(w)] /\ KeptParent(w) /\ run[w].pc = "get" /\ UNCHANGED row
      BY <1>5, GetMoves DEF Get, At, tables
  <2>2. PICK pc \in {"find", "child"} : pc = IF IsPackage(JobOf(w)) THEN "find" ELSE "child"
      OBVIOUS
  <2>3. InDependency(w) => Passes(JobOf(w), "get", pc)
      BY <1>1, <1>2, <2>1, CodeIsCode DEF ZoneAt, InPackagesDependency, Passes, BeforeImport
  <2>4. QED
      BY <1>1, <1>3, <2>1, <2>2, <2>3, LedgerGoesOn
<1>6. CASE Refresh(w)
  <2>1. PICK pc \in {"progress", "progressAgain", "cancel"} :
           /\ Moved(w, pc, run[w].step) /\ KeptBody(w) /\ IsPackage(JobOf(w))
           /\ run'[w].parent = row[JobOf(w)] \/ KeptParent(w)
           /\ pc = "progress" => run[w].pc = "refresh"
           /\ pc = "progressAgain" => run[w].pc = "refreshAgain"
      BY <1>6, RefreshMoves
  <2>2. run[w].pc \in {"refresh", "refreshAgain"} /\ UNCHANGED row
      BY <1>6 DEF Refresh, At, tables
  <2>3. Passes(JobOf(w), run[w].pc, pc)
      BY <2>1, <2>2 DEF Passes, BeforeImport, AfterImport
  <2>4. QED
      BY <1>1, <1>3, <2>1, <2>2, <2>3, LedgerGoesOn
<1>7. CASE Look(w)
  <2>1. AfterSave(w) \in {"split", "actions", "done", "refresh", "download"}
      BY DEF AfterSave, AfterPrimary
  <2>2. PICK pc \in {"clear", "save", "create", "split", "actions", "done", "refresh", "download"} :
           /\ Moved(w, pc, run[w].step) /\ KeptBody(w) /\ KeptParent(w)
           /\ pc \in {"clear", "save", "create"} \/ run[w].pc = "primary"
      BY <1>7, <2>1, LookMoves
  <2>3. run[w].pc \in {"find", "primary"} /\ UNCHANGED row
      BY <1>7 DEF Look, At, tables
  <2>4. InDependency(w) => Passes(JobOf(w), run[w].pc, pc)
      BY <1>2, <2>2, <2>3 DEF ZoneAt, InPackagesDependency, InSingle, Passes, BeforeImport
  <2>5. QED
      BY <1>1, <2>2, <2>3, <2>4, LedgerGoesOn
<1>8. CASE Create(w) \/ ClearOthers(w)
  <2>1. run[w].pc \in {"create", "clear"} /\ UNCHANGED row
      BY <1>8 DEF Create, ClearOthers, At
  <2>2. Moved(w, "save", run[w].step) /\ KeptBody(w) /\ KeptParent(w)
      BY <1>1, <1>8, CreateMoves, GoesMoves DEF ClearOthers
  <2>3. Passes(JobOf(w), run[w].pc, "save")
      BY <2>1 DEF Passes, BeforeImport
  <2>4. QED
      BY <1>1, <2>1, <2>2, <2>3, LedgerGoesOn
<1>9. CASE Save(w)
  <2>1. PICK pc \in {"split", "actions", "done", "refresh", "download"} : pc = AfterSave(w)
      BY DEF AfterSave, AfterPrimary
  <2>2. Moved(w, pc, run[w].step) /\ KeptBody(w) /\ KeptParent(w) /\ run[w].pc = "save" /\ UNCHANGED row
      BY <1>9, <2>1, SaveMoves DEF Save, At
  <2>3. InDependency(w) => run[w].step # 0 /\ pc \in {"refresh", "download"}
      BY <2>1 DEF AfterSave, InDependency
  <2>4. InDependency(w) => Passes(JobOf(w), run[w].pc, pc)
      BY <2>2, <2>3 DEF Passes, BeforeImport
  <2>5. QED
      BY <1>1, <2>2, <2>4, LedgerGoesOn
<1>10. CASE \E i \in Item : ImportItem(w, i) \/ RefuseItem(w, i)
  <2>1. Moved(w, "items", run[w].step) /\ KeptBody(w) /\ KeptParent(w)
      BY <1>10, ImportMoves
  <2>2. run[w].pc = "items" /\ UNCHANGED row
      BY <1>10 DEF ImportItem, RefuseItem, At, tables
  <2>3. Passes(JobOf(w), "items", "items")
      BY DEF Passes
  <2>4. QED
      BY <1>1, <2>1, <2>2, <2>3, LedgerGoesOn
<1>11. QED
    BY <1>4, <1>5, <1>6, <1>7, <1>8, <1>9, <1>10

LEMMA LedgerOfSaves ==
    ASSUME TypeInv, Ledger, NEW w \in Worker,
           Progress(w) \/ NextDependency(w) \/ Complete(w) \/ Actions(w) \/ PackageDone(w)
    PROVE  Ledger'
<1>1. /\ Busy(w) /\ UNCHANGED <<order, begun, child, import, ended>> /\ TypeOK /\ run[w].pc # "failure"
      /\ JobOf(w) \in Job
    BY BusyRuns DEF Progress, NextDependency, Complete, Actions, PackageDone,
                    At, Busy, tables, histories, TypeInv
<1>2. /\ ZoneAt(JobOf(w), run[w].pc, run[w].step) /\ (InDependency(w) <=> run[w].step \in 1 .. Last(JobOf(w)))
      /\ run[w].step \in Nat /\ Last(JobOf(w)) \in Nat \ {0} /\ Holds(w)
    BY <1>1, CodeIsCode DEF TypeInv, Zone, InDependency
<1>3. /\ Honest(JobOf(w), run[w].body) /\ Honest(JobOf(w), run[w].parent)
      /\ LedgerAt(JobOf(w), run[w].delivery, run[w].pc, run[w].step)
    BY <1>1 DEF Ledger
<1>4. CASE Progress(w)
  <2>1. PICK pc \in {"download", "childDone"} :
           /\ Moved(w, pc, run[w].step) /\ KeptBody(w) /\ run'[w].parent = NoCopy
           /\ run[w].pc = IF pc = "download" THEN "progress" ELSE "progressAgain"
      BY <1>4, ProgressMoves
  <2>2. run[w].parent \in Row /\ row' = [row EXCEPT ![JobOf(w)] = run[w].parent]
      BY <1>4, ProgressMoves DEF Progress
  <2>3. Passes(JobOf(w), run[w].pc, pc)
      BY <2>1 DEF Passes, BeforeImport, AfterImport
  <2>4. QED
      BY <1>1, <1>3, <2>1, <2>2, <2>3, LedgerGoesOn
<1>5. CASE NextDependency(w)
  <2>1. UNCHANGED row /\ KeptBody(w) /\ KeptParent(w) /\ run[w].pc = "next" /\ InDependency(w)
      BY <1>5, NextMoves DEF NextDependency, tables, At
  <2>2. CASE \E pc \in {"success", "complete"} : Moved(w, pc, run[w].step)
    <3>1. PICK pc \in {"success", "complete"} : Moved(w, pc, run[w].step)
        BY <2>2
    <3>2. Passes(JobOf(w), run[w].pc, pc)
        BY <2>1 DEF Passes
    <3>3. QED
        BY <1>1, <2>1, <3>1, <3>2, LedgerGoesOn
  <2>3. CASE Moved(w, "child", run[w].step + 1)
    <3>1. PICK n \in Nat : n = run[w].step + 1
        BY <1>2
    <3>2. LedgerAt(JobOf(w), run[w].delivery, "child", n)
      <4>1. InstalledStep(JobOf(w), run[w].delivery, run[w].step)
          BY <1>2, <1>3, <2>1 DEF LedgerAt, PresentAt
      <4>2. \A k \in 1 .. Last(JobOf(w)) : (k < n <=> k < run[w].step \/ k = run[w].step)
                                           /\ (k >= n <=> k > run[w].step) /\ (k > n => k > run[w].step)
          BY <1>2, <3>1
      <4>3. \A k \in 1 .. Last(JobOf(w)) : k = n => PresentAt(JobOf(w), run[w].delivery, k, "child")
        <5>1. \A k \in 1 .. Last(JobOf(w)) : k = n =>
                  /\ ImportAt(JobOf(w), run[w].delivery, k) = "none"
                  /\ IsPackage(JobOf(w)) => ChildAt(JobOf(w), run[w].delivery, k) = "I"
            BY <1>2, <1>3, <2>1, <3>1 DEF LedgerAt
        <5>2. QED
            BY <5>1 DEF PresentAt
      <4>4. n > 0 /\ run[w].step > 0
          BY <1>2, <2>1, <3>1
      <4>5. QED
          BY <1>3, <2>1, <4>1, <4>2, <4>3, <4>4 DEF LedgerAt
    <3>3. QED
        BY <1>1, <2>1, <2>3, <3>1, <3>2, LedgerQuiet DEF KeptBody, KeptParent
  <2>4. QED
      BY <1>5, <2>2, <2>3, NextMoves
<1>6. CASE Complete(w)
  <2>1. /\ run[w].step = Last(JobOf(w)) /\ InDependency(w) /\ KeptBody(w) /\ KeptParent(w)
        /\ run[w].pc = "complete" /\ IsPackage(JobOf(w))
      BY <1>6, CompleteMoves DEF Complete, At
  <2>2. PICK n \in Nat : n = Last(JobOf(w)) + 1
      BY <1>2
  <2>3. PICK pc \in {"primary", "actions", "done"} : Moved(w, pc, n)
      BY <1>6, <2>2, CompleteMoves
  <2>4. LedgerAt(JobOf(w), run[w].delivery, pc, n)
    <3>1. InstalledStep(JobOf(w), run[w].delivery, run[w].step)
        BY <1>2, <1>3, <2>1 DEF LedgerAt, PresentAt
    <3>2. \A k \in 1 .. Last(JobOf(w)) : k < n /\ (k = run[w].step \/ k < run[w].step)
        BY <1>2, <2>1, <2>2
    <3>3. \A k \in 1 .. Last(JobOf(w)) : ~(k = n) /\ ~(k > n)
        BY <1>2, <2>2
    <3>4. n > 0
        BY <1>2, <2>2
    <3>5. QED
        BY <1>3, <2>1, <3>1, <3>2, <3>3, <3>4 DEF LedgerAt
  <2>5. run[w].body \in Row /\ row' = [row EXCEPT ![JobOf(w)] = run[w].body]
      BY <1>2, <1>6 DEF Complete, At, Holds
  <2>6. QED
      BY <1>1, <1>3, <2>1, <2>3, <2>4, <2>5, LedgerQuiet DEF KeptBody, KeptParent
<1>7. CASE Actions(w) \/ PackageDone(w)
  <2>1. PICK pc \in {"done", "success"} : Goes(w, pc)
      BY <1>7 DEF Actions, PackageDone
  <2>2. Moved(w, pc, run[w].step) /\ KeptBody(w) /\ KeptParent(w)
      BY <1>1, <2>1, GoesMoves
  <2>3. run[w].pc \in {"actions", "done"} /\ run[w].body \in Row
      BY <1>2, <1>7 DEF Actions, PackageDone, At, Holds
  <2>4. run[w].step = Last(JobOf(w)) + 1
      BY <1>2, <2>3 DEF ZoneAt, InPackage, InPackagesDependency, InSingle
  <2>5. Installed(JobOf(w), run[w].delivery) /\ ~InDependency(w)
      BY <1>1, <1>2, <2>4, ThroughIsInstalled
  <2>6. \E r \in Row : row' = [row EXCEPT ![JobOf(w)] = r]
    <3>1. CASE Actions(w)
        BY <2>3, <3>1 DEF Actions
    <3>2. CASE PackageDone(w)
        BY <2>3, <3>2, StatusChanged DEF PackageDone
    <3>3. QED
        BY <1>7, <3>1, <3>2
  <2>7. QED
      BY <1>1, <2>2, <2>5, <2>6, LedgerGoesOn
<1>8. QED
    BY <1>4, <1>5, <1>6, <1>7

\* A status that is set at the key of a worker: nothing else is said otherwise.
LEMMA SetAt ==
    ASSUME TypeInv, NEW w \in Worker, Busy(w), run[w].step > 0, NEW s,
           NEW j \in Job, NEW d \in Deliveries, NEW step \in Nat \ {0},
           j = JobOf(w), d = run[w].delivery, step = run[w].step
    PROVE  /\ child' = Set(child, Key(w), s) =>
                 /\ ChildAt(j, d, step)' = s
                 /\ \A i \in Job, e \in Deliveries, k \in Nat \ {0} : <<i, e, k>> # <<j, d, step>> =>
                        ChildAt(i, e, k)' = ChildAt(i, e, k)
           /\ import' = Set(import, Key(w), s) =>
                 /\ ImportAt(j, d, step)' = s
                 /\ \A i \in Job, e \in Deliveries, k \in Nat \ {0} : <<i, e, k>> # <<j, d, step>> =>
                        ImportAt(i, e, k)' = ImportAt(i, e, k)
<1>1. Key(w) = <<j, d, step>>
    BY DEF Key, KeyAt
<1>2. ASSUME NEW f, NEW g, g = Set(f, Key(w), s)
      PROVE  \A x : StatusIn(g, x) = IF x = <<j, d, step>> THEN s ELSE StatusIn(f, x)
  <2>1. DOMAIN g = DOMAIN f \cup {<<j, d, step>>}
        /\ \A x \in DOMAIN g : g[x] = IF x = <<j, d, step>> THEN s ELSE f[x]
      BY <1>1, <1>2 DEF Set
  <2>2. QED
      BY <2>1 DEF StatusIn
<1>3. ASSUME child' = Set(child, Key(w), s)
      PROVE  \A x : StatusIn(child', x) = IF x = <<j, d, step>> THEN s ELSE StatusIn(child, x)
    BY <1>2, <1>3
<1>4. ASSUME import' = Set(import, Key(w), s)
      PROVE  \A x : StatusIn(import', x) = IF x = <<j, d, step>> THEN s ELSE StatusIn(import, x)
    BY <1>2, <1>4
<1>5. \A i, e, k : /\ ChildAt(i, e, k)' = StatusIn(child', <<i, e, k>>)
                   /\ ChildAt(i, e, k) = StatusIn(child, <<i, e, k>>)
                   /\ ImportAt(i, e, k)' = StatusIn(import', <<i, e, k>>)
                   /\ ImportAt(i, e, k) = StatusIn(import, <<i, e, k>>)
    BY DEF ChildAt, ImportAt, StatusIn
<1>6. QED
    BY <1>3, <1>4, <1>5

LEMMA LedgerSet ==
    ASSUME TypeInv, Ledger, NEW w \in Worker, Busy(w), UNCHANGED <<order, begun, ended, row>>,
           NEW j \in Job, NEW d \in Deliveries, NEW step \in Nat \ {0}, NEW pc,
           j = JobOf(w), d = run[w].delivery, step = run[w].step, step \in 1 .. Last(j),
           Moved(w, pc, step), pc \notin {"idle", "failure"}, run[w].pc # "failure",
           KeptBody(w), KeptParent(w),
           \A i \in Job, e \in Deliveries, k \in Nat \ {0} : <<i, e, k>> # <<j, d, step>> =>
               ChildAt(i, e, k)' = ChildAt(i, e, k) /\ ImportAt(i, e, k)' = ImportAt(i, e, k),
           ChildAt(j, d, step)' # "none" => IsPackage(j),
           InstalledStep(j, d, step) => InstalledStep(j, d, step)',
           PresentAt(j, d, step, pc)'
    PROVE  Ledger'
<1>1. LedgerAt(j, d, run[w].pc, step)
    BY DEF Ledger
<1>2. Last(j)' = Last(j) /\ IsPackage(j)' = IsPackage(j) /\ \A k \in 1 .. Last(j) : k \in Nat \ {0}
    BY DEF Last, IsPackage
<1>3. \A k \in Nat \ {0} : k # step =>
         /\ ChildAt(j, d, k)' = ChildAt(j, d, k) /\ ImportAt(j, d, k)' = ImportAt(j, d, k)
         /\ InstalledStep(j, d, k)' <=> InstalledStep(j, d, k)
    BY <1>2 DEF InstalledStep
<1>4. \A k \in 1 .. Last(j) : InstalledStep(j, d, k) => InstalledStep(j, d, k)'
    BY <1>2, <1>3
<1>5. Installed(j, d) => Installed(j, d)'
    BY <1>2, <1>4 DEF Installed
<1>6. LedgerAt(j, d, pc, step)'
  <2>1. \A k \in 1 .. Last(j) : /\ k < step => k # step /\ InstalledStep(j, d, k)
                                /\ k > step => k # step
      BY <1>1 DEF LedgerAt
  <2>2. \A k \in 1 .. Last(j) : k > step =>
           /\ ImportAt(j, d, k) = "none"
           /\ IsPackage(j) => ChildAt(j, d, k) = "I"
      BY <1>1 DEF LedgerAt
  <2>3. \A k \in Nat \ {0} : ChildAt(j, d, k)' # "none" => IsPackage(j) /\ k \in 1 .. Last(j)
      BY <1>1, <1>3 DEF LedgerAt
  <2>4. QED
      BY <1>2, <1>3, <2>1, <2>2, <2>3 DEF LedgerAt
<1>7. /\ run'[w].pc = pc /\ run'[w].step = step /\ run'[w].job = j /\ run'[w].delivery = d
      /\ \A u \in Worker \ {w} : Same(u)
    BY DEF Moved, JobOf
<1>8. \A i \in Job, e \in Deliveries, k \in Nat \ {0} : <<i, e>> # <<j, d>> =>
         ChildAt(i, e, k)' = ChildAt(i, e, k) /\ ImportAt(i, e, k)' = ImportAt(i, e, k)
    OBVIOUS
<1>9. QED
    BY <1>5, <1>6, <1>7, <1>8, LedgerStep DEF KeptBody, KeptParent

LEMMA LedgerOfImport ==
    ASSUME TypeInv, Ledger, NEW w \in Worker, Download(w) \/ ImportDone(w)
    PROVE  Ledger'
<1>1. /\ Busy(w) /\ UNCHANGED <<order, begun, ended, row, child>> /\ TypeOK /\ run[w].pc \in {"download", "items"}
    BY DEF Download, ImportDone, At, Busy, TypeInv, histories
<1>2. PICK j \in Job, d \in Deliveries, step \in Nat : j = JobOf(w) /\ d = run[w].delivery /\ step = run[w].step
    BY <1>1, BusyRuns, KeyIsKey, CodeIsCode DEF TypeInv
<1>3. step \in 1 .. Last(j) /\ step \in Nat \ {0} /\ step > 0
  <2>1. ZoneAt(j, run[w].pc, step) /\ Last(j) \in Nat \ {0}
      BY <1>1, <1>2, CodeIsCode DEF TypeInv, Zone
  <2>2. QED
      BY <1>1, <1>2, <2>1 DEF ZoneAt, InPackage, InPrimary
<1>4. /\ LedgerAt(j, d, run[w].pc, step) /\ PresentAt(j, d, step, run[w].pc)
      /\ ChildAt(j, d, step) # "none" => IsPackage(j)
    BY <1>1, <1>2, <1>3 DEF Ledger, LedgerAt
<1>5. \A i \in Job, e \in Deliveries, k \in Nat \ {0} : ChildAt(i, e, k)' = ChildAt(i, e, k)
    BY <1>1 DEF ChildAt, StatusIn
<1>6. IsPackage(j)' = IsPackage(j)
    BY <1>1 DEF IsPackage
<1>7. CASE Download(w)
  <2>1. /\ Moved(w, "items", step) /\ KeptBody(w) /\ KeptParent(w) /\ run[w].pc = "download"
        /\ import' = Set(import, Key(w), "P")
      BY <1>2, <1>7, ImportMoves DEF Download, At
  <2>2. /\ ImportAt(j, d, step)' = "P"
        /\ \A i \in Job, e \in Deliveries, k \in Nat \ {0} : <<i, e, k>> # <<j, d, step>> =>
               ImportAt(i, e, k)' = ImportAt(i, e, k)
      BY <1>1, <1>2, <1>3, <2>1, SetAt
  <2>3. PresentAt(j, d, step, "items")'
      BY <1>3, <1>4, <1>5, <1>6, <2>1, <2>2 DEF PresentAt, InstalledStep
  <2>4. ~InstalledStep(j, d, step)
      BY <1>4, <2>1 DEF PresentAt, InstalledStep
  <2>5. QED
      BY <1>1, <1>2, <1>3, <1>4, <1>5, <1>6, <2>1, <2>2, <2>3, <2>4, LedgerSet
<1>8. CASE ImportDone(w)
  <2>1. PICK pc \in {"refreshAgain", "childDone"} :
          /\ Goes(w, pc) /\ pc = IF IsPackage(j) THEN "refreshAgain" ELSE "childDone"
      BY <1>2, <1>8 DEF ImportDone
  <2>2. /\ Moved(w, pc, step) /\ KeptBody(w) /\ KeptParent(w) /\ run[w].pc = "items"
        /\ import' = Set(import, Key(w), "D")
      BY <1>1, <1>2, <1>8, <2>1, GoesMoves DEF ImportDone, At
  <2>3. /\ ImportAt(j, d, step)' = "D"
        /\ \A i \in Job, e \in Deliveries, k \in Nat \ {0} : <<i, e, k>> # <<j, d, step>> =>
               ImportAt(i, e, k)' = ImportAt(i, e, k)
      BY <1>1, <1>2, <1>3, <2>2, SetAt
  <2>4. PresentAt(j, d, step, pc)'
      BY <1>3, <1>4, <1>5, <1>6, <2>1, <2>2, <2>3 DEF PresentAt, InstalledStep
  <2>5. ~InstalledStep(j, d, step)
      BY <1>4, <2>2 DEF PresentAt, InstalledStep
  <2>6. QED
      BY <1>1, <1>2, <1>3, <1>4, <1>5, <1>6, <2>2, <2>3, <2>4, <2>5, LedgerSet
<1>9. QED
    BY <1>7, <1>8

\* The status of a dependency; a configuration of its own has only its row.
LEMMA LedgerOfMarks ==
    ASSUME TypeInv, Ledger, NEW w \in Worker, Child(w) \/ ChildDone(w) \/ Fails(w)
    PROVE  Ledger'
<1>1. /\ Busy(w) /\ UNCHANGED <<order, begun, ended, import>> /\ TypeOK
      /\ run[w].pc \in {"child", "childDone", "find", "download", "items"}
      /\ run[w].body \in Row
    BY DEF Child, ChildDone, Fails, At, Busy, TypeInv, Holds, histories
<1>2. PICK j \in Job, d \in Deliveries, step \in Nat : j = JobOf(w) /\ d = run[w].delivery /\ step = run[w].step
    BY <1>1, BusyRuns, KeyIsKey, CodeIsCode DEF TypeInv
<1>3. /\ ZoneAt(j, run[w].pc, step) /\ Last(j) \in Nat \ {0} /\ (InDependency(w) <=> step \in 1 .. Last(j))
      /\ LedgerAt(j, d, run[w].pc, step)
    BY <1>1, <1>2, CodeIsCode DEF TypeInv, Zone, Ledger, InDependency
<1>4. \E pc : /\ Moved(w, pc, step) /\ KeptBody(w) /\ KeptParent(w)
              /\ Child(w) => pc = "find"
              /\ ChildDone(w) => pc = "next"
              /\ Fails(w) => pc = IF IsPackage(j) /\ step > 0 THEN "cancel" ELSE "failure"
              /\ pc \in {"find", "next", "cancel", "failure"}
  <2>1. CASE Child(w)
    <3>1. Moved(w, "find", step) /\ KeptBody(w) /\ KeptParent(w) /\ run[w].pc = "child"
        BY <1>1, <1>2, <2>1, GoesMoves DEF Child, At
    <3>2. QED
        BY <2>1, <3>1 DEF ChildDone, Fails, At
  <2>2. CASE ChildDone(w)
    <3>1. Moved(w, "next", step) /\ KeptBody(w) /\ KeptParent(w) /\ run[w].pc = "childDone"
        BY <1>2, <2>2, ChildDoneMoves DEF ChildDone, At
    <3>2. QED
        BY <2>2, <3>1 DEF Child, Fails, At
  <2>3. CASE Fails(w)
    <3>1. PICK pc \in {"cancel", "failure"} :
             Goes(w, pc) /\ pc = IF IsPackage(j) /\ step > 0 THEN "cancel" ELSE "failure"
        BY <1>2, <2>3 DEF Fails, AfterRaise
    <3>2. Moved(w, pc, step) /\ KeptBody(w) /\ KeptParent(w) /\ run[w].pc \in {"find", "download", "items"}
        BY <1>1, <1>2, <2>3, <3>1, GoesMoves DEF Fails, At
    <3>3. QED
        BY <2>3, <3>1, <3>2 DEF Child, ChildDone, At
  <2>4. QED
      BY <2>1, <2>2, <2>3
<1>5. PICK pc : /\ Moved(w, pc, step) /\ KeptBody(w) /\ KeptParent(w)
                /\ Child(w) => pc = "find"
                /\ ChildDone(w) => pc = "next"
                /\ Fails(w) => pc = IF IsPackage(j) /\ step > 0 THEN "cancel" ELSE "failure"
                /\ pc \in {"find", "next", "cancel", "failure"}
    BY <1>4
<1>6. CASE IsPackage(j) /\ step > 0
  <2>1. step \in 1 .. Last(j) /\ step \in Nat \ {0} /\ pc # "failure"
      BY <1>1, <1>3, <1>5, <1>6 DEF ZoneAt, InPrimary
  <2>2. PresentAt(j, d, step, run[w].pc) /\ IsPackage(j)'
      BY <1>1, <1>3, <1>6, <2>1 DEF LedgerAt, IsPackage
  <2>3. \A i \in Job, e \in Deliveries, k \in Nat \ {0} : ImportAt(i, e, k)' = ImportAt(i, e, k)
      BY <1>1 DEF ImportAt, StatusIn
  <2>4. CASE \E s \in {"P", "D", "E"} : Mark(w, s) /\ (s = "P" => Child(w)) /\ (s = "D" => ChildDone(w))
                                         /\ (s = "E" => Fails(w) /\ run[w].pc \in {"find", "download"})
    <3>1. PICK s \in {"P", "D", "E"} : /\ Mark(w, s) /\ (s = "P" => Child(w)) /\ (s = "D" => ChildDone(w))
                                       /\ s = "E" => Fails(w) /\ run[w].pc \in {"find", "download"}
        BY <2>4
    <3>2. child' = Set(child, Key(w), s) /\ UNCHANGED row
        BY <1>2, <1>6, <3>1 DEF Mark
    <3>3. /\ ChildAt(j, d, step)' = s
          /\ \A i \in Job, e \in Deliveries, k \in Nat \ {0} : <<i, e, k>> # <<j, d, step>> =>
                 ChildAt(i, e, k)' = ChildAt(i, e, k)
        BY <1>1, <1>2, <1>6, <2>1, <3>2, SetAt
    <3>4. PresentAt(j, d, step, pc)' /\ ~InstalledStep(j, d, step)
      <4>1. CASE s = "P"
        <5>1. run[w].pc = "child" /\ pc = "find"
            BY <1>5, <3>1, <4>1 DEF Child, At
        <5>2. QED
            BY <2>1, <2>2, <2>3, <3>3, <4>1, <5>1 DEF PresentAt, InstalledStep
      <4>2. CASE s = "D"
        <5>1. run[w].pc = "childDone" /\ pc = "next"
            BY <1>5, <3>1, <4>2 DEF ChildDone, At
        <5>2. QED
            BY <2>1, <2>2, <2>3, <1>6, <3>3, <4>2, <5>1 DEF PresentAt, InstalledStep
      <4>3. CASE s = "E"
        <5>1. run[w].pc \in {"find", "download"} /\ pc = "cancel"
            BY <1>5, <1>6, <3>1, <4>3
        <5>2. QED
            BY <2>1, <2>2, <2>3, <3>3, <4>3, <5>1 DEF PresentAt, InstalledStep
      <4>4. QED
          BY <3>1, <4>1, <4>2, <4>3
    <3>5. QED
        BY <1>1, <1>2, <1>5, <1>6, <2>1, <2>3, <3>2, <3>3, <3>4, LedgerSet
  <2>5. CASE Fails(w) /\ UNCHANGED <<row, child>>
    <3>1. run[w].pc \in {"find", "download", "items"} /\ pc = "cancel"
        BY <1>5, <1>6, <2>5 DEF Fails, At
    <3>2. Passes(j, run[w].pc, pc)
        BY <1>6, <3>1 DEF Passes, BeforeImport
    <3>3. QED
        BY <1>1, <1>2, <1>5, <2>5, <3>1, <3>2, LedgerGoesOn
  <2>6. QED
      BY <2>4, <2>5 DEF Child, ChildDone, Fails, At
<1>7. CASE ~(IsPackage(j) /\ step > 0)
  <2>1. UNCHANGED child
      BY <1>2, <1>7 DEF Child, ChildDone, Fails, Mark
  <2>2. \/ UNCHANGED row
        \/ \E r \in Row : /\ row' = [row EXCEPT ![j] = r]
                          /\ Honest(j, r) \/ ChildDone(w)
    <3>1. \A r : r \in Row /\ r.status \in {"P", "E"} => Honest(j, r)
        BY DEF Honest
    <3>2. QED
        BY <1>1, <1>2, <3>1, MarkRow DEF Child, ChildDone, Fails
  <2>3. ChildDone(w) => Installed(j, d)
    <3>1. ASSUME ChildDone(w)
          PROVE  run[w].pc = "childDone" /\ ~IsPackage(JobOf(w))
        BY <1>2, <1>3, <1>7, <3>1 DEF ChildDone, At, ZoneAt, InPackage
    <3>2. QED
        BY <1>1, <1>2, <3>1, ThroughIsInstalled
  <2>4. InDependency(w) => Passes(j, run[w].pc, pc)
    <3>1. InDependency(w) => ~IsPackage(j)
        BY <1>3, <1>7
    <3>2. CASE Child(w)
        BY <1>5, <3>1, <3>2 DEF Passes, BeforeImport, Child, At
    <3>3. CASE ChildDone(w)
        BY <1>5, <3>1, <3>3 DEF Passes, ChildDone, At
    <3>4. CASE Fails(w)
        BY <1>5, <1>7, <3>1, <3>4 DEF Passes, BeforeImport, Fails, At
    <3>5. QED
        BY <3>2, <3>3, <3>4
  <2>5. step = 0 \/ ~IsPackage(j)
      BY <1>7
  <2>6. QED
      BY <1>1, <1>2, <1>5, <2>1, <2>2, <2>3, <2>4, <2>5, LedgerGoesOn
<1>8. QED
    BY <1>6, <1>7

LEMMA LedgerOfSplit ==
    ASSUME TypeInv, Ledger, NEW w \in Worker, Split(w)
    PROVE  Ledger'
<1>1. /\ Busy(w) /\ UNCHANGED <<order, begun, ended, import>> /\ TypeOK /\ run[w].pc = "split"
    BY DEF Split, At, Busy, TypeInv, histories
<1>2. PICK j \in Job, d \in Deliveries : j = JobOf(w) /\ d = run[w].delivery
    BY <1>1, BusyRuns, KeyIsKey DEF TypeInv
<1>3. /\ run[w].step = 0 /\ IsPackage(j) /\ LedgerAt(j, d, "split", 0) /\ Last(j) \in Nat \ {0}
      /\ Honest(j, run[w].body) /\ run[w].body \in Row
  <2>1. ZoneAt(j, "split", run[w].step) /\ Last(j) \in Nat \ {0} /\ run[w].step \in Nat
      BY <1>1, <1>2, CodeIsCode DEF TypeInv, Zone
  <2>2. run[w].step = 0 /\ IsPackage(j)
      BY <2>1 DEF ZoneAt, InPackagesDependency, InSingle, InPrimary
  <2>3. QED
      BY <1>1, <1>2, <2>1, <2>2, SplitMoves DEF Ledger
<1>4. Last(j)' = Last(j) /\ IsPackage(j)' = IsPackage(j) /\ \A k \in 1 .. Last(j) : k \in Nat \ {0}
    BY <1>1 DEF Last, IsPackage
<1>5. \A i \in Job, e \in Deliveries, k \in Nat \ {0} : ImportAt(i, e, k)' = ImportAt(i, e, k)
    BY <1>1 DEF ImportAt, StatusIn
<1>6. \A k \in Nat \ {0} : ChildAt(j, d, k) = "none"
    BY <1>3 DEF LedgerAt
<1>7. \A x : StatusIn(child', x) =
          IF x \in DOMAIN child THEN StatusIn(child, x)
          ELSE IF x \in {KeyAt(w, k) : k \in 1 .. Last(JobOf(w))} THEN "I" ELSE "none"
    BY DEF Split, StatusIn
<1>8. \A k \in Nat \ {0} : ChildAt(j, d, k)' = IF k \in 1 .. Last(j) THEN "I" ELSE "none"
  <2>1. ASSUME NEW k \in Nat \ {0}
        PROVE  ChildAt(j, d, k)' = IF k \in 1 .. Last(j) THEN "I" ELSE "none"
    <3>1. StatusIn(child, <<j, d, k>>) = "none"
        BY <1>6 DEF ChildAt
    <3>2. <<j, d, k>> \in {KeyAt(w, n) : n \in 1 .. Last(JobOf(w))} <=> k \in 1 .. Last(j)
        BY <1>2 DEF KeyAt
    <3>3. <<j, d, k>> \in DOMAIN child => child[<<j, d, k>>] = "none"
        BY <3>1 DEF StatusIn
    <3>4. <<j, d, k>> \notin DOMAIN child
        BY <1>1, <3>3 DEF TypeOK
    <3>5. StatusIn(child', <<j, d, k>>) = IF k \in 1 .. Last(j) THEN "I" ELSE "none"
        BY <1>7, <3>2, <3>4
    <3>6. ChildAt(j, d, k)' = StatusIn(child', <<j, d, k>>)
        BY DEF ChildAt, StatusIn
    <3>7. QED
        BY <3>5, <3>6
  <2>2. QED
      BY <2>1
<1>9. ASSUME NEW i \in Job, NEW e \in Deliveries, NEW k \in Nat \ {0}, <<i, e>> # <<j, d>>
      PROVE  ChildAt(i, e, k)' = ChildAt(i, e, k)
  <2>1. <<i, e, k>> \notin {KeyAt(w, n) : n \in 1 .. Last(JobOf(w))}
      BY <1>2, <1>9 DEF KeyAt
  <2>2. StatusIn(child', <<i, e, k>>) = StatusIn(child, <<i, e, k>>)
      BY <1>7, <2>1 DEF StatusIn
  <2>3. ChildAt(i, e, k)' = StatusIn(child', <<i, e, k>>)
      BY DEF ChildAt, StatusIn
  <2>4. QED
      BY <2>2, <2>3 DEF ChildAt
<1>10. LedgerAt(j, d, "child", 1)'
  <2>1. \A k \in 1 .. Last(j) : ImportAt(j, d, k)' = "none" /\ ChildAt(j, d, k)' = "I" /\ ~(k < 1)
    <3>1. \A k \in 1 .. Last(j) : k > 0 /\ ~(k < 1) /\ ImportAt(j, d, k) = "none"
        BY <1>3 DEF LedgerAt
    <3>2. QED
        BY <1>4, <1>5, <1>8, <3>1
  <2>2. \A k \in 1 .. Last(j) : PresentAt(j, d, k, "child")'
      BY <2>1 DEF PresentAt
  <2>3. QED
      BY <1>3, <1>4, <1>8, <2>1, <2>2 DEF LedgerAt
<1>11. ~Installed(j, d)
  <2>1. ImportAt(j, d, 1) = "none" /\ 1 \in 1 .. Last(j)
      BY <1>3 DEF LedgerAt
  <2>2. QED
      BY <2>1 DEF Installed, InstalledStep
<1>12. PICK r \in Row : r = SplitOptions(w) /\ r.status = run[w].body.status
    BY SplitMoves
<1>13. Honest(j, r) /\ row' = [row EXCEPT ![j] = r]
    BY <1>2, <1>3, <1>12 DEF Honest, Split
<1>14. /\ run'[w].pc = "child" /\ run'[w].step = 1 /\ run'[w].job = j /\ run'[w].delivery = d
       /\ run'[w].body = r /\ run'[w].parent = run[w].parent
       /\ \A u \in Worker \ {w} : Same(u)
    BY <1>2, <1>12, SplitMoves DEF Moved, JobOf, KeptParent
<1>15. \A i \in Job, e \in Deliveries, k \in Nat \ {0} : <<i, e>> # <<j, d>> =>
          ChildAt(i, e, k)' = ChildAt(i, e, k) /\ ImportAt(i, e, k)' = ImportAt(i, e, k)
    BY <1>5, <1>9
<1>16. /\ Honest(j, run'[w].body)
       /\ Honest(j, run'[w].parent) \/ run'[w].parent = run[w].parent
    BY <1>13, <1>14
<1>17. QED
    BY <1>1, <1>2, <1>10, <1>11, <1>13, <1>14, <1>15, <1>16, LedgerStep

LEMMA LedgerOfCancel ==
    ASSUME TypeInv, Ledger, NEW w \in Worker, CancelRest(w)
    PROVE  Ledger'
<1>1. /\ Busy(w) /\ UNCHANGED <<order, begun, ended, import, row>> /\ TypeOK /\ run[w].pc = "cancel"
      /\ Goes(w, "failure")
    BY DEF CancelRest, At, Busy, TypeInv, histories
<1>2. PICK j \in Job, d \in Deliveries, step \in Nat : j = JobOf(w) /\ d = run[w].delivery /\ step = run[w].step
    BY <1>1, BusyRuns, KeyIsKey, CodeIsCode DEF TypeInv
<1>3. /\ step \in 1 .. Last(j) /\ step > 0 /\ IsPackage(j) /\ LedgerAt(j, d, "cancel", step) /\ Last(j) \in Nat \ {0}
  <2>1. ZoneAt(j, "cancel", step) /\ Last(j) \in Nat \ {0}
      BY <1>1, <1>2, CodeIsCode DEF TypeInv, Zone
  <2>2. step \in 1 .. Last(j) /\ IsPackage(j)
      BY <1>2, <2>1 DEF ZoneAt, InPackage, InSingle, InPrimary
  <2>3. QED
      BY <1>1, <1>2, <2>1, <2>2 DEF Ledger
<1>4. Last(j)' = Last(j) /\ IsPackage(j)' = IsPackage(j) /\ \A k \in 1 .. Last(j) : k \in Nat \ {0}
    BY <1>1 DEF Last, IsPackage
<1>5. \A i \in Job, e \in Deliveries, k \in Nat \ {0} : ImportAt(i, e, k)' = ImportAt(i, e, k)
    BY <1>1 DEF ImportAt, StatusIn
<1>6. \A x : StatusIn(child', x) =
          IF x \in DOMAIN child /\ \E k \in step + 1 .. Last(j) : x = <<j, d, k>> THEN "C"
          ELSE StatusIn(child, x)
    BY <1>2 DEF CancelRest, CancelableFrom, KeyAt, StatusIn
<1>7. \A i, e, k : ChildAt(i, e, k)' = StatusIn(child', <<i, e, k>>)
    BY DEF ChildAt, StatusIn
<1>8. ASSUME NEW i \in Job, NEW e \in Deliveries, NEW k \in Nat \ {0},
             <<i, e>> # <<j, d>> \/ k \notin step + 1 .. Last(j)
      PROVE  ChildAt(i, e, k)' = ChildAt(i, e, k)
  <2>1. ~(\E n \in step + 1 .. Last(j) : <<i, e, k>> = <<j, d, n>>)
      BY <1>8
  <2>2. QED
      BY <1>6, <1>7, <2>1 DEF ChildAt
<1>9. \A k \in 1 .. Last(j) : k > step => k \in step + 1 .. Last(j)
    BY <1>2
<1>10. \A k \in 1 .. Last(j) : ~(k > step) => k \notin step + 1 .. Last(j)
    BY <1>2
<1>11. ASSUME NEW k \in 1 .. Last(j), k > step
       PROVE  ChildAt(j, d, k)' = "C" /\ ImportAt(j, d, k) = "none" /\ ChildAt(j, d, k) = "I"
  <2>1. ChildAt(j, d, k) = "I" /\ ImportAt(j, d, k) = "none"
      BY <1>3, <1>11 DEF LedgerAt
  <2>2. <<j, d, k>> \in DOMAIN child
      BY <2>1 DEF ChildAt, StatusIn
  <2>3. QED
      BY <1>6, <1>7, <1>9, <1>11, <2>1, <2>2
<1>12. \A k \in 1 .. Last(j) : InstalledStep(j, d, k) => InstalledStep(j, d, k)'
  <2>1. ASSUME NEW k \in 1 .. Last(j), InstalledStep(j, d, k)
        PROVE  InstalledStep(j, d, k)'
    <3>1. ~(k > step)
        BY <1>11, <2>1 DEF InstalledStep
    <3>2. ChildAt(j, d, k)' = ChildAt(j, d, k)
        BY <1>4, <1>8, <1>10, <3>1
    <3>3. QED
        BY <1>4, <1>5, <2>1, <3>2 DEF InstalledStep
  <2>2. QED
      BY <2>1
<1>13. Installed(j, d) => Installed(j, d)'
    BY <1>4, <1>12 DEF Installed
<1>14. LedgerAt(j, d, "failure", step)'
  <2>1. \A k \in 1 .. Last(j) : k < step => InstalledStep(j, d, k)'
      BY <1>3, <1>12 DEF LedgerAt
  <2>2. PresentAt(j, d, step, "failure")'
    <3>1. PresentAt(j, d, step, "cancel")
        BY <1>3 DEF LedgerAt
    <3>2. ChildAt(j, d, step)' = ChildAt(j, d, step)
        BY <1>2, <1>3, <1>8
    <3>3. QED
        BY <1>3, <1>4, <3>1, <3>2 DEF PresentAt
  <2>3. \A k \in 1 .. Last(j) : k > step => ImportAt(j, d, k)' = "none" /\ ChildAt(j, d, k)' = "C"
      BY <1>4, <1>5, <1>11
  <2>4. \A k \in Nat \ {0} : ChildAt(j, d, k)' # "none" => k \in 1 .. Last(j)
    <3>1. \A k \in Nat \ {0} : ChildAt(j, d, k) # "none" => k \in 1 .. Last(j)
        BY <1>3 DEF LedgerAt
    <3>2. \A k \in Nat \ {0} : k \notin 1 .. Last(j) => k \notin step + 1 .. Last(j)
        BY <1>2, <1>3
    <3>3. QED
        BY <1>8, <3>1, <3>2
  <2>5. QED
      BY <1>3, <1>4, <2>1, <2>2, <2>3, <2>4 DEF LedgerAt
<1>15. Moved(w, "failure", run[w].step) /\ KeptBody(w) /\ KeptParent(w)
    BY <1>1, GoesMoves
<1>16. /\ run'[w].pc = "failure" /\ run'[w].step = step /\ run'[w].job = j /\ run'[w].delivery = d
       /\ run'[w].body = run[w].body /\ run'[w].parent = run[w].parent
       /\ \A u \in Worker \ {w} : Same(u)
    BY <1>2, <1>15 DEF Moved, JobOf, KeptBody, KeptParent
<1>17. QED
    BY <1>1, <1>2, <1>5, <1>8, <1>13, <1>14, <1>16, LedgerStep

LEMMA LedgerOfEnds ==
    ASSUME TypeInv, Ledger, NEW w \in Worker, OnSuccess(w) \/ OnFailure(w) \/ LoseChild(w)
    PROVE  Ledger'
<1>1. /\ Busy(w) /\ UNCHANGED <<order, begun, import, child>> /\ TypeOK /\ run[w] \in Running
      /\ run' = [run EXCEPT ![w] = Idle]
    BY BusyRuns DEF OnSuccess, OnFailure, Hook, LoseChild, At, Busy, TypeInv, tables
<1>2. PICK j \in Job, d \in Deliveries, step \in Nat : j = JobOf(w) /\ d = run[w].delivery /\ step = run[w].step
    BY <1>1, BusyRuns, KeyIsKey, CodeIsCode DEF TypeInv
<1>3. \A i \in Job, e \in Deliveries, k \in Nat \ {0} :
         ChildAt(i, e, k)' = ChildAt(i, e, k) /\ ImportAt(i, e, k)' = ImportAt(i, e, k)
    BY <1>1 DEF ChildAt, ImportAt, StatusIn
<1>4. Installed(j, d)' <=> Installed(j, d)
    BY <1>1, <1>3, LedgerApart
<1>5. /\ LedgerAt(j, d, run[w].pc, step) /\ ZoneAt(j, run[w].pc, step) /\ Last(j) \in Nat \ {0}
    BY <1>1, <1>2, CodeIsCode DEF Ledger, TypeInv, Zone
<1>6. \/ UNCHANGED row
      \/ \E r \in Row : /\ row' = [row EXCEPT ![j] = r]
                        /\ Honest(j, r) \/ Installed(j, d)'
  <2>1. CASE OnSuccess(w)
    <3>1. Installed(j, d)
        BY <1>1, <1>2, <2>1, ThroughIsInstalled DEF OnSuccess, At
    <3>2. \E r \in Row : row' = [row EXCEPT ![j] = r]
        BY <1>1, <1>2, <2>1, StatusChanged DEF OnSuccess, Hook, Running
    <3>3. QED
        BY <1>4, <3>1, <3>2
  <2>2. CASE OnFailure(w)
    <3>1. PICK r : r = [run[w].hook EXCEPT !.status = "E"]
        OBVIOUS
    <3>2. r \in Row /\ r.status = "E"
        BY <1>1, <3>1, StatusChanged DEF Running
    <3>3. QED
        BY <1>2, <2>2, <3>1, <3>2 DEF OnFailure, Hook, Honest
  <2>3. CASE LoseChild(w)
      BY <2>3 DEF LoseChild, tables
  <2>4. QED
      BY <2>1, <2>2, <2>3
<1>7. \/ ended' = ended
      \/ /\ ended' = ended \cup {<<j, d>>}
         /\ \A k \in Nat \ {0} : ChildAt(j, d, k)' # "I"
  <2>1. CASE OnSuccess(w) \/ OnFailure(w)
    <3>1. run[w].pc \in {"success", "failure"} /\ ended' = ended \cup {<<j, d>>}
        BY <1>2, <2>1 DEF OnSuccess, OnFailure, Hook, At
    <3>2. ASSUME NEW k \in Nat \ {0}
          PROVE  ChildAt(j, d, k) # "I"
      <4>1. CASE ~(IsPackage(j) /\ step > 0 /\ k \in 1 .. Last(j))
          BY <1>5, <4>1 DEF LedgerAt
      <4>2. CASE IsPackage(j) /\ step > 0 /\ k \in 1 .. Last(j)
        <5>1. CASE k < step
            BY <1>5, <4>2, <5>1 DEF LedgerAt, InstalledStep
        <5>2. CASE k = step
            BY <1>5, <3>1, <4>2, <5>2 DEF LedgerAt, PresentAt, InstalledStep
        <5>3. CASE k > step
          <6>1. run[w].pc = "failure"
              BY <1>2, <1>5, <3>1, <4>2, <5>3 DEF ZoneAt, InPackagesDependency
          <6>2. QED
              BY <1>5, <4>2, <5>3, <6>1 DEF LedgerAt
        <5>4. QED
            BY <1>2, <5>1, <5>2, <5>3
      <4>3. QED
          BY <4>1, <4>2
    <3>3. QED
        BY <1>3, <3>1, <3>2
  <2>2. CASE LoseChild(w)
      BY <2>2 DEF LoseChild
  <2>3. QED
      BY <2>1, <2>2
<1>8. run'[w].pc = "idle" /\ \A u \in Worker \ {w} : Same(u)
    BY <1>1, IdleMoves
<1>9. PICK after : after = run'[w].step
    OBVIOUS
<1>10. QED
    BY <1>1, <1>2, <1>3, <1>4, <1>6, <1>7, <1>8, <1>9, LedgerStep

\* No delivery does anything: one may begin.
LEMMA LedgerBeside ==
    ASSUME TypeInv, Ledger, UNCHANGED <<order, child, import, ended>>,
           \A i \in Job : /\ 1 .. begun[i] \subseteq 1 .. begun'[i]
                          /\ \A e \in Deliveries : e > begun'[i] => e > begun[i],
           \A i \in Job : row'[i] = row[i] \/ row'[i].status # "D",
           \A u \in Worker : Busy(u)' =>
               \/ Busy(u) /\ run'[u] = run[u]
               \/ \E i \in Job, e \in Deliveries : \E pc, step :
                     /\ run'[u].job = i /\ run'[u].delivery = e
                     /\ run'[u].pc = pc /\ run'[u].step = step
                     /\ run'[u].body = NoCopy /\ run'[u].parent = NoCopy
                     /\ LedgerAt(i, e, pc, step)
    PROVE  Ledger'
<1>1. \A i \in Job, e \in Deliveries, k \in Nat \ {0} :
         ChildAt(i, e, k)' = ChildAt(i, e, k) /\ ImportAt(i, e, k)' = ImportAt(i, e, k)
    BY DEF ChildAt, ImportAt, StatusIn
<1>2. ASSUME NEW i \in Job, NEW e \in Deliveries, NEW pc, NEW step, LedgerAt(i, e, pc, step)
      PROVE  LedgerAt(i, e, pc, step)'
    BY <1>1, <1>2, LedgerApart
<1>3. ASSUME NEW i \in Job, NEW r, Honest(i, r), r \in Row, r.status = "D"
      PROVE  \E e \in 1 .. begun'[i] : Installed(i, e)'
  <2>1. PICK e \in 1 .. begun[i] : Installed(i, e)
      BY <1>3 DEF Honest
  <2>2. e \in Deliveries
    <3>1. begun[i] \in 0 .. MaxFaults + 1
        BY DEF TypeInv, TypeOK
    <3>2. QED
        BY <3>1, FaultsAssumption DEF Deliveries
  <2>3. QED
      BY <1>1, <2>1, <2>2, LedgerApart
<1>4. \A i \in Job : Honest(i, row[i])'
    BY <1>3 DEF Ledger, Honest
<1>5. ASSUME NEW u \in Worker, Busy(u)'
      PROVE  /\ LedgerAt(JobOf(u), run[u].delivery, run[u].pc, run[u].step)'
             /\ Honest(JobOf(u), run[u].body)' /\ Honest(JobOf(u), run[u].parent)'
  <2>1. CASE Busy(u) /\ run'[u] = run[u]
    <3>1. PICK i \in Job, e \in Deliveries : i = JobOf(u) /\ e = run[u].delivery
        BY <2>1, BusyRuns, KeyIsKey DEF TypeInv
    <3>2. PICK pc, step : pc = run[u].pc /\ step = run[u].step
        OBVIOUS
    <3>3. LedgerAt(i, e, pc, step) /\ Honest(i, run[u].body) /\ Honest(i, run[u].parent)
        BY <2>1, <3>1, <3>2 DEF Ledger
    <3>4. JobOf(u)' = i /\ run'[u].delivery = e /\ run'[u].pc = pc /\ run'[u].step = step
          /\ run'[u].body = run[u].body /\ run'[u].parent = run[u].parent
        BY <2>1, <3>1, <3>2 DEF JobOf
    <3>5. LedgerAt(i, e, pc, step)'
        BY <1>2, <3>3
    <3>6. LedgerAt(JobOf(u), run[u].delivery, run[u].pc, run[u].step)'
        BY <3>4, <3>5
    <3>7. QED
        BY <1>3, <3>3, <3>4, <3>6 DEF Honest
  <2>2. CASE \E i \in Job, e \in Deliveries : \E pc, step :
                 /\ run'[u].job = i /\ run'[u].delivery = e
                 /\ run'[u].pc = pc /\ run'[u].step = step
                 /\ run'[u].body = NoCopy /\ run'[u].parent = NoCopy
                 /\ LedgerAt(i, e, pc, step)
    <3>1. PICK i \in Job, e \in Deliveries : \E pc, step :
                 /\ run'[u].job = i /\ run'[u].delivery = e
                 /\ run'[u].pc = pc /\ run'[u].step = step
                 /\ run'[u].body = NoCopy /\ run'[u].parent = NoCopy
                 /\ LedgerAt(i, e, pc, step)
        BY <2>2
    <3>2. PICK pc, step :
                 /\ run'[u].job = i /\ run'[u].delivery = e
                 /\ run'[u].pc = pc /\ run'[u].step = step
                 /\ run'[u].body = NoCopy /\ run'[u].parent = NoCopy
                 /\ LedgerAt(i, e, pc, step)
        BY <3>1
    <3>3. LedgerAt(i, e, pc, step)' /\ JobOf(u)' = i
        BY <1>2, <3>2 DEF JobOf
    <3>4. LedgerAt(JobOf(u), run[u].delivery, run[u].pc, run[u].step)'
        BY <3>2, <3>3
    <3>5. QED
        BY <3>2, <3>4, RowAssumption DEF Honest
  <2>3. QED
      BY <1>5, <2>1, <2>2
<1>6. ASSUME NEW i \in Job, NEW e \in Deliveries, NEW k \in Nat \ {0}
      PROVE  /\ e > begun'[i] => ChildAt(i, e, k)' = "none" /\ ImportAt(i, e, k)' = "none"
             /\ <<i, e>> \in ended' => ChildAt(i, e, k)' # "I"
    BY <1>1 DEF Ledger
<1>7. QED
    BY <1>4, <1>5, <1>6 DEF Ledger

LEMMA LedgerOfTake ==
    ASSUME TypeInv, Ledger, NEW w \in Worker, NEW j \in Job, Take(w, j)
    PROVE  Ledger'
<1>1. /\ TypeOK /\ queue[j] > 0 /\ UNCHANGED <<order, row, child, import, ended>>
    BY DEF Take, TypeInv, tables, histories
<1>2. PICK q \in Nat, b \in Nat, f \in Nat : q = queue[j] /\ b = begun[j] /\ f = faults
    BY Counts
<1>3. /\ b + 1 \in Deliveries /\ b + 1 > b
      /\ begun' = [begun EXCEPT ![j] = b + 1] /\ begun \in [Job -> 0 .. MaxFaults + 1]
  <2>1. q > 0 /\ q + b <= 1 + f /\ f <= MaxFaults
      BY <1>1, <1>2, Counts
  <2>2. b + 1 \in Deliveries /\ b + 1 > b
      BY <2>1, FaultsAssumption DEF Deliveries
  <2>3. QED
      BY <1>2, <2>2, Counts DEF Take
<1>4. ASSUME NEW i \in Job
      PROVE  /\ 1 .. begun[i] \subseteq 1 .. begun'[i]
             /\ \A e \in Deliveries : e > begun'[i] => e > begun[i]
  <2>1. CASE i = j
    <3>1. 1 .. b \subseteq 1 .. b + 1 /\ \A e \in Deliveries : e > b + 1 => e > b
        BY FaultsAssumption DEF Deliveries
    <3>2. begun[i] = b /\ begun'[i] = b + 1
        BY <1>2, <1>3, <2>1
    <3>3. QED
        BY <3>1, <3>2
  <2>2. CASE i # j
      BY <1>3, <2>2
  <2>3. QED
      BY <2>1, <2>2
<1>5. /\ \A u \in Worker \ {w} : run'[u] = run[u]
      /\ run'[w].pc = "start" /\ run'[w].job = j /\ run'[w].delivery = b + 1
      /\ run'[w].body = NoCopy /\ run'[w].parent = NoCopy
      /\ run'[w].step = IF IsPackage(j) THEN 0 ELSE 1
    BY <1>1, <1>2 DEF Take, TypeOK
<1>6. PICK step \in {0, 1} : step = IF IsPackage(j) THEN 0 ELSE 1
    OBVIOUS
<1>7. \A k \in Nat \ {0} : ChildAt(j, b + 1, k) = "none" /\ ImportAt(j, b + 1, k) = "none"
    BY <1>2, <1>3 DEF Ledger
<1>8. LedgerAt(j, b + 1, "start", step)
  <2>1. \A k \in 1 .. Last(j) : k \in Nat \ {0} /\ ~(k < step)
      BY <1>6
  <2>2. \A k \in 1 .. Last(j) : PresentAt(j, b + 1, k, "start")
      BY <1>7, <2>1 DEF PresentAt
  <2>3. ~(IsPackage(j) /\ step > 0)
      BY <1>6
  <2>4. QED
      BY <1>7, <2>1, <2>2, <2>3 DEF LedgerAt
<1>9. \A u \in Worker : Busy(u)' =>
         \/ Busy(u) /\ run'[u] = run[u]
         \/ u = w
    BY <1>5 DEF Busy
<1>10. QED
    BY <1>1, <1>3, <1>4, <1>5, <1>6, <1>8, <1>9, LedgerBeside

LEMMA LedgerOfOthers ==
    ASSUME TypeInv, Ledger,
           \/ UNCHANGED vars
           \/ \E j \in Job : Request(j)
           \/ \E w \in Worker : Redeliver(w)
    PROVE  Ledger'
<1>1. UNCHANGED <<order, child, import, ended, run, begun>>
    BY DEF vars, Request, Redeliver, histories, tables
<1>2. \A i \in Job : row'[i] = row[i] \/ row'[i].status # "D"
  <2>1. ASSUME NEW j \in Job, Request(j)
        PROVE  \A i \in Job : row'[i] = row[i] \/ row'[i].status # "D"
      BY <2>1 DEF Request, TypeInv, TypeOK
  <2>2. QED
      BY <2>1 DEF vars, Redeliver, tables
<1>3. \A u \in Worker : Busy(u)' => Busy(u) /\ run'[u] = run[u]
    BY <1>1 DEF Busy
<1>4. QED
    BY <1>1, <1>2, <1>3, LedgerBeside

LEMMA LedgerKept ==
    ASSUME TypeInv, Ledger, [Next]_vars
    PROVE  Ledger'
<1>1. ASSUME NEW w \in Worker, Work(w)
      PROVE  Ledger'
    BY <1>1, LedgerOfTake, LedgerOfReads, LedgerOfSaves, LedgerOfImport, LedgerOfMarks,
       LedgerOfSplit, LedgerOfCancel, LedgerOfEnds DEF Work
<1>2. ASSUME NEW w \in Worker, Disturb(w)
      PROVE  Ledger'
    BY <1>2, LedgerOfReads, LedgerOfMarks, LedgerOfEnds, LedgerOfOthers DEF Disturb
<1>3. QED
    BY <1>1, <1>2, LedgerOfOthers DEF Next

LEMMA InitLedger ==
    ASSUME Init
    PROVE  Ledger
<1>1. DOMAIN child = {} /\ DOMAIN import = {} /\ \A j \in Job : row[j] = NoRow
    BY DEF Init
<1>2. \A j, d, k : ChildAt(j, d, k) = "none" /\ ImportAt(j, d, k) = "none"
    BY <1>1 DEF ChildAt, ImportAt, StatusIn
<1>3. \A w \in Worker : ~Busy(w)
  <2>1. \A w \in Worker : run[w] = Idle
      BY DEF Init
  <2>2. QED
      BY <2>1 DEF Idle, Busy
<1>4. QED
    BY <1>1, <1>2, <1>3, RowAssumption DEF Ledger, Honest

\* A task that is DONE has a delivery that imported every dependency and
\* marked it DONE: copies of the row that were read before never bring the
\* status of a delivery back that was not through.
THEOREM DoneInstalledAll == Spec => []DoneIsInstalled
<1>1. Init => TypeInv /\ Ledger
    BY InitTyped, InitLedger
<1>2. TypeInv /\ Ledger /\ [Next]_vars => TypeInv' /\ Ledger'
    BY TypeInvKept, LedgerKept
<1>3. TypeInv /\ Ledger => DoneIsInstalled
  <2> SUFFICES ASSUME TypeInv, Ledger, NEW j \in Job, row[j] # NoRow, row[j].status = "D"
               PROVE  \E d \in 1 .. begun[j] : \A k \in 1 .. Last(j) :
                         /\ <<j, d, k>> \in DOMAIN import /\ import[<<j, d, k>>] = "D"
                         /\ IsPackage(j) =>
                               <<j, d, k>> \in DOMAIN child /\ child[<<j, d, k>>] = "D"
      BY DEF DoneIsInstalled
  <2>1. row[j] \in Row
      BY Counts
  <2>2. PICK d \in 1 .. begun[j] : Installed(j, d)
      BY <2>1 DEF Ledger, Honest
  <2>3. QED
      BY <2>2 DEF Installed, InstalledStep, ImportAt, ChildAt, StatusIn
<1>4. QED
    BY <1>1, <1>2, <1>3, PTL DEF Spec

\* When a delivery is over, none of its dependencies is left waiting: the
\* ones after a failure were canceled, whatever other deliveries of the task,
\* each with dependencies of its own, do meanwhile.
THEOREM NoChildLeftWaiting == Spec => []NoChildWaits
<1>1. Init => TypeInv /\ Ledger
    BY InitTyped, InitLedger
<1>2. TypeInv /\ Ledger /\ [Next]_vars => TypeInv' /\ Ledger'
    BY TypeInvKept, LedgerKept
<1>3. TypeInv /\ Ledger => NoChildWaits
  <2> SUFFICES ASSUME TypeInv, Ledger, NEW x \in DOMAIN child, <<x[1], x[2]>> \in ended
               PROVE  child[x] # "I"
      BY DEF NoChildWaits
  <2>1. PICK j \in Job, d \in Deliveries, k \in Nat \ {0} : x = <<j, d, k>>
    <3>1. x \in Job \X Deliveries \X (Nat \ {0})
        BY DEF TypeInv, TypeOK, Keys
    <3>2. QED
        BY <3>1
  <2>2. ChildAt(j, d, k) # "I"
      BY <2>1 DEF Ledger
  <2>3. QED
      BY <2>1, <2>2 DEF ChildAt, StatusIn
<1>4. QED
    BY <1>1, <1>2, <1>3, PTL DEF Spec

-----------------------------------------------------------------------------
(* What the row of a configuration says of its items *)

\* A package and a configuration never have one code.
PackagesApart ==
    \A o \in Orders : \A i, j \in Job : \A k \in 1 .. Len(o[j].deps) :
        o[i].package # o[j].deps[k]

Recording == {"refresh", "progress", "download", "items"} \cup AfterImport

Within == {"create", "clear", "save"} \cup Recording

LastVersion(rows) == rows[Len(rows)].version

Shown(items, refused, release) == \A i \in Item \ refused : items[i] = release

\* What a worker r that nobody disturbs has done to rows and items.
StageOf(r, rows, items) ==
    /\ r.pc \in {"clear", "save"} => r.copy.version = r.job /\ r.copy.pos = Len(rows)
    /\ r.pc \in Recording => Len(rows) > 0 /\ LastVersion(rows) = r.job
    /\ r.pc = "items" => Shown(items, r.left \cup r.refused, r.job)
    /\ r.pc \in AfterImport => Shown(items, r.refused, r.job)

Stage(w) == StageOf(run[w], conf[CodeOf(w)], content[CodeOf(w)])

LoneAt(w) ==
    /\ \A u \in Worker \ {w} : run[u].pc \in Within => CodeOf(u) # CodeOf(w)
    /\ InDependency(w) => Stage(w)

\* A primary module's row is saved with the release that it shows.
KeepsRelease(u, c) ==
    /\ run[u].step = Last(JobOf(u)) + 1
    /\ Len(conf[c]) = 1 /\ run[u].copy.pos = 1
    /\ run[u].copy.version = conf[c][1].version

IsDependency(c) == \E j \in Job : \E k \in 1 .. Last(j) : order[j].deps[k] = c

SettledAt(c) ==
    /\ IsDependency(c)
    /\ Len(conf[c]) > 0
    /\ Shown(content[c], settled[c], LastVersion(conf[c]))
    /\ \A u \in Worker : run[u].pc \in Within /\ CodeOf(u) = c => KeepsRelease(u, c)

Lone == \A w \in Worker : run[w].pc \in Within /\ run[w].alone => LoneAt(w)

Settled == \A c \in Code : settled[c] # Unsettled => SettledAt(c)

ShowInv == Lone /\ Settled

\* Where another worker stands is not changed, but it may lose alone.
Unmoved(u) ==
    /\ run'[u].pc = run[u].pc /\ run'[u].job = run[u].job /\ run'[u].step = run[u].step
    /\ run'[u].copy = run[u].copy /\ run'[u].left = run[u].left
    /\ run'[u].refused = run[u].refused
    /\ run'[u].alone => run[u].alone

SameRows(c) ==
    /\ Len(conf'[c]) = Len(conf[c]) /\ content'[c] = content[c]
    /\ \A p \in 1 .. Len(conf[c]) : conf'[c][p].version = conf[c][p].version

LEMMA WithinCode ==
    ASSUME TypeInv, NEW w \in Worker, run[w].pc \in Within
    PROVE  /\ Busy(w) /\ CodeOf(w) \in Code /\ run[w] \in Running
           /\ run[w].pc \in Recording => InDependency(w)
           /\ run[w].pc = "create" => run[w].step # Last(JobOf(w)) + 1
           /\ InDependency(w) => run[w].step # Last(JobOf(w)) + 1
<1>1. Busy(w) /\ run[w] \in Running
    BY BusyRuns DEF Busy, Within, Recording, AfterImport, TypeInv
<1>2. Zone(w) /\ run[w].step \in Nat /\ Last(JobOf(w)) \in Nat \ {0}
    BY <1>1, CodeIsCode DEF TypeInv
<1>3. run[w].pc \in Recording => InDependency(w)
    BY <1>2 DEF Zone, ZoneAt, InDependency, InPackage, InPrimary, Recording, AfterImport
<1>4. run[w].pc = "create" => run[w].step # Last(JobOf(w)) + 1
    BY <1>2 DEF Zone, ZoneAt, InPrimary
<1>5. InDependency(w) => run[w].step # Last(JobOf(w)) + 1
    BY <1>2 DEF InDependency
<1>6. CodeOf(w) \in Code
    BY <1>1, <1>3, CodeIsCode DEF Within
<1>7. QED
    BY <1>1, <1>3, <1>4, <1>5, <1>6

LEMMA StageKept ==
    ASSUME NEW r, NEW s, NEW rows, NEW rows2, NEW items, Len(rows) \in Nat,
           s.pc = r.pc, s.job = r.job, s.copy = r.copy, s.left = r.left, s.refused = r.refused,
           Len(rows2) = Len(rows), \A p \in 1 .. Len(rows) : rows2[p].version = rows[p].version,
           StageOf(r, rows, items)
    PROVE  StageOf(s, rows2, items)
<1>1. Len(rows) > 0 => LastVersion(rows2) = LastVersion(rows)
    BY DEF LastVersion
<1>2. QED
    BY <1>1 DEF StageOf, Shown

LEMMA UnmovedCode ==
    ASSUME NEW u \in Worker, Unmoved(u), UNCHANGED order
    PROVE  /\ CodeOf(u)' = CodeOf(u) /\ JobOf(u)' = JobOf(u) /\ Last(JobOf(u))' = Last(JobOf(u))
           /\ InDependency(u)' <=> InDependency(u)
BY DEF Unmoved, CodeOf, JobOf, Last, InDependency

\* What the step of a worker w has to respect.
LEMMA ShowStep ==
    ASSUME TypeInv, ShowInv, UNCHANGED order, NEW w \in Worker,
           \A u \in Worker \ {w} : Unmoved(u),
           run'[w].pc \in Within =>
               \/ run[w].pc \in Within /\ CodeOf(w)' = CodeOf(w)
               \/ \A u \in Worker \ {w} :
                     run[u].pc \in Within /\ CodeOf(u) = CodeOf(w)' => ~run'[u].alone,
           \A c \in Code : (run[w].pc \in Within /\ CodeOf(w) = c) \/ SameRows(c),
           run'[w].pc \in Within /\ run'[w].alone =>
               /\ \A u \in Worker \ {w} : run[u].pc \in Within => CodeOf(u) # CodeOf(w)'
               /\ InDependency(w)' => Stage(w)',
           \A c \in Code : settled'[c] # Unsettled =>
               \/ /\ settled'[c] = settled[c] /\ SameRows(c)
                  /\ run'[w].pc \in Within /\ CodeOf(w)' = c => KeepsRelease(w, c)'
               \/ SettledAt(c)'
    PROVE  ShowInv'
<1>1. ASSUME NEW u \in Worker \ {w}, run'[u].pc \in Within, run'[u].alone
      PROVE  LoneAt(u)'
  <2>1. /\ run[u].pc \in Within /\ run[u].alone /\ CodeOf(u)' = CodeOf(u) /\ CodeOf(u) \in Code
        /\ InDependency(u)' <=> InDependency(u)
      BY <1>1, UnmovedCode, WithinCode DEF Unmoved
  <2>2. LoneAt(u)
      BY <2>1 DEF ShowInv, Lone
  <2>3. run[w].pc \in Within => CodeOf(w) # CodeOf(u)
      BY <2>2 DEF LoneAt
  <2>4. SameRows(CodeOf(u))
      BY <2>1, <2>3
  <2>5. InDependency(u)' => Stage(u)'
    <3>1. SUFFICES ASSUME Stage(u) PROVE Stage(u)'
        BY <2>1, <2>2 DEF LoneAt
    <3>2. PICK c \in Code : c = CodeOf(u)
        BY <2>1
    <3>3. Len(conf[c]) \in Nat
        BY Rows
    <3>4. /\ StageOf(run[u], conf[c], content[c]) /\ SameRows(c)
        BY <2>4, <3>1, <3>2 DEF Stage
    <3>5. StageOf(run'[u], conf'[c], content[c])
        BY <3>3, <3>4, StageKept DEF SameRows, Unmoved
    <3>6. StageOf(run'[u], conf'[c], content'[c])
        BY <3>4, <3>5 DEF SameRows
    <3>7. QED
        BY <2>1, <3>2, <3>6 DEF Stage
  <2>6. ASSUME NEW v \in Worker \ {u}, run'[v].pc \in Within
        PROVE  CodeOf(v)' # CodeOf(u)
    <3>1. CASE v = w
        BY <1>1, <2>1, <2>3, <2>6, <3>1
    <3>2. CASE v # w
      <4>1. run[v].pc \in Within /\ CodeOf(v)' = CodeOf(v)
          BY <2>6, <3>2, UnmovedCode DEF Unmoved
      <4>2. QED
          BY <2>2, <4>1 DEF LoneAt
    <3>3. QED
        BY <3>1, <3>2
  <2>7. QED
      BY <2>1, <2>5, <2>6 DEF LoneAt
<1>2. ASSUME run'[w].pc \in Within, run'[w].alone
      PROVE  LoneAt(w)'
  <2>1. \A u \in Worker \ {w} : run'[u].pc \in Within => run[u].pc \in Within /\ CodeOf(u)' = CodeOf(u)
      BY UnmovedCode DEF Unmoved
  <2>2. QED
      BY <1>2, <2>1 DEF LoneAt
<1>3. ASSUME NEW c \in Code, settled[c] # Unsettled, settled'[c] = settled[c], SameRows(c),
             run'[w].pc \in Within /\ CodeOf(w)' = c => KeepsRelease(w, c)'
      PROVE  SettledAt(c)'
  <2>1. SettledAt(c) /\ Len(conf[c]) \in Nat
      BY <1>3, Rows DEF ShowInv, Settled
  <2>2. LastVersion(conf'[c]) = LastVersion(conf[c])
      BY <1>3, <2>1 DEF SettledAt, SameRows, LastVersion
  <2>3. ASSUME NEW u \in Worker, run'[u].pc \in Within, CodeOf(u)' = c
        PROVE  KeepsRelease(u, c)'
    <3>1. CASE u = w
        BY <1>3, <2>3, <3>1
    <3>2. CASE u # w
      <4>1. /\ run[u].pc \in Within /\ CodeOf(u) = c /\ Last(JobOf(u))' = Last(JobOf(u))
            /\ run'[u].step = run[u].step /\ run'[u].copy = run[u].copy
          BY <2>3, <3>2, UnmovedCode DEF Unmoved
      <4>2. KeepsRelease(u, c)
          BY <2>1, <4>1 DEF SettledAt
      <4>3. QED
          BY <1>3, <4>1, <4>2 DEF KeepsRelease, SameRows
    <3>3. QED
        BY <3>1, <3>2
  <2>4. IsDependency(c)'
      BY <2>1 DEF SettledAt, IsDependency, Last
  <2>5. QED
      BY <1>3, <2>1, <2>2, <2>3, <2>4 DEF SettledAt, SameRows, Shown
<1>4. Settled'
    BY <1>3 DEF Settled
<1>5. Lone'
    BY <1>1, <1>2 DEF Lone
<1>6. QED
    BY <1>4, <1>5 DEF ShowInv

\* A worker whose record is written anew; the others are as before.
LEMMA Rewritten ==
    ASSUME TypeOK, NEW w \in Worker, NEW new, run' = [run EXCEPT ![w] = new]
    PROVE  /\ run'[w] = new
           /\ \A u \in Worker \ {w} : run'[u] = run[u] /\ Unmoved(u)
BY DEF TypeOK, Unmoved

LEMMA RowsUnchanged ==
    ASSUME UNCHANGED <<conf, content>>
    PROVE  \A c \in Code : SameRows(c)
BY DEF SameRows

\* A step that writes no table, of a worker that leaves its configuration or
\* carries on there.
LEMMA ShowQuiet ==
    ASSUME TypeInv, ShowInv, UNCHANGED <<order, conf, content, settled>>, NEW w \in Worker,
           \A u \in Worker \ {w} : Unmoved(u),
           \/ run'[w].pc \notin Within
           \/ /\ run[w].pc \in Recording
              /\ run'[w].job = run[w].job /\ run'[w].step = run[w].step
              /\ run'[w].alone => run[w].alone
              /\ \A rows, items : StageOf(run[w], rows, items) => StageOf(run'[w], rows, items)
    PROVE  ShowInv'
<1>1. \A c \in Code : SameRows(c)
    BY RowsUnchanged
<1>2. CASE run'[w].pc \notin Within
  <2>1. \A c \in Code : settled'[c] # Unsettled =>
           /\ settled'[c] = settled[c] /\ SameRows(c)
           /\ run'[w].pc \in Within /\ CodeOf(w)' = c => KeepsRelease(w, c)'
      BY <1>1, <1>2
  <2>2. QED
      BY <1>1, <1>2, <2>1, ShowStep
<1>3. CASE run'[w].pc \in Within
  <2>1. /\ run[w].pc \in Within /\ InDependency(w) /\ run[w].step # Last(JobOf(w)) + 1
        /\ CodeOf(w) \in Code
      BY <1>3, WithinCode DEF Within
  <2>2. CodeOf(w)' = CodeOf(w)
      BY <1>3 DEF CodeOf, JobOf, InDependency, Last
  <2>3. ASSUME NEW c \in Code, settled'[c] # Unsettled
        PROVE  CodeOf(w) # c
    <3>1. SettledAt(c)
        BY <2>3 DEF ShowInv, Settled
    <3>2. QED
        BY <2>1, <3>1 DEF SettledAt, KeepsRelease
  <2>4. run'[w].alone => LoneAt(w)
      BY <1>3, <2>1 DEF ShowInv, Lone
  <2>5. Stage(w) => Stage(w)'
      BY <1>3, <2>2 DEF Stage
  <2>6. run'[w].alone =>
           /\ \A u \in Worker \ {w} : run[u].pc \in Within => CodeOf(u) # CodeOf(w)'
           /\ InDependency(w)' => Stage(w)'
      BY <2>1, <2>2, <2>4, <2>5 DEF LoneAt
  <2>7. \A c \in Code : settled'[c] # Unsettled =>
           /\ settled'[c] = settled[c] /\ SameRows(c)
           /\ run'[w].pc \in Within /\ CodeOf(w)' = c => KeepsRelease(w, c)'
      BY <1>1, <2>2, <2>3
  <2>8. QED
      BY <1>1, <2>1, <2>2, <2>6, <2>7, ShowStep
<1>4. QED
    BY <1>2, <1>3

LEMMA ShowRefresh ==
    ASSUME TypeInv, ShowInv, NEW w \in Worker, Refresh(w)
    PROVE  ShowInv'
<1>1. /\ TypeOK /\ run[w].pc \in {"refresh", "refreshAgain"} /\ run[w] \in Running
      /\ UNCHANGED <<order, conf, content, settled>>
    BY WithinCode DEF Refresh, At, TypeInv, tables, histories, Within, Recording, AfterImport
<1>2. CASE row[JobOf(w)].split
  <2>1. PICK new : new = [run[w] EXCEPT !.parent = row[JobOf(w)],
                             !.pc = IF run[w].pc = "refresh" THEN "progress" ELSE "progressAgain"]
      OBVIOUS
  <2>2. run' = [run EXCEPT ![w] = new]
      BY <1>2, <2>1 DEF Refresh
  <2>3. /\ new.pc = (IF run[w].pc = "refresh" THEN "progress" ELSE "progressAgain")
        /\ new.job = run[w].job /\ new.step = run[w].step /\ new.alone = run[w].alone
        /\ new.copy = run[w].copy /\ new.left = run[w].left /\ new.refused = run[w].refused
      BY <1>1, <2>1 DEF Running
  <2>4. run'[w] = new /\ \A u \in Worker \ {w} : Unmoved(u)
      BY <1>1, <2>2, Rewritten
  <2>5. \A rows, items : StageOf(run[w], rows, items) => StageOf(new, rows, items)
      BY <1>1, <2>3 DEF StageOf, Recording, AfterImport
  <2>6. QED
      BY <1>1, <2>3, <2>4, <2>5, ShowQuiet DEF Recording, AfterImport
<1>3. CASE ~row[JobOf(w)].split
  <2>1. PICK new : new = [run[w] EXCEPT !.pc = AfterRaise(w)]
      OBVIOUS
  <2>2. run' = [run EXCEPT ![w] = new]
      BY <1>3, <2>1 DEF Refresh
  <2>3. new.pc \notin Within
      BY <1>1, <2>1 DEF Running, AfterRaise, Within, Recording, AfterImport
  <2>4. QED
      BY <1>1, <2>2, <2>3, Rewritten, ShowQuiet
<1>4. QED
    BY <1>2, <1>3

LEMMA ShowProgress ==
    ASSUME TypeInv, ShowInv, NEW w \in Worker, Progress(w)
    PROVE  ShowInv'
<1>1. /\ TypeOK /\ run[w].pc \in {"progress", "progressAgain"} /\ run[w] \in Running
      /\ UNCHANGED <<order, conf, content, settled>>
    BY WithinCode DEF Progress, At, TypeInv, histories, Within, Recording, AfterImport
<1>2. PICK new : new = [run[w] EXCEPT !.parent = NoCopy,
                           !.pc = IF run[w].pc = "progress" THEN "download" ELSE "childDone"]
    OBVIOUS
<1>3. run' = [run EXCEPT ![w] = new]
    BY <1>2 DEF Progress
<1>4. /\ new.pc = (IF run[w].pc = "progress" THEN "download" ELSE "childDone")
      /\ new.job = run[w].job /\ new.step = run[w].step /\ new.alone = run[w].alone
      /\ new.copy = run[w].copy /\ new.left = run[w].left /\ new.refused = run[w].refused
    BY <1>1, <1>2 DEF Running
<1>5. run'[w] = new /\ \A u \in Worker \ {w} : Unmoved(u)
    BY <1>1, <1>3, Rewritten
<1>6. \A rows, items : StageOf(run[w], rows, items) => StageOf(new, rows, items)
    BY <1>1, <1>4 DEF StageOf, Recording, AfterImport
<1>7. QED
    BY <1>1, <1>4, <1>5, <1>6, ShowQuiet DEF Recording, AfterImport

LEMMA ShowDownload ==
    ASSUME TypeInv, ShowInv, NEW w \in Worker, Download(w)
    PROVE  ShowInv'
<1>1. /\ TypeOK /\ run[w].pc = "download" /\ run[w] \in Running
      /\ UNCHANGED <<order, conf, content, settled>>
    BY WithinCode DEF Download, At, TypeInv, histories, Within, Recording, AfterImport
<1>2. PICK new : new = [run[w] EXCEPT !.pc = "items", !.left = Item]
    OBVIOUS
<1>3. run' = [run EXCEPT ![w] = new]
    BY <1>2 DEF Download
<1>4. /\ new.pc = "items" /\ new.left = Item
      /\ new.job = run[w].job /\ new.step = run[w].step /\ new.alone = run[w].alone
    BY <1>1, <1>2 DEF Running
<1>5. run'[w] = new /\ \A u \in Worker \ {w} : Unmoved(u)
    BY <1>1, <1>3, Rewritten
<1>6. \A rows, items : StageOf(run[w], rows, items) => StageOf(new, rows, items)
    BY <1>1, <1>4 DEF StageOf, Shown, Recording, AfterImport
<1>7. QED
    BY <1>1, <1>4, <1>5, <1>6, ShowQuiet DEF Recording

LEMMA ShowRefused ==
    ASSUME TypeInv, ShowInv, NEW w \in Worker, NEW i \in Item, RefuseItem(w, i)
    PROVE  ShowInv'
<1>1. /\ TypeOK /\ run[w].pc = "items" /\ run[w] \in Running
      /\ UNCHANGED <<order, conf, content, settled>>
    BY WithinCode DEF RefuseItem, At, TypeInv, tables, histories, Within, Recording, AfterImport
<1>2. PICK new : new = [run[w] EXCEPT !.left = run[w].left \ {i},
                                      !.refused = run[w].refused \cup {i}]
    OBVIOUS
<1>3. run' = [run EXCEPT ![w] = new]
    BY <1>2 DEF RefuseItem
<1>4. /\ new.pc = "items" /\ new.left \cup new.refused = run[w].left \cup run[w].refused \cup {i}
      /\ new.job = run[w].job /\ new.step = run[w].step /\ new.alone = run[w].alone
    BY <1>1, <1>2 DEF Running
<1>5. run'[w] = new /\ \A u \in Worker \ {w} : Unmoved(u)
    BY <1>1, <1>3, Rewritten
<1>6. \A rows, items : StageOf(run[w], rows, items) => StageOf(new, rows, items)
    BY <1>1, <1>4 DEF StageOf, Shown, Recording, AfterImport
<1>7. QED
    BY <1>1, <1>4, <1>5, <1>6, ShowQuiet DEF Recording

LEMMA ShowImported ==
    ASSUME TypeInv, ShowInv, NEW w \in Worker, ImportDone(w)
    PROVE  ShowInv'
<1>1. /\ TypeOK /\ run[w].pc = "items" /\ run[w].left = {} /\ run[w] \in Running
      /\ UNCHANGED <<order, conf, content, settled>>
    BY WithinCode DEF ImportDone, At, TypeInv, histories, Within, Recording, AfterImport
<1>2. PICK new : new = [run[w] EXCEPT !.pc = IF IsPackage(JobOf(w)) THEN "refreshAgain" ELSE "childDone"]
    OBVIOUS
<1>3. run' = [run EXCEPT ![w] = new]
    BY <1>2 DEF ImportDone, Goes
<1>4. /\ new.pc \in {"refreshAgain", "childDone"} /\ new.refused = run[w].refused
      /\ new.job = run[w].job /\ new.step = run[w].step /\ new.alone = run[w].alone
    BY <1>1, <1>2 DEF Running
<1>5. run'[w] = new /\ \A u \in Worker \ {w} : Unmoved(u)
    BY <1>1, <1>3, Rewritten
<1>6. \A rows, items : StageOf(run[w], rows, items) => StageOf(new, rows, items)
    BY <1>1, <1>4 DEF StageOf, Shown, Recording, AfterImport
<1>7. QED
    BY <1>1, <1>4, <1>5, <1>6, ShowQuiet DEF Recording

\* Where the other workers of a configuration stand when w is in it.
LEMMA ShowEnters ==
    ASSUME TypeInv, ShowInv, PackagesApart, NEW w \in Worker, Look(w),
           NEW pc \in {"create", "clear", "save"}, NEW copy \in Copy \cup {NoCopy},
           Enters(w, pc, copy),
           InDependency(w) /\ pc # "create" =>
               copy.version = run[w].job /\ copy.pos = Len(conf[CodeOf(w)]),
           run[w].step = Last(JobOf(w)) + 1 =>
               /\ Len(conf[CodeOf(w)]) = 1 /\ copy.pos = 1
               /\ copy.version = conf[CodeOf(w)][1].version
    PROVE  ShowInv'
<1>1. /\ TypeOK /\ Busy(w) /\ run[w] \in Running /\ run[w].pc \in {"find", "primary"}
      /\ UNCHANGED <<order, conf, content>> /\ CodeOf(w) \in Code
      /\ Zone(w) /\ run[w].step \in Nat /\ Last(JobOf(w)) \in Nat \ {0} /\ JobOf(w) \in Job
    BY BusyRuns, CodeIsCode DEF Look, At, TypeInv, tables, Busy
<1>2. PICK c \in Code : c = CodeOf(w)
    BY <1>1
<1>3. PICK new : new = [run[w] EXCEPT !.pc = pc, !.copy = copy, !.alone = Others(w, c) = {}]
    OBVIOUS
<1>4. run' = [u \in Worker |-> IF u = w THEN new
                               ELSE IF u \in Others(w, c) THEN [run[u] EXCEPT !.alone = FALSE]
                               ELSE run[u]]
    BY <1>2, <1>3 DEF Enters
<1>5. /\ run'[w] = new /\ new.pc = pc /\ new.copy = copy /\ new.job = run[w].job
      /\ new.step = run[w].step /\ new.alone = (Others(w, c) = {})
    BY <1>1, <1>3, <1>4 DEF Running
<1>6. \A u \in Worker \ {w} : u \in Others(w, c) <=> run[u].pc \in Within /\ CodeOf(u) = c
    BY DEF Others, Inside, At, Within, Recording, AfterImport
<1>7. ASSUME NEW u \in Worker \ {w}
      PROVE  Unmoved(u) /\ (u \in Others(w, c) => ~run'[u].alone)
  <2>1. CASE u \in Others(w, c)
    <3>1. run[u] \in Running
        BY <1>6, <2>1, WithinCode
    <3>2. PICK other : other = [run[u] EXCEPT !.alone = FALSE]
        OBVIOUS
    <3>3. /\ other.pc = run[u].pc /\ other.job = run[u].job /\ other.step = run[u].step
          /\ other.copy = run[u].copy /\ other.left = run[u].left
          /\ other.refused = run[u].refused /\ ~other.alone
        BY <3>1, <3>2 DEF Running
    <3>4. run'[u] = other
        BY <1>4, <2>1, <3>2
    <3>5. QED
        BY <3>3, <3>4 DEF Unmoved
  <2>2. CASE u \notin Others(w, c)
    <3>1. run'[u] = run[u]
        BY <1>4, <2>2
    <3>2. QED
        BY <2>2, <3>1 DEF Unmoved
  <2>3. QED
      BY <2>1, <2>2
<1>8. CodeOf(w)' = c /\ (InDependency(w)' <=> InDependency(w)) /\ JobOf(w)' = JobOf(w)
      /\ Last(JobOf(w))' = Last(JobOf(w))
    BY <1>1, <1>2, <1>5 DEF CodeOf, JobOf, InDependency, Last
<1>9. \A e \in Code : SameRows(e)
    BY <1>1, RowsUnchanged
<1>10. ASSUME run'[w].alone
       PROVE  /\ \A u \in Worker \ {w} : run[u].pc \in Within => CodeOf(u) # CodeOf(w)'
              /\ InDependency(w)' => Stage(w)'
  <2>1. \A u \in Worker \ {w} : run[u].pc \in Within => CodeOf(u) # CodeOf(w)'
      BY <1>5, <1>6, <1>8, <1>10
  <2>2. InDependency(w) => StageOf(new, conf[c], content[c])
      BY <1>2, <1>5 DEF StageOf, Recording, AfterImport
  <2>3. InDependency(w)' => Stage(w)'
      BY <1>1, <1>5, <1>8, <2>2 DEF Stage
  <2>4. QED
      BY <2>1, <2>3
<1>11. ASSUME NEW e \in Code, settled'[e] # Unsettled
       PROVE  /\ settled'[e] = settled[e]
              /\ CodeOf(w)' = e => KeepsRelease(w, e)'
  <2>1. settled' = IF InDependency(w) THEN [settled EXCEPT ![c] = Unsettled] ELSE settled
      BY <1>2 DEF Look
  <2>2. settled'[e] = settled[e] /\ (e = c => ~InDependency(w))
      BY <1>11, <2>1 DEF TypeInv, TypeOK
  <2>3. ASSUME e = c
        PROVE  run[w].step = Last(JobOf(w)) + 1
    <3>1. CASE run[w].step = 0
      <4>1. IsDependency(c)
          BY <1>11, <2>2, <2>3 DEF ShowInv, Settled, SettledAt
      <4>2. c = order[JobOf(w)].package
          BY <1>2, <3>1 DEF CodeOf
      <4>3. order \in Orders
          BY <1>1 DEF TypeOK
      <4>4. QED
          BY <1>1, <4>1, <4>2, <4>3 DEF IsDependency, PackagesApart, Last
    <3>2. CASE run[w].step # 0
        BY <1>1, <2>2, <2>3, <3>2 DEF InDependency, Zone, ZoneAt
    <3>3. QED
        BY <3>1, <3>2
  <2>4. e = c => KeepsRelease(w, e)'
      BY <1>1, <1>2, <1>5, <1>8, <2>3 DEF KeepsRelease
  <2>5. QED
      BY <1>8, <2>2, <2>4
<1>12. QED
    BY <1>1, <1>6, <1>7, <1>8, <1>9, <1>10, <1>11, ShowStep

LEMMA ShowLook ==
    ASSUME TypeInv, ShowInv, PackagesApart, NEW w \in Worker, Look(w)
    PROVE  ShowInv'
<1>1. /\ TypeOK /\ Busy(w) /\ run[w] \in Running /\ run[w].pc \in {"find", "primary"}
      /\ UNCHANGED <<order, conf, content>> /\ CodeOf(w) \in Code /\ Zone(w)
      /\ run[w].step \in Nat /\ Last(JobOf(w)) \in Nat \ {0}
    BY BusyRuns, CodeIsCode DEF Look, At, TypeInv, tables, Busy
<1>2. run[w].pc = "primary" <=> run[w].step = Last(JobOf(w)) + 1
    BY <1>1 DEF Zone, ZoneAt, InPackage, InPackagesDependency, InSingle, InPrimary
<1>3. CASE Found(CodeOf(w))
  <2>1. PICK copy : copy = Changed(w, conf[CodeOf(w)][1])
      OBVIOUS
  <2>2. Enters(w, Saves(copy), copy) /\ Saves(copy) \in {"clear", "save"}
      BY <1>3, <2>1 DEF Look, Saves
  <2>3. /\ copy.pos = 1 /\ Len(conf[CodeOf(w)]) = 1
        /\ run[w].pc = "find" => copy.version = run[w].job
        /\ run[w].pc = "primary" => copy.version = conf[CodeOf(w)][1].version
      BY <1>1, <1>3, <2>1 DEF Changed, Found, At, JobOf
  <2>4. conf[CodeOf(w)][1] \in Configuration /\ JobOf(w) \in Job
      BY <1>1, <2>3, Rows, CodeIsCode
  <2>5. copy \in Copy
    <3>1. CASE At(w, {"primary"})
        BY <2>1, <2>4, <3>1 DEF Changed, Copy, Configuration
    <3>2. CASE ~At(w, {"primary"})
      <4>1. PICK r \in Configuration : r = conf[CodeOf(w)][1]
          BY <2>4
      <4>2. PICK v \in Version : v = JobOf(w)
          BY <2>4 DEF Version
      <4>3. copy = [pos |-> 1, version |-> v, primary |-> r.primary]
          BY <2>1, <3>2, <4>1, <4>2 DEF Changed
      <4>4. QED
          BY <4>3 DEF Copy, Configuration
    <3>3. QED
        BY <3>1, <3>2
  <2>6. InDependency(w) => run[w].pc = "find"
      BY <1>1, <1>2 DEF InDependency
  <2>7. QED
      BY <1>2, <2>2, <2>3, <2>5, <2>6, ShowEnters
<1>4. CASE ~Found(CodeOf(w)) /\ run[w].pc = "find"
  <2>1. Enters(w, "create", NoCopy)
      BY <1>4 DEF Look, At
  <2>2. QED
      BY <1>2, <1>4, <2>1, ShowEnters
<1>5. CASE ~Found(CodeOf(w)) /\ run[w].pc = "primary"
  <2>1. ~InDependency(w) /\ run[w].step # 0
      BY <1>1, <1>2, <1>5 DEF InDependency
  <2>2. settled' = settled
      BY <2>1 DEF Look
  <2>3. PICK new : new = [run[w] EXCEPT !.pc = AfterSave(w)]
      OBVIOUS
  <2>4. run' = [run EXCEPT ![w] = new]
      BY <1>5, <2>3 DEF Look, Goes, At
  <2>5. new.pc \in {"actions", "done"}
      BY <1>1, <2>1, <2>3 DEF Running, AfterSave, AfterPrimary
  <2>6. run'[w].pc \notin Within /\ \A u \in Worker \ {w} : Unmoved(u)
      BY <1>1, <2>4, <2>5, Rewritten DEF Within, Recording, AfterImport
  <2>7. QED
      BY <1>1, <2>2, <2>6, ShowQuiet
<1>6. QED
    BY <1>1, <1>3, <1>4, <1>5

\* A code that a worker installs is not settled.
LEMMA InstalledUnsettled ==
    ASSUME TypeInv, ShowInv, NEW w \in Worker, run[w].pc \in Within,
           run[w].pc = "create" \/ InDependency(w)
    PROVE  settled[CodeOf(w)] = Unsettled
<1>1. run[w].step # Last(JobOf(w)) + 1 /\ CodeOf(w) \in Code
    BY WithinCode
<1>2. ~SettledAt(CodeOf(w))
    BY <1>1 DEF SettledAt, KeepsRelease
<1>3. QED
    BY <1>1, <1>2 DEF ShowInv, Settled

LEMMA ShowCreate ==
    ASSUME TypeInv, ShowInv, NEW w \in Worker, Create(w)
    PROVE  ShowInv'
<1>1. /\ TypeOK /\ run[w].pc = "create" /\ run[w].pc \in Within /\ run[w] \in Running
      /\ UNCHANGED <<order, content, settled>>
    BY WithinCode DEF Create, At, TypeInv, Within
<1>2. PICK c \in Code : c = CodeOf(w)
    BY <1>1, WithinCode
<1>3. PICK r \in Configuration : r = [version |-> FirstVersion(w), primary |-> FALSE]
  <2>1. FirstVersion(w) \in Version
      BY DEF FirstVersion, Version
  <2>2. \A v \in Version : [version |-> v, primary |-> FALSE] \in Configuration
      BY DEF Configuration
  <2>3. QED
      BY <2>1, <2>2
<1>4. /\ Len(conf[c]) \in Nat /\ Len(conf'[c]) = Len(conf[c]) + 1
      /\ \A e \in Code \ {c} : conf'[e] = conf[e]
  <2>1. conf' = [conf EXCEPT ![c] = Append(conf[c], r)]
      BY <1>2, <1>3 DEF Create
  <2>2. QED
      BY <2>1, Appended
<1>5. PICK copy : copy = [pos |-> Len(conf[c]) + 1, version |-> JobOf(w), primary |-> FALSE]
    OBVIOUS
<1>6. PICK new : new = [run[w] EXCEPT !.pc = "save", !.copy = copy]
    OBVIOUS
<1>7. run' = [run EXCEPT ![w] = new]
    BY <1>2, <1>5, <1>6 DEF Create
<1>8. /\ new.pc = "save" /\ new.copy = copy /\ new.job = run[w].job
      /\ new.step = run[w].step /\ new.alone = run[w].alone
      /\ copy.pos = Len(conf'[c]) /\ copy.version = new.job
    BY <1>1, <1>4, <1>5, <1>6 DEF Running, JobOf
<1>9. run'[w] = new /\ \A u \in Worker \ {w} : Unmoved(u)
    BY <1>1, <1>7, Rewritten
<1>10. CodeOf(w)' = CodeOf(w) /\ (InDependency(w)' <=> InDependency(w))
    BY <1>1, <1>8, <1>9 DEF CodeOf, JobOf, InDependency, Last
<1>11. \A e \in Code : CodeOf(w) = e \/ SameRows(e)
    BY <1>1, <1>2, <1>4 DEF SameRows
<1>12. Stage(w)'
  <2>1. StageOf(new, conf'[c], content'[c])
      BY <1>8 DEF StageOf, Recording, AfterImport
  <2>2. QED
      BY <1>2, <1>9, <1>10, <2>1 DEF Stage
<1>13. run'[w].alone => LoneAt(w)
    BY <1>1, <1>8, <1>9 DEF ShowInv, Lone
<1>14. \A e \in Code : settled'[e] # Unsettled => settled'[e] = settled[e] /\ e # CodeOf(w)
    BY <1>1, InstalledUnsettled
<1>15. QED
    BY <1>1, <1>9, <1>10, <1>11, <1>12, <1>13, <1>14, ShowStep DEF LoneAt

\* The flags of the other rows are cleared, their releases stay.
LEMMA ClearedVersions ==
    ASSUME TypeInv, NEW w \in Worker, ClearOthers(w), NEW c \in Code
    PROVE  SameRows(c)
<1>1. conf'[c] = [p \in DOMAIN conf[c] |->
                     IF c = CodeOf(w) /\ p = run[w].copy.pos THEN conf[c][p]
                     ELSE [conf[c][p] EXCEPT !.primary = FALSE]]
    BY DEF ClearOthers
<1>2. Len(conf'[c]) = Len(conf[c])
    BY Cleared
<1>3. ASSUME NEW p \in 1 .. Len(conf[c])
      PROVE  conf'[c][p].version = conf[c][p].version
  <2>1. p \in DOMAIN conf[c] /\ conf[c][p] \in Configuration
      BY Rows
  <2>2. PICK r : r = [conf[c][p] EXCEPT !.primary = FALSE]
      OBVIOUS
  <2>3. r.version = conf[c][p].version
      BY <2>1, <2>2 DEF Configuration
  <2>4. conf'[c][p] = conf[c][p] \/ conf'[c][p] = r
      BY <1>1, <2>1, <2>2
  <2>5. QED
      BY <2>3, <2>4
<1>4. QED
    BY <1>2, <1>3 DEF ClearOthers, SameRows

LEMMA ShowClear ==
    ASSUME TypeInv, ShowInv, NEW w \in Worker, ClearOthers(w)
    PROVE  ShowInv'
<1>1. /\ TypeOK /\ run[w].pc = "clear" /\ run[w].pc \in Within /\ run[w] \in Running
      /\ UNCHANGED <<order, content, settled>>
    BY WithinCode DEF ClearOthers, At, TypeInv, Within, histories
<1>2. PICK c \in Code : c = CodeOf(w)
    BY <1>1, WithinCode
<1>3. \A e \in Code : SameRows(e)
    BY ClearedVersions
<1>4. PICK new : new = [run[w] EXCEPT !.pc = "save"]
    OBVIOUS
<1>5. run' = [run EXCEPT ![w] = new]
    BY <1>4 DEF ClearOthers, Goes
<1>6. /\ new.pc = "save" /\ new.copy = run[w].copy /\ new.job = run[w].job
      /\ new.step = run[w].step /\ new.alone = run[w].alone
    BY <1>1, <1>4 DEF Running
<1>7. run'[w] = new /\ \A u \in Worker \ {w} : Unmoved(u)
    BY <1>1, <1>5, Rewritten
<1>8. /\ CodeOf(w)' = CodeOf(w) /\ (InDependency(w)' <=> InDependency(w))
      /\ Last(JobOf(w))' = Last(JobOf(w))
    BY <1>1, <1>6, <1>7 DEF CodeOf, JobOf, InDependency, Last
<1>9. Stage(w) => Stage(w)'
  <2>1. Len(conf'[c]) = Len(conf[c])
      BY <1>3 DEF SameRows
  <2>2. StageOf(run[w], conf[c], content[c]) => StageOf(new, conf'[c], content'[c])
      BY <1>1, <1>6, <2>1 DEF StageOf, Recording, AfterImport
  <2>3. QED
      BY <1>2, <1>7, <1>8, <2>2 DEF Stage
<1>10. run'[w].alone => LoneAt(w)
    BY <1>1, <1>6, <1>7 DEF ShowInv, Lone
<1>11. ASSUME NEW e \in Code, settled'[e] # Unsettled, CodeOf(w)' = e
       PROVE  KeepsRelease(w, e)'
  <2>1. KeepsRelease(w, e)
      BY <1>1, <1>8, <1>11 DEF ShowInv, Settled, SettledAt
  <2>2. SameRows(e)
      BY <1>3
  <2>3. QED
      BY <1>6, <1>7, <1>8, <2>1, <2>2 DEF KeepsRelease, SameRows
<1>12. QED
    BY <1>1, <1>3, <1>7, <1>8, <1>9, <1>10, <1>11, ShowStep DEF LoneAt

LEMMA SavedVersion ==
    ASSUME TypeInv, NEW w \in Worker, Save(w)
    PROVE  conf'[CodeOf(w)][run[w].copy.pos].version = run[w].copy.version
<1>1. /\ CodeOf(w) \in Code /\ run[w].copy.pos \in DOMAIN conf[CodeOf(w)]
      /\ conf \in [Code -> Seq(Configuration)]
  <2>1. CodeOf(w) \in Code /\ run[w].copy.pos \in DOMAIN conf[CodeOf(w)]
      BY Saved
  <2>2. conf \in [Code -> Seq(Configuration)]
      BY DEF TypeInv, TypeOK
  <2>3. QED
      BY <2>1, <2>2
<1>2. PICK c \in Code : c = CodeOf(w)
    BY <1>1
<1>3. PICK p \in DOMAIN conf[c] : p = run[w].copy.pos
    BY <1>1, <1>2
<1>4. PICK r : r = [version |-> run[w].copy.version, primary |-> run[w].copy.primary]
    OBVIOUS
<1>5. conf' = [conf EXCEPT ![c][p] = r]
    BY <1>2, <1>3, <1>4 DEF Save
<1>6. conf'[c] = [conf[c] EXCEPT ![p] = r]
    BY <1>1, <1>5
<1>7. conf'[c][p] = r
    BY <1>6
<1>8. QED
    BY <1>2, <1>3, <1>4, <1>7

LEMMA ShowSave ==
    ASSUME TypeInv, ShowInv, NEW w \in Worker, Save(w)
    PROVE  ShowInv'
<1>1. /\ TypeOK /\ run[w].pc = "save" /\ run[w].pc \in Within /\ run[w] \in Running
      /\ UNCHANGED <<order, content, settled>>
    BY WithinCode DEF Save, At, TypeInv, Within
<1>2. PICK c \in Code : c = CodeOf(w)
    BY <1>1, WithinCode
<1>3. /\ Len(conf[c]) \in Nat /\ run[w].copy.pos \in 1 .. Len(conf[c])
      /\ conf'[c][run[w].copy.pos].version = run[w].copy.version
      /\ \A e \in Code : /\ Len(conf'[e]) = Len(conf[e])
                         /\ \A p \in 1 .. Len(conf[e]) :
                               (e = c /\ p = run[w].copy.pos) \/ conf'[e][p] = conf[e][p]
    BY <1>2, Saved, SavedVersion, Rows
<1>4. \A e \in Code : CodeOf(w) = e \/ SameRows(e)
    BY <1>1, <1>2, <1>3 DEF SameRows
<1>5. PICK new : new = [run[w] EXCEPT !.pc = AfterSave(w), !.copy = NoCopy]
    OBVIOUS
<1>6. run' = [run EXCEPT ![w] = new]
    BY <1>5 DEF Save
<1>7. /\ new.pc = AfterSave(w) /\ new.job = run[w].job
      /\ new.step = run[w].step /\ new.alone = run[w].alone
    BY <1>1, <1>5 DEF Running
<1>8. run'[w] = new /\ \A u \in Worker \ {w} : Unmoved(u)
    BY <1>1, <1>6, Rewritten
<1>9. CodeOf(w)' = CodeOf(w) /\ (InDependency(w)' <=> InDependency(w))
    BY <1>1, <1>7, <1>8 DEF CodeOf, JobOf, InDependency, Last
<1>10. AfterSave(w) \in {"refresh", "download"} \/ AfterSave(w) \notin Within
    BY DEF AfterSave, AfterPrimary, Within, Recording, AfterImport
<1>11. new.pc \in Within => InDependency(w) /\ new.pc \in {"refresh", "download"}
    BY <1>7, <1>10 DEF AfterSave, AfterPrimary
<1>12. InDependency(w) /\ Stage(w) /\ new.pc \in {"refresh", "download"} => Stage(w)'
  <2>1. SUFFICES ASSUME Stage(w), new.pc \in {"refresh", "download"} PROVE Stage(w)'
      OBVIOUS
  <2>2. run[w].copy.version = run[w].job /\ run[w].copy.pos = Len(conf[c])
      BY <1>1, <1>2, <2>1 DEF Stage, StageOf
  <2>3. Len(conf'[c]) > 0 /\ LastVersion(conf'[c]) = new.job
      BY <1>3, <1>7, <2>2 DEF LastVersion
  <2>4. StageOf(new, conf'[c], content'[c])
      BY <2>1, <2>3 DEF StageOf, AfterImport
  <2>5. QED
      BY <1>2, <1>8, <1>9, <2>4 DEF Stage
<1>13. run'[w].alone => LoneAt(w)
    BY <1>1, <1>7, <1>8 DEF ShowInv, Lone
<1>14. ASSUME NEW e \in Code, settled'[e] # Unsettled
       PROVE  /\ settled'[e] = settled[e] /\ SameRows(e)
              /\ ~(run'[w].pc \in Within /\ CodeOf(w)' = e)
  <2>1. CASE e = c
    <3>1. KeepsRelease(w, c)
        BY <1>1, <1>2, <1>14, <2>1 DEF ShowInv, Settled, SettledAt
    <3>2. SameRows(c)
        BY <1>1, <1>3, <3>1 DEF KeepsRelease, SameRows
    <3>3. ~InDependency(w)
        BY <1>1, <3>1, WithinCode DEF KeepsRelease
    <3>4. QED
        BY <1>1, <1>8, <1>11, <2>1, <3>2, <3>3
  <2>2. CASE e # c
      BY <1>1, <1>2, <1>4, <1>9, <2>2
  <2>3. QED
      BY <2>1, <2>2
<1>15. QED
    BY <1>1, <1>4, <1>8, <1>9, <1>11, <1>12, <1>13, <1>14, ShowStep DEF LoneAt

LEMMA ShowItem ==
    ASSUME TypeInv, ShowInv, NEW w \in Worker, NEW i \in Item, ImportItem(w, i)
    PROVE  ShowInv'
<1>1. /\ TypeOK /\ run[w].pc = "items" /\ run[w].pc \in Within /\ run[w] \in Running
      /\ UNCHANGED <<order, conf, settled>> /\ InDependency(w)
    BY WithinCode DEF ImportItem, At, TypeInv, Within, Recording, histories
<1>2. PICK c \in Code : c = CodeOf(w)
    BY <1>1, WithinCode
<1>3. /\ \A e \in Code \ {c} : content'[e] = content[e]
      /\ \A k \in Item : content'[c][k] = IF k = i THEN JobOf(w) ELSE content[c][k]
  <2>1. content \in [Code -> [Item -> Job \cup {""}]]
      BY <1>1 DEF TypeOK
  <2>2. content' = [content EXCEPT ![c] = [content[c] EXCEPT ![i] = JobOf(w)]]
      BY <1>2 DEF ImportItem, Imported
  <2>3. QED
      BY <2>1, <2>2
<1>4. \A e \in Code : CodeOf(w) = e \/ SameRows(e)
    BY <1>1, <1>2, <1>3 DEF SameRows
<1>5. PICK new : new = [run[w] EXCEPT !.left = run[w].left \ {i}]
    OBVIOUS
<1>6. run' = [run EXCEPT ![w] = new]
    BY <1>5 DEF ImportItem
<1>7. /\ new.pc = "items" /\ new.job = run[w].job /\ new.step = run[w].step
      /\ new.alone = run[w].alone /\ new.left = run[w].left \ {i}
      /\ new.refused = run[w].refused
    BY <1>1, <1>5 DEF Running
<1>8. run'[w] = new /\ \A u \in Worker \ {w} : Unmoved(u)
    BY <1>1, <1>6, Rewritten
<1>9. CodeOf(w)' = CodeOf(w) /\ (InDependency(w)' <=> InDependency(w))
    BY <1>1, <1>7, <1>8 DEF CodeOf, JobOf, InDependency, Last
<1>10. Stage(w) => Stage(w)'
  <2>1. StageOf(run[w], conf[c], content[c]) => StageOf(new, conf[c], content'[c])
      BY <1>1, <1>3, <1>7 DEF StageOf, Shown, JobOf, Recording, AfterImport
  <2>2. QED
      BY <1>1, <1>2, <1>8, <1>9, <2>1 DEF Stage
<1>11. run'[w].alone => LoneAt(w)
    BY <1>1, <1>7, <1>8 DEF ShowInv, Lone
<1>12. \A e \in Code : settled'[e] # Unsettled => settled'[e] = settled[e] /\ e # CodeOf(w)
    BY <1>1, InstalledUnsettled
<1>13. QED
    BY <1>1, <1>4, <1>8, <1>9, <1>10, <1>11, <1>12, ShowStep DEF LoneAt

LEMMA ShowDone ==
    ASSUME TypeInv, ShowInv, NEW w \in Worker, ChildDone(w)
    PROVE  ShowInv'
<1>1. /\ TypeOK /\ run[w].pc = "childDone" /\ run[w].pc \in Within /\ run[w] \in Running
      /\ UNCHANGED <<order, conf, content>> /\ InDependency(w)
    BY WithinCode DEF ChildDone, At, TypeInv, Within, Recording, AfterImport
<1>2. PICK c \in Code : c = CodeOf(w)
    BY <1>1, WithinCode
<1>3. \A e \in Code : SameRows(e)
    BY <1>1, RowsUnchanged
<1>4. PICK new : new = [run[w] EXCEPT !.pc = "next", !.refused = {}, !.alone = FALSE]
    OBVIOUS
<1>5. run' = [run EXCEPT ![w] = new]
    BY <1>4 DEF ChildDone
<1>6. new.pc \notin Within
    BY <1>1, <1>4 DEF Running, Within, Recording, AfterImport
<1>7. run'[w] = new /\ \A u \in Worker \ {w} : Unmoved(u)
    BY <1>1, <1>5, Rewritten
<1>8. settled' = IF run[w].alone THEN [settled EXCEPT ![c] = run[w].refused] ELSE settled
    BY <1>2 DEF ChildDone
<1>9. ASSUME run[w].alone
      PROVE  settled'[c] # Unsettled => SettledAt(c)'
  <2>1. LoneAt(w) /\ Stage(w)
      BY <1>1, <1>9 DEF ShowInv, Lone, LoneAt
  <2>2. /\ Len(conf[c]) > 0 /\ LastVersion(conf[c]) = run[w].job
        /\ Shown(content[c], run[w].refused, run[w].job)
      BY <1>1, <1>2, <2>1 DEF Stage, StageOf, Recording, AfterImport
  <2>3. settled'[c] = run[w].refused
      BY <1>8, <1>9 DEF TypeInv, TypeOK
  <2>4. IsDependency(c)'
    <3>1. IsDependency(c)
      <4>1. JobOf(w) \in Job /\ run[w].step \in 1 .. Last(JobOf(w))
          BY <1>1, WithinCode, CodeIsCode DEF InDependency
      <4>2. order[JobOf(w)].deps[run[w].step] = c
          BY <1>1, <1>2, <4>1 DEF CodeOf, InDependency
      <4>3. QED
          BY <4>1, <4>2 DEF IsDependency
    <3>2. QED
        BY <1>1, <3>1 DEF IsDependency, Last
  <2>5. ASSUME NEW u \in Worker, run'[u].pc \in Within
        PROVE  CodeOf(u)' # c
    <3>1. u # w /\ run[u].pc \in Within /\ CodeOf(u)' = CodeOf(u)
        BY <1>1, <1>6, <1>7, <2>5, UnmovedCode DEF Unmoved
    <3>2. QED
        BY <1>2, <2>1, <3>1 DEF LoneAt
  <2>6. QED
      BY <1>1, <2>2, <2>3, <2>4, <2>5 DEF SettledAt
<1>10. ASSUME NEW e \in Code, settled'[e] # Unsettled
       PROVE  settled'[e] = settled[e] \/ SettledAt(e)'
    BY <1>8, <1>9, <1>10 DEF TypeInv, TypeOK
<1>11. QED
    BY <1>1, <1>3, <1>6, <1>7, <1>10, ShowStep

LEMMA ShowUnchanged ==
    ASSUME ShowInv, UNCHANGED <<order, conf, content, settled, run>>
    PROVE  ShowInv'
<1>1. /\ \A w \in Worker : /\ CodeOf(w)' = CodeOf(w) /\ (InDependency(w)' <=> InDependency(w))
                           /\ (Stage(w)' <=> Stage(w))
    BY DEF CodeOf, JobOf, Last, InDependency, Stage
<1>2. Lone'
    BY <1>1 DEF ShowInv, Lone, LoneAt
<1>3. ASSUME NEW c \in Code, SettledAt(c)
      PROVE  SettledAt(c)'
    BY <1>1, <1>3 DEF SettledAt, IsDependency, KeepsRelease, JobOf, Last
<1>4. QED
    BY <1>2, <1>3 DEF ShowInv, Settled

\* The steps that lead out of the configurations, or do not come near them.
LEMMA ShowElsewhere ==
    ASSUME TypeInv, ShowInv, NEW w \in Worker,
           \/ \E j \in Job : Take(w, j)
           \/ BeforeStart(w) \/ Get(w) \/ OnSuccess(w) \/ OnFailure(w) \/ CancelRest(w)
           \/ Child(w) \/ Split(w) \/ NextDependency(w) \/ Complete(w) \/ Actions(w)
           \/ PackageDone(w) \/ LoseChild(w) \/ Fails(w)
    PROVE  ShowInv'
<1>1. /\ TypeOK /\ UNCHANGED <<order, conf, content, settled>>
    BY DEF TypeInv, Take, BeforeStart, Get, OnSuccess, OnFailure, Hook, CancelRest, Child, Split,
           NextDependency, Complete, Actions, PackageDone, LoseChild, Fails, Spoils, tables, histories
<1>2. \E new : run' = [run EXCEPT ![w] = new] /\ new.pc \notin Within
  <2>1. ASSUME NEW j \in Job, Take(w, j)
        PROVE  \E new : run' = [run EXCEPT ![w] = new] /\ new.pc = "start"
    <3>1. PICK hook, step : /\ hook = [row[j] EXCEPT !.status = "P"]
                            /\ step = IF IsPackage(j) THEN 0 ELSE 1
        OBVIOUS
    <3>2. PICK new : new = [pc |-> "start", job |-> j, delivery |-> begun[j] + 1,
                            step |-> step, hook |-> hook, body |-> NoCopy,
                            parent |-> NoCopy, copy |-> NoCopy, left |-> {}, refused |-> {},
                            alone |-> FALSE]
        OBVIOUS
    <3>3. run' = [run EXCEPT ![w] = new]
        BY <2>1, <3>1, <3>2 DEF Take
    <3>4. new.pc = "start"
        BY <3>2
    <3>5. QED
        BY <3>3, <3>4
  <2>2. ASSUME ~(\E j \in Job : Take(w, j))
        PROVE  Busy(w)
      BY <2>2 DEF BeforeStart, Get, OnSuccess, OnFailure, CancelRest, Child, Split, NextDependency,
                  Complete, Actions, PackageDone, LoseChild, Fails, At, Busy
  <2>3. Busy(w) => run[w] \in Running
      BY <1>1, BusyRuns
  <2>4. ASSUME NEW pc, Goes(w, pc), run[w] \in Running,
               pc \in {"get", "failure", "find", "done", "success", "cancel"}
        PROVE  \E new : run' = [run EXCEPT ![w] = new] /\ new.pc \notin Within
    <3>1. PICK new : new = [run[w] EXCEPT !.pc = pc]
        OBVIOUS
    <3>2. run' = [run EXCEPT ![w] = new]
        BY <2>4, <3>1 DEF Goes
    <3>3. new.pc = pc
        BY <2>4, <3>1 DEF Running
    <3>4. QED
        BY <2>4, <3>2, <3>3 DEF Within, Recording, AfterImport
  <2>5. CASE BeforeStart(w) \/ CancelRest(w) \/ Child(w) \/ Actions(w) \/ PackageDone(w) \/ Fails(w)
    <3>1. Busy(w)
        BY <2>5 DEF BeforeStart, CancelRest, Child, Actions, PackageDone, Fails, At, Busy
    <3>2. \E pc \in {"get", "failure", "find", "done", "success", "cancel"} : Goes(w, pc)
        BY <2>5 DEF BeforeStart, CancelRest, Child, Actions, PackageDone, Fails, AfterRaise
    <3>3. QED
        BY <2>3, <2>4, <3>1, <3>2
  <2>6. CASE OnSuccess(w) \/ OnFailure(w) \/ LoseChild(w)
    <3>1. run' = [run EXCEPT ![w] = Idle]
        BY <2>6 DEF OnSuccess, OnFailure, LoseChild, Hook
    <3>2. Idle.pc \notin Within
        BY DEF Idle, Within, Recording, AfterImport
    <3>3. QED
        BY <3>1, <3>2
  <2>7. CASE Get(w)
    <3>1. PICK new : new = [run[w] EXCEPT !.pc = IF IsPackage(JobOf(w)) THEN "find" ELSE "child",
                                          !.body = row[JobOf(w)]]
        OBVIOUS
    <3>2. run' = [run EXCEPT ![w] = new] /\ Busy(w)
        BY <2>7, <3>1 DEF Get, At, Busy
    <3>3. new.pc \notin Within
        BY <2>3, <3>1, <3>2 DEF Running, Within, Recording, AfterImport
    <3>4. QED
        BY <3>2, <3>3
  <2>8. CASE Split(w)
    <3>1. PICK new : new = [run[w] EXCEPT !.pc = "child", !.step = 1, !.body = SplitOptions(w)]
        OBVIOUS
    <3>2. run' = [run EXCEPT ![w] = new] /\ Busy(w)
        BY <2>8, <3>1 DEF Split, At, Busy
    <3>3. new.pc \notin Within
        BY <2>3, <3>1, <3>2 DEF Running, Within, Recording, AfterImport
    <3>4. QED
        BY <3>2, <3>3
  <2>9. CASE NextDependency(w)
    <3>1. PICK new :
             new = IF ~IsPackage(JobOf(w)) THEN [run[w] EXCEPT !.pc = "success"]
                   ELSE IF run[w].step = Last(JobOf(w)) THEN [run[w] EXCEPT !.pc = "complete"]
                   ELSE [run[w] EXCEPT !.pc = "child", !.step = run[w].step + 1]
        OBVIOUS
    <3>2. run' = [run EXCEPT ![w] = new] /\ Busy(w)
        BY <2>9, <3>1 DEF NextDependency, At, Busy
    <3>3. new.pc \notin Within
        BY <2>3, <3>1, <3>2 DEF Running, Within, Recording, AfterImport
    <3>4. QED
        BY <3>2, <3>3
  <2>10. CASE Complete(w)
    <3>1. PICK j : j = JobOf(w)
        OBVIOUS
    <3>2. PICK new : new = [run[w] EXCEPT !.step = Last(j) + 1,
                        !.pc = IF order[j].primary = NoCode THEN AfterPrimary(j) ELSE "primary"]
        OBVIOUS
    <3>3. run' = [run EXCEPT ![w] = new] /\ Busy(w)
        BY <2>10, <3>1, <3>2 DEF Complete, At, Busy
    <3>4. new.pc \notin Within
        BY <2>3, <3>2, <3>3 DEF Running, AfterPrimary, Within, Recording, AfterImport
    <3>5. QED
        BY <3>3, <3>4
  <2>11. QED
      BY <2>1, <2>5, <2>6, <2>7, <2>8, <2>9, <2>10 DEF Within, Recording, AfterImport
<1>3. run'[w].pc \notin Within /\ \A u \in Worker \ {w} : Unmoved(u)
    BY <1>1, <1>2, Rewritten
<1>4. QED
    BY <1>1, <1>3, ShowQuiet

LEMMA ShowKept ==
    ASSUME TypeInv, ShowInv, PackagesApart, [Next]_vars
    PROVE  ShowInv'
<1>1. CASE UNCHANGED vars \/ \E j \in Job : Request(j)
    BY <1>1, ShowUnchanged DEF vars, Request, histories
<1>2. ASSUME NEW w \in Worker, Work(w)
      PROVE  ShowInv'
    BY <1>2, ShowElsewhere, ShowLook, ShowCreate, ShowClear, ShowSave, ShowRefresh, ShowProgress,
       ShowDone, ShowDownload, ShowImported, ShowItem DEF Work
<1>3. ASSUME NEW w \in Worker, Disturb(w)
      PROVE  ShowInv'
  <2>1. CASE Redeliver(w)
      BY <2>1, ShowUnchanged DEF Redeliver, tables
  <2>2. QED
      BY <1>3, <2>1, ShowElsewhere, ShowRefused DEF Disturb
<1>4. QED
    BY <1>1, <1>2, <1>3 DEF Next

\* When packages and configurations have different codes, the release that is
\* recorded after an undisturbed installation is the one the items are from,
\* whatever other installations, redeliveries and primary modules do later
\* without installing the configuration again.
THEOREM ReleaseIsShown == PackagesApart /\ Spec => []SettledShowsContent
<1>1. Init => TypeInv /\ ShowInv
  <2>1. ASSUME Init
        PROVE  ShowInv
    <3>1. \A w \in Worker : run[w].pc = "idle"
        BY <2>1 DEF Init, Idle
    <3>2. \A c \in Code : settled[c] = Unsettled
        BY <2>1 DEF Init
    <3>3. QED
        BY <3>1, <3>2 DEF ShowInv, Lone, Settled, Within, Recording, AfterImport
  <2>2. QED
      BY <2>1, InitTyped
<1>2. PackagesApart /\ TypeInv /\ ShowInv /\ [Next]_vars => TypeInv' /\ ShowInv'
    BY TypeInvKept, ShowKept
<1>3. ShowInv => SettledShowsContent
    BY DEF ShowInv, Settled, SettledAt, Shown, LastVersion, SettledShowsContent
<1>4. PackagesApart => []PackagesApart
  <2>1. PackagesApart => PackagesApart'
      BY DEF PackagesApart
  <2>2. QED
      BY <2>1, PTL
<1>5. QED
    BY <1>1, <1>2, <1>3, <1>4, PTL DEF Spec
=============================================================================
