----------------------- MODULE TransactionImport_proofs -----------------------
(***************************************************************************)
(* Proofs about TransactionImport and the booking under it, for any file,  *)
(* any number of requests beside the import, and any number of lost        *)
(* workers: twins and second schedules come from bookings that overlapped, *)
(* an error sticks to its row, what is reported as booked is there, and an *)
(* import with no requests beside it implements BookingPromise.            *)
(***************************************************************************)
EXTENDS TransactionImport, FiniteSetTheorems, TLAPS

-----------------------------------------------------------------------------
(* What a process holds *)

ViewerOK(p) ==
    /\ p.pc \in {"idle", "loaded", "ready"}
    /\ p.pc = "loaded" \/ (p.pc = "ready" /\ p.mode = "rebook") =>
          p.num \in Number /\ p.copy \in Row

ImporterOK(p) ==
    /\ p.pc \notin {"loaded", "ready"}
    /\ p.pc \in {"insert", "base", "finish"} => p.num \in Number
    /\ p.dead \subseteq p.exist

BookingTyped ==
    /\ trn \in [Number -> Row \cup {NoRow}]
    /\ sequence \in 0 .. MaxNum
    /\ schedules \in Nat
    /\ proc \in [Booker -> Proc]
    /\ views \in 0 .. MaxViews
    /\ stale \in [Booker -> BOOLEAN]
    /\ twinned \subseteq Code
    /\ crowded \in BOOLEAN

ImportTyped ==
    /\ file \in Files
    /\ settings \in ImportReactions
    /\ job \in {"queued", "running", "ended", "lost"}
    /\ line \in 1 .. Rows + 1
    /\ phase \in {"row", "book", "booking", "onerror", "errbooking"}
    /\ next \in Nat \ {0}
    /\ status \in [Line -> {"init", "skip", "success", "error"}]
    /\ faults \in 0 .. MaxFaults
    /\ broken \subseteq Line
    /\ phase # "row" => line \in Line

ProcessesOK == ImporterOK(proc[Importer]) /\ \A v \in Viewer : ViewerOK(proc[v])

TypeInv == BookingTyped /\ ImportTyped /\ ProcessesOK

LEMMA TypeInvTypes == TypeInv => TypeOK
BY DEF TypeInv, BookingTyped, ImportTyped, TypeOK

-----------------------------------------------------------------------------
(* The steps, one process at a time *)

LEMMA BookerStep ==
    ASSUME proc \in [Booker -> Proc], ProcessesOK, NEW b \in Booker, NEW p \in Proc,
           proc' = [proc EXCEPT ![b] = p],
           IF b = Importer THEN ImporterOK(p) ELSE ViewerOK(p)
    PROVE  /\ proc' \in [Booker -> Proc] /\ ProcessesOK'
           /\ proc'[b] = p /\ \A x \in Booker \ {b} : proc'[x] = proc[x]
<1>1. /\ proc' \in [Booker -> Proc] /\ proc'[b] = p
      /\ \A x \in Booker \ {b} : proc'[x] = proc[x]
    OBVIOUS
<1>2. Importer \in Booker /\ \A v \in Viewer : v \in Booker /\ v # Importer
    BY BookersAssumption DEF Booker
<1>3. ImporterOK(proc'[Importer])
    BY <1>1, <1>2 DEF ProcessesOK
<1>4. \A v \in Viewer : ViewerOK(proc'[v])
    BY <1>1, <1>2 DEF ProcessesOK
<1>5. QED
    BY <1>1, <1>3, <1>4 DEF ProcessesOK

LEMMA IdleIsProc == IdleProc \in Proc /\ IdleProc.pc = "idle" /\ ViewerOK(IdleProc) /\ ImporterOK(IdleProc)
<1>1. IdleProc \in Proc
    BY DEF IdleProc, Proc, Reaction
<1>2. IdleProc.pc = "idle" /\ IdleProc.dead = IdleProc.exist
    BY DEF IdleProc
<1>3. QED
    BY <1>1, <1>2 DEF ViewerOK, ImporterOK

LEMMA StaleTyped ==
    ASSUME stale \in [Booker -> BOOLEAN], NEW b \in Booker,
           TouchOthers(b) \/ Fresh(b) \/ UNCHANGED stale
    PROVE  stale' \in [Booker -> BOOLEAN]
BY DEF TouchOthers, Fresh

LEMMA TwinnedTyped ==
    ASSUME twinned \subseteq Code, NEW b, NEW c \in Code \cup {NoCode}, TwinnedBy(b, c)
    PROVE  /\ twinned' \subseteq Code /\ twinned \subseteq twinned'
           /\ stale[b] /\ c # NoCode => c \in twinned'
BY DEF TwinnedBy

LEMMA MarkedRow ==
    ASSUME NEW row \in Row
    PROVE  Marked(row) \in Row /\ Marked(row).code = NoCode /\ Marked(row).deleted
BY DEF Marked, Row

LEMMA MarkedRows ==
    ASSUME NEW tbl \in [Number -> Row \cup {NoRow}], NEW nums \in SUBSET Number,
           NEW dead \in SUBSET nums, \A n \in nums \ dead : tbl[n] # NoRow
    PROVE  /\ AllMarked(tbl, nums, dead) \in [Number -> Row \cup {NoRow}]
           /\ \A n \in Number \ nums : AllMarked(tbl, nums, dead)[n] = tbl[n]
           /\ \A n \in nums : \A c \in Code : n \notin Owners(AllMarked(tbl, nums, dead), c)
<1>1. PICK new : new = AllMarked(tbl, nums, dead)
    OBVIOUS
<1>2. \A n \in Number : new[n] = IF n \in dead THEN NoRow ELSE IF n \in nums THEN Marked(tbl[n]) ELSE tbl[n]
    BY <1>1 DEF AllMarked
<1>3. \A n \in nums \ dead : Marked(tbl[n]) \in Row /\ Marked(tbl[n]).code = NoCode
    BY MarkedRow
<1>4. new \in [Number -> Row \cup {NoRow}]
  <2>1. new = [n \in Number |-> new[n]]
      BY <1>1 DEF AllMarked
  <2>2. \A n \in Number : new[n] \in Row \cup {NoRow}
      BY <1>2, <1>3
  <2>3. QED
      BY <2>1, <2>2
<1>5. \A n \in nums : new[n] = NoRow \/ new[n].code = NoCode
    BY <1>2, <1>3
<1>6. \A n \in nums : \A c \in Code : n \notin Owners(new, c)
    BY <1>5, NoValuesAssumption DEF Owners
<1>7. QED
    BY <1>1, <1>2, <1>4, <1>6

LEMMA MarkedGone ==
    ASSUME NEW tbl, NEW nums \in SUBSET Number,
           NEW dead \in SUBSET nums, \A n \in nums \ dead : tbl[n] \in Row,
           NEW new, new = AllMarked(tbl, nums, dead), NEW n \in nums
    PROVE  ~Live(new, n)
<1>1. new[n] = IF n \in dead THEN NoRow ELSE Marked(tbl[n])
    BY DEF AllMarked
<1>2. n \notin dead => Marked(tbl[n]).deleted
    BY MarkedRow
<1>3. QED
    BY <1>1, <1>2 DEF Live

LEMMA VerdictTyped ==
    ASSUME NEW mode, NEW reaction, NEW c, NEW taken
    PROVE  Verdict(mode, reaction, c, taken) \in
               {"unset", "skip", "create", "update", "without", "overwrite", "raise"}
BY DEF Verdict

LEMMA OwnersTyped ==
    ASSUME NEW tbl, NEW c
    PROVE  Owners(tbl, c) \in SUBSET Number
BY DEF Owners

LEMMA ReactedTyped ==
    ASSUME NEW mode, NEW n \in Nat
    PROVE  /\ Reacted(mode, n) \in Nat
           /\ ScheduleReaction \in {"clear_write", "clear_write_or_skip", "clear"} /\ n <= 1
                 => Reacted(mode, n) <= 1
BY ReactionsAssumption DEF Reacted, ScheduleReactions

LEMMA ViewLoadStep ==
    ASSUME TypeInv, NEW v \in Viewer, NEW n \in Number, NEW mode \in {"rebook", "delete"},
           ViewLoad(v, n, mode), UNCHANGED importVars
    PROVE  TypeInv'
<1>1. PICK p : p = [IdleProc EXCEPT !.pc = "loaded", !.mode = mode, !.num = n, !.copy = trn[n]]
    OBVIOUS
<1>2. trn[n] \in Row /\ BookingTyped /\ ProcessesOK /\ v \in Booker /\ v # Importer
    BY BookersAssumption DEF TypeInv, BookingTyped, ViewLoad, Exists, Booker
<1>3. p \in Proc /\ p.pc = "loaded" /\ p.num = n /\ p.copy = trn[n]
    BY <1>1, <1>2, IdleIsProc DEF Proc
<1>4. proc' = [proc EXCEPT ![v] = p] /\ Fresh(v) /\ views < MaxViews /\ views' = views + 1
    BY <1>1 DEF ViewLoad, ViewStarts
<1>5. proc' \in [Booker -> Proc] /\ ProcessesOK'
    BY <1>2, <1>3, <1>4, BookerStep DEF BookingTyped, ViewerOK
<1>6. views' \in 0 .. MaxViews
    BY <1>2, <1>4, BoundsAssumption DEF BookingTyped
<1>7. stale' \in [Booker -> BOOLEAN]
    BY <1>2, <1>4, StaleTyped DEF BookingTyped
<1>8. QED
    BY <1>2, <1>5, <1>6, <1>7 DEF TypeInv, BookingTyped, ImportTyped, importVars, ViewLoad, ViewStarts

LEMMA ViewBookStep ==
    ASSUME TypeInv, NEW v \in Viewer, NEW c \in Code \cup {NoCode}, NEW reaction \in ViewReactions,
           NEW pending \in BOOLEAN, ViewBook(v, c, reaction, pending), UNCHANGED importVars
    PROVE  TypeInv'
<1>1. PICK owners : owners = IF c = NoCode THEN {} ELSE Owners(trn, c)
    OBVIOUS
<1>2. PICK unique : unique = Verdict("book", reaction, c, owners # {})
    OBVIOUS
<1>3. PICK kind \in {"pending", "plain"} : kind = IF pending THEN "pending" ELSE "plain"
    OBVIOUS
<1>4. PICK dead : dead = Dead(owners)
    OBVIOUS
<1>5. PICK p : p = [IdleProc EXCEPT !.pc = "ready", !.code = c, !.reaction = reaction,
                                    !.kind = kind, !.unique = unique,
                                    !.exist = owners, !.dead = dead]
    OBVIOUS
<1>6. BookingTyped /\ ProcessesOK /\ v \in Booker /\ v # Importer
    BY BookersAssumption DEF TypeInv, Booker
<1>7. owners \in SUBSET Number /\ dead \in SUBSET Number /\ reaction \in Reaction
      /\ unique \in {"unset", "skip", "create", "update", "without", "overwrite", "raise"}
    BY <1>1, <1>2, <1>4, OwnersTyped, VerdictTyped, ReactionsAssumption DEF Dead
<1>8. p \in Proc /\ p.pc = "ready" /\ p.mode = "book"
  <2>1. p = [pc |-> "ready", mode |-> "book", code |-> c, reaction |-> reaction,
             kind |-> kind, unique |-> unique, errors |-> FALSE, num |-> NoNum,
             exist |-> owners, dead |-> dead, copy |-> NoRow]
      BY <1>5 DEF IdleProc
  <2>2. QED
      BY <1>3, <1>7, <2>1 DEF Proc
<1>9. proc' = [proc EXCEPT ![v] = p] /\ Fresh(v) /\ views < MaxViews /\ views' = views + 1
    BY <1>1, <1>2, <1>3, <1>4, <1>5 DEF ViewBook, ViewStarts
<1>10. proc' \in [Booker -> Proc] /\ ProcessesOK'
    BY <1>6, <1>8, <1>9, BookerStep DEF BookingTyped, ViewerOK
<1>11. views' \in 0 .. MaxViews
    BY <1>6, <1>9, BoundsAssumption DEF BookingTyped
<1>12. stale' \in [Booker -> BOOLEAN]
    BY <1>6, <1>9, StaleTyped DEF BookingTyped
<1>13. QED
    BY <1>6, <1>10, <1>11, <1>12 DEF TypeInv, BookingTyped, ImportTyped, importVars, ViewBook, ViewStarts

LEMMA ViewRebookStep ==
    ASSUME TypeInv, NEW v \in Viewer, NEW c \in Code \cup {NoCode}, NEW reaction \in ViewReactions,
           NEW pending \in BOOLEAN, ViewRebook(v, c, reaction, pending), UNCHANGED importVars
    PROVE  TypeInv'
<1>1. PICK others : others = IF c = NoCode THEN {} ELSE Owners(trn, c) \ {proc[v].num}
    OBVIOUS
<1>2. PICK unique : unique = Verdict("rebook", reaction, c, others # {})
    OBVIOUS
<1>3. PICK kind \in {"pending", "plain"} : kind = IF pending THEN "pending" ELSE "plain"
    OBVIOUS
<1>4. PICK dead : dead = Dead(others)
    OBVIOUS
<1>5. PICK p : p = [proc[v] EXCEPT !.pc = "ready", !.code = c, !.reaction = reaction,
                                   !.kind = kind, !.unique = unique,
                                   !.exist = others, !.dead = dead]
    OBVIOUS
<1>6. BookingTyped /\ ProcessesOK /\ v \in Booker /\ v # Importer /\ proc[v] \in Proc
      /\ proc[v].num \in Number /\ proc[v].copy \in Row /\ proc[v].mode = "rebook"
    BY BookersAssumption DEF TypeInv, Booker, BookingTyped, ProcessesOK, ViewerOK, ViewRebook
<1>7. others \in SUBSET Number /\ dead \in SUBSET Number /\ reaction \in Reaction
      /\ unique \in {"unset", "skip", "create", "update", "without", "overwrite", "raise"}
    BY <1>1, <1>2, <1>4, OwnersTyped, VerdictTyped, ReactionsAssumption DEF Dead
<1>8. p \in Proc /\ p.pc = "ready" /\ p.num \in Number /\ p.copy \in Row
  <2>1. PICK q : q = proc[v]
      OBVIOUS
  <2>2. q \in Proc /\ q.mode = "rebook" /\ q.num \in Number /\ q.copy \in Row
      BY <1>6, <2>1
  <2>3. p = [q EXCEPT !.pc = "ready", !.code = c, !.reaction = reaction, !.kind = kind,
                      !.unique = unique, !.exist = others, !.dead = dead]
      BY <1>5, <2>1
  <2>4. /\ kind \in {"plain", "pending", "procedure"}
        /\ unique \in {"unset", "skip", "create", "update", "without", "overwrite", "raise",
                      "booked", "failed"}
      BY <1>3, <1>7
  <2>5. p \in Proc
    <3>1. PICK p1 : p1 = [q EXCEPT !.pc = "ready", !.code = c, !.reaction = reaction,
                                   !.exist = others, !.dead = dead]
        OBVIOUS
    <3>2. others \in SUBSET Number /\ dead \in SUBSET Number /\ reaction \in Reaction
        BY <1>7
    <3>3. p1 \in Proc
        BY <2>2, <3>1, <3>2, Zenon DEF Proc
    <3>4. PICK p2 : p2 = [p1 EXCEPT !.kind = kind]
        OBVIOUS
    <3>5. p2 \in Proc
        BY <2>4, <3>3, <3>4 DEF Proc
    <3>6. p = [p2 EXCEPT !.unique = unique]
        BY <2>3, <3>1, <3>4, Zenon
    <3>7. QED
        BY <2>4, <3>5, <3>6 DEF Proc
  <2>6. p.pc = "ready" /\ p.num = q.num /\ p.copy = q.copy
      BY <2>2, <2>3, Zenon DEF Proc
  <2>7. QED
      BY <2>2, <2>5, <2>6
<1>9. proc' = [proc EXCEPT ![v] = p] /\ Fresh(v)
  <2>1. proc' = [proc EXCEPT ![v].pc = "ready", ![v].code = c, ![v].reaction = reaction,
                             ![v].kind = kind, ![v].unique = unique,
                             ![v].exist = others, ![v].dead = dead]
      BY <1>1, <1>2, <1>3, <1>4, Zenon DEF ViewRebook
  <2>2. proc' = [proc EXCEPT ![v] = p]
      BY <1>5, <2>1, Zenon
  <2>3. QED
      BY <2>2 DEF ViewRebook
<1>10. proc' \in [Booker -> Proc] /\ ProcessesOK'
    BY <1>6, <1>8, <1>9, BookerStep DEF BookingTyped, ViewerOK
<1>11. stale' \in [Booker -> BOOLEAN]
    BY <1>6, <1>9, StaleTyped DEF BookingTyped
<1>12. QED
    BY <1>6, <1>10, <1>11 DEF TypeInv, BookingTyped, ImportTyped, importVars, ViewRebook

LEMMA ViewEndsStep ==
    ASSUME TypeInv, NEW v \in Viewer, ViewEnds(v)
    PROVE  /\ proc' \in [Booker -> Proc] /\ ProcessesOK'
           /\ proc'[v] = IdleProc /\ \A x \in Booker \ {v} : proc'[x] = proc[x]
BY BookerStep, IdleIsProc, BookersAssumption DEF TypeInv, BookingTyped, Booker, ViewEnds

LEMMA ViewRollbackStep ==
    ASSUME TypeInv, NEW v \in Viewer, ViewRollback(v), UNCHANGED importVars
    PROVE  TypeInv'
BY ViewEndsStep DEF TypeInv, BookingTyped, ImportTyped, importVars, ViewRollback

\* What a request that commits leaves.
LEMMA ViewEffect ==
    ASSUME TypeInv, NEW v \in Viewer, NEW n \in Number, NEW row \in Row, ViewWrites(v, n, row)
    PROVE  /\ trn' \in [Number -> Row \cup {NoRow}] /\ trn'[n] = row
           /\ \A m \in Number \ {n} :
                 IF m \in Dropped(proc[v]) THEN \A c \in Code : m \notin Owners(trn', c)
                 ELSE trn'[m] = trn[m]
<1>1. PICK nums, dead : nums = Dropped(proc[v]) /\ dead = Dropped(proc[v]) \cap proc[v].dead
    OBVIOUS
<1>2. PICK new : new = AllMarked(trn, nums, dead)
    OBVIOUS
<1>3. proc[v] \in Proc /\ trn \in [Number -> Row \cup {NoRow}]
    BY DEF TypeInv, BookingTyped, Booker
<1>4. nums \in SUBSET Number /\ dead \in SUBSET nums
    BY <1>1, <1>3 DEF Dropped, Proc
<1>5. \A m \in nums \ dead : trn[m] # NoRow
    BY <1>1 DEF ViewWrites, Exists
<1>6. /\ new \in [Number -> Row \cup {NoRow}]
      /\ \A m \in Number \ nums : new[m] = trn[m]
      /\ \A m \in nums : \A c \in Code : m \notin Owners(new, c)
    BY <1>2, <1>3, <1>4, <1>5, MarkedRows
<1>7. trn' = [new EXCEPT ![n] = row]
    BY <1>1, <1>2 DEF ViewWrites
<1>8. \A m \in Number \ {n} : trn'[m] = new[m]
    BY <1>6, <1>7
<1>9. \A m \in Number \ {n} : \A c \in Code : m \in Owners(trn', c) <=> m \in Owners(new, c)
    BY <1>8 DEF Owners
<1>10. QED
    BY <1>1, <1>6, <1>7, <1>8, <1>9

LEMMA RowOfTyped ==
    ASSUME NEW p \in Proc, NEW deleted \in BOOLEAN
    PROVE  RowOf(p, deleted) \in Row /\ WrittenCode(p) \in Code \cup {NoCode}
BY DEF RowOf, Row, WrittenCode, Proc

LEMMA ViewWritesStep ==
    ASSUME TypeInv, NEW v \in Viewer, NEW n \in Number, NEW row \in Row, ViewWrites(v, n, row),
           sequence' \in 0 .. MaxNum, UNCHANGED importVars
    PROVE  TypeInv'
<1>1. trn' \in [Number -> Row \cup {NoRow}]
    BY ViewEffect
<1>2. proc' \in [Booker -> Proc] /\ ProcessesOK'
    BY ViewEndsStep DEF ViewWrites
<1>3. schedules' \in Nat
    BY ReactedTyped DEF ViewWrites, TypeInv, BookingTyped
<1>4. stale' \in [Booker -> BOOLEAN]
    BY StaleTyped DEF ViewWrites, TypeInv, BookingTyped, Booker
<1>5. twinned' \subseteq Code
  <2>1. row.code \in Code \cup {NoCode}
      BY DEF Row
  <2>2. QED
      BY <2>1, TwinnedTyped DEF ViewWrites, TypeInv, BookingTyped
<1>6. crowded' \in BOOLEAN /\ UNCHANGED views
    BY DEF ViewWrites
<1>7. QED
    BY <1>1, <1>2, <1>3, <1>4, <1>5, <1>6 DEF TypeInv, BookingTyped, ImportTyped, importVars

LEMMA ViewCommitStep ==
    ASSUME TypeInv, NEW v \in Viewer, ViewCommitBook(v) \/ ViewCommitRebook(v), UNCHANGED importVars
    PROVE  TypeInv'
<1>1. proc[v] \in Proc
    BY DEF TypeInv, BookingTyped, Booker
<1>2. CASE ViewCommitBook(v)
  <2>1. RowOf(proc[v], FALSE) \in Row
      BY <1>1, RowOfTyped
  <2>2. PICK n \in Number : n = sequence + 1 /\ sequence' = n /\ ViewWrites(v, n, RowOf(proc[v], FALSE))
      BY <1>2 DEF ViewCommitBook
  <2>3. sequence' \in 0 .. MaxNum
      BY <2>2, BoundsAssumption DEF Number
  <2>4. QED
      BY <2>1, <2>2, <2>3, ViewWritesStep
<1>3. CASE ViewCommitRebook(v)
  <2>1. proc[v].num \in Number /\ proc[v].copy \in Row
      BY <1>3 DEF TypeInv, ProcessesOK, ViewerOK, ViewCommitRebook, ViewWrites
  <2>2. RowOf(proc[v], proc[v].copy.deleted) \in Row
      BY <1>1, <2>1, RowOfTyped DEF Row
  <2>3. ViewWrites(v, proc[v].num, RowOf(proc[v], proc[v].copy.deleted)) /\ UNCHANGED sequence
      BY <1>3 DEF ViewCommitRebook
  <2>4. QED
      BY <2>1, <2>2, <2>3, ViewWritesStep DEF TypeInv, BookingTyped
<1>4. QED
    BY <1>2, <1>3

\* What a request that deletes leaves.
LEMMA DeleteEffect ==
    ASSUME TypeInv, NEW v \in Viewer, ViewDelete(v)
    PROVE  /\ proc[v].num \in Number /\ trn' \in [Number -> Row \cup {NoRow}]
           /\ \A c \in Code : proc[v].num \notin Owners(trn', c)
           /\ \A m \in Number \ {proc[v].num} : trn'[m] = trn[m]
<1>1. PICK n : n = proc[v].num
    OBVIOUS
<1>2. n \in Number /\ trn \in [Number -> Row \cup {NoRow}]
    BY <1>1 DEF TypeInv, BookingTyped, ProcessesOK, ViewerOK, ViewDelete
<1>3. PICK new : new = IF proc[v].copy.deleted \/ trn[n] = NoRow THEN NoRow ELSE Marked(trn[n])
    OBVIOUS
<1>4. new \in Row \cup {NoRow} /\ (new = NoRow \/ new.code = NoCode)
    BY <1>2, <1>3, MarkedRow
<1>5. trn' = [trn EXCEPT ![n] = new]
    BY <1>1, <1>3 DEF ViewDelete
<1>6. trn' \in [Number -> Row \cup {NoRow}] /\ trn'[n] = new /\ \A m \in Number \ {n} : trn'[m] = trn[m]
    BY <1>2, <1>4, <1>5
<1>7. \A c \in Code : n \notin Owners(trn', c)
    BY <1>4, <1>6, NoValuesAssumption DEF Owners
<1>8. QED
    BY <1>1, <1>2, <1>6, <1>7

LEMMA ViewDeleteStep ==
    ASSUME TypeInv, NEW v \in Viewer, ViewDelete(v), UNCHANGED importVars
    PROVE  TypeInv'
<1>1. trn' \in [Number -> Row \cup {NoRow}]
    BY DeleteEffect
<1>2. proc' \in [Booker -> Proc] /\ ProcessesOK'
    BY ViewEndsStep DEF ViewDelete
<1>3. stale' \in [Booker -> BOOLEAN]
    BY StaleTyped DEF ViewDelete, TypeInv, BookingTyped, Booker
<1>4. QED
    BY <1>1, <1>2, <1>3 DEF TypeInv, BookingTyped, ImportTyped, importVars, ViewDelete

LEMMA ViewStepTyped ==
    ASSUME TypeInv, NEW v \in Viewer, ViewStep(v), UNCHANGED importVars
    PROVE  TypeInv'
BY ViewLoadStep, ViewBookStep, ViewRebookStep, ViewRollbackStep, ViewCommitStep, ViewDeleteStep
DEF ViewStep

-----------------------------------------------------------------------------
(* The steps of the import's process *)

\* The process q that a step of the importer leaves is for the same booking.
Becomes(q) ==
    /\ q \in Proc /\ ImporterOK(q)
    /\ proc' = [proc EXCEPT ![Importer] = q]
    /\ q.code = proc[Importer].code /\ q.reaction = proc[Importer].reaction
    /\ q.kind = proc[Importer].kind

ProcKeeps(q, p) ==
    /\ q.code = p.code /\ q.reaction = p.reaction /\ q.kind = p.kind
    /\ q.exist = p.exist /\ q.dead = p.dead

LEMMA StopsProc ==
    ASSUME NEW p \in Proc, NEW how \in {"booked", "skip", "failed"}, p.dead \subseteq p.exist
    PROVE  /\ Stops(p, how) \in Proc /\ ImporterOK(Stops(p, how)) /\ ProcKeeps(Stops(p, how), p)
           /\ Stops(p, how).pc = "over" /\ Stops(p, how).unique = how
<1>1. PICK q : q = Stops(p, how)
    OBVIOUS
<1>2. q = [p EXCEPT !.pc = "over", !.unique = how]
    BY <1>1 DEF Stops
<1>3. q \in Proc
    BY <1>2 DEF Proc
<1>4. q.pc = "over" /\ q.unique = how /\ ProcKeeps(q, p)
    BY <1>2 DEF Proc, ProcKeeps
<1>5. ImporterOK(q)
    BY <1>4 DEF ImporterOK, ProcKeeps
<1>6. QED
    BY <1>1, <1>3, <1>4, <1>5

LEMMA Advances ==
    ASSUME NEW p \in Proc, NEW pc \in {"write", "check", "number", "look"}, p.dead \subseteq p.exist
    PROVE  \E q \in Proc : /\ q = [p EXCEPT !.pc = pc] /\ ImporterOK(q) /\ ProcKeeps(q, p)
                           /\ q.pc = pc /\ q.unique = p.unique /\ q.errors = p.errors
<1>1. PICK q : q = [p EXCEPT !.pc = pc]
    OBVIOUS
<1>2. q \in Proc
    BY <1>1 DEF Proc
<1>3. q.pc = pc /\ q.unique = p.unique /\ q.errors = p.errors /\ ProcKeeps(q, p)
    BY <1>1 DEF Proc, ProcKeeps
<1>4. QED
    BY <1>1, <1>2, <1>3 DEF ImporterOK, ProcKeeps

LEMMA ImporterProc ==
    ASSUME TypeInv
    PROVE  /\ Importer \in Booker /\ proc[Importer] \in Proc /\ proc \in [Booker -> Proc]
           /\ ImporterOK(proc[Importer])
BY DEF TypeInv, BookingTyped, ProcessesOK, Booker

LEMMA BecomesStep ==
    ASSUME TypeInv, NEW q, Becomes(q)
    PROVE  /\ proc' \in [Booker -> Proc] /\ ProcessesOK'
           /\ proc'[Importer] = q /\ \A x \in Booker \ {Importer} : proc'[x] = proc[x]
BY ImporterProc, BookerStep DEF Becomes, TypeInv

LEMMA ImporterTyped ==
    ASSUME TypeInv, NEW q, Becomes(q), UNCHANGED <<importVars, views>>,
           trn' \in [Number -> Row \cup {NoRow}], sequence' \in 0 .. MaxNum, schedules' \in Nat,
           stale' \in [Booker -> BOOLEAN], twinned' \subseteq Code, crowded' \in BOOLEAN
    PROVE  TypeInv'
<1>1. BookingTyped'
    BY BecomesStep DEF TypeInv, BookingTyped
<1>2. ImportTyped'
    BY DEF TypeInv, ImportTyped, importVars
<1>3. QED
    BY <1>1, <1>2, BecomesStep DEF TypeInv

LEMMA PhantomEffect ==
    ASSUME TypeInv, PhantomMissing
    PROVE  \E q : Becomes(q) /\ q.pc = "over" /\ q.unique = "failed"
<1>1. PICK p \in Proc : p = proc[Importer] /\ p.dead \subseteq p.exist
    BY ImporterProc DEF ImporterOK
<1>2. PICK q : q = Stops(p, "failed")
    OBVIOUS
<1>3. /\ q \in Proc /\ ImporterOK(q) /\ ProcKeeps(q, p)
      /\ q.pc = "over" /\ q.unique = "failed"
    BY <1>1, <1>2, StopsProc
<1>4. Becomes(q)
    BY <1>1, <1>2, <1>3 DEF PhantomMissing, ImporterMoves, Becomes, ProcKeeps
<1>5. QED
    BY <1>3, <1>4

LEMMA ClearEffect ==
    ASSUME TypeInv, ClearSchedules
    PROVE  /\ \E q : Becomes(q) /\ q.pc = "write" /\ ProcKeeps(q, proc[Importer])
           /\ stale' \in [Booker -> BOOLEAN] /\ ~stale'[Importer]
           /\ \A x \in Booker \ {Importer} : stale'[x] \/ proc[x].pc = "idle"
<1>1. PICK q \in Proc : /\ q = [proc[Importer] EXCEPT !.pc = "write"] /\ ImporterOK(q) /\ ProcKeeps(q, proc[Importer])
                        /\ q.pc = "write"
  <2>1. proc[Importer] \in Proc /\ proc[Importer].dead \subseteq proc[Importer].exist
      BY ImporterProc DEF ImporterOK
  <2>2. QED
      BY <2>1, Advances
<1>2. Becomes(q)
    BY <1>1 DEF ClearSchedules, ImporterMoves, Becomes, ProcKeeps
<1>3. stale \in [Booker -> BOOLEAN]
    BY DEF TypeInv, BookingTyped
<1>4. stale' \in [Booker -> BOOLEAN] /\ ~stale'[Importer]
      /\ \A x \in Booker \ {Importer} : stale'[x] \/ proc[x].pc = "idle"
    BY <1>3, ImporterProc DEF ClearSchedules
<1>5. QED
    BY <1>1, <1>2, <1>4

LEMMA WriteEffect ==
    ASSUME TypeInv, NEW errors \in BOOLEAN, WriteSchedules(errors)
    PROVE  \E q : Becomes(q) /\ q.pc = "look" /\ ProcKeeps(q, proc[Importer])
<1>1. PICK p \in Proc : p = proc[Importer] /\ p.dead \subseteq p.exist
    BY ImporterProc DEF ImporterOK
<1>2. PICK q : q = [p EXCEPT !.pc = "look", !.errors = errors]
    OBVIOUS
<1>3. q \in Proc
    BY <1>2 DEF Proc
<1>4. q.pc = "look" /\ ProcKeeps(q, p)
    BY <1>2 DEF Proc, ProcKeeps
<1>5. Becomes(q)
    BY <1>1, <1>2, <1>3, <1>4 DEF WriteSchedules, ImporterMoves, Becomes, ProcKeeps, ImporterOK
<1>6. QED
    BY <1>1, <1>4, <1>5

\* The owners of the code that the process looks at.
Held(p) == IF p.code = NoCode THEN {} ELSE Owners(trn, p.code)
LookVerdict(p) == Verdict("book", p.reaction, p.code, Held(p) # {})

LEMMA LookEffect ==
    ASSUME TypeInv, Look
    PROVE  \E q : /\ Becomes(q)
                  /\ \/ q.pc = "over" /\ q.unique = "failed"
                     \/ /\ q.pc = "drop" /\ q.unique = "overwrite"
                        /\ LookVerdict(proc[Importer]) = "overwrite"
                        /\ q.exist \subseteq Held(proc[Importer])
                     \/ /\ q.pc = "check" /\ q.unique = LookVerdict(proc[Importer])
                        /\ q.unique \notin {"raise", "overwrite"}
<1>1. PICK p \in Proc : p = proc[Importer] /\ p.dead \subseteq p.exist
    BY ImporterProc DEF ImporterOK
<1>2. PICK owners : owners = Held(p)
    OBVIOUS
<1>3. PICK unique : unique = LookVerdict(p)
    OBVIOUS
<1>4. unique \in {"unset", "skip", "create", "update", "without", "overwrite", "raise"}
      /\ owners \in SUBSET Number
    BY <1>2, <1>3, VerdictTyped, OwnersTyped DEF LookVerdict, Held
<1>5. PICK seen : seen = [p EXCEPT !.unique = unique, !.errors = p.errors \/ unique = "skip"]
    OBVIOUS
<1>6. seen \in Proc /\ seen.unique = unique /\ ProcKeeps(seen, p)
  <2>1. PICK errors \in BOOLEAN : errors = (p.errors \/ unique = "skip")
      OBVIOUS
  <2>2. seen = [p EXCEPT !.unique = unique, !.errors = errors]
      BY <1>5, <2>1
  <2>3. unique \in {"unset", "skip", "create", "update", "without", "overwrite", "raise",
                   "booked", "failed"}
      BY <1>4
  <2>4. seen \in Proc
      BY <2>2, <2>3, Zenon DEF Proc
  <2>5. QED
      BY <2>2, <2>4 DEF Proc, ProcKeeps
<1>7. seen.unique = unique /\ ProcKeeps(seen, p)
    BY <1>6
<1>8. \/ unique = "raise" /\ ImporterMoves(Stops(p, "failed"))
      \/ unique = "overwrite" /\ \E n \in owners :
            ImporterMoves([seen EXCEPT !.pc = "drop", !.exist = {n}, !.dead = Dead({n})])
      \/ unique \notin {"raise", "overwrite"} /\ ImporterMoves([seen EXCEPT !.pc = "check"])
    BY <1>1, <1>2, <1>3, <1>5 DEF Look, Held, LookVerdict
<1>9. CASE unique = "raise" /\ ImporterMoves(Stops(p, "failed"))
    BY <1>1, <1>9, StopsProc DEF ImporterMoves, Becomes, ProcKeeps
<1>10. ASSUME NEW n \in owners, unique = "overwrite",
              ImporterMoves([seen EXCEPT !.pc = "drop", !.exist = {n}, !.dead = Dead({n})])
       PROVE  \E q : /\ Becomes(q) /\ q.pc = "drop" /\ q.unique = "overwrite" /\ q.exist \subseteq owners
  <2>1. PICK one, dead : one = {n} /\ dead = Dead({n})
      OBVIOUS
  <2>2. one \in SUBSET Number /\ one \subseteq owners /\ dead \in SUBSET Number /\ dead \subseteq one
      BY <1>4, <2>1 DEF Dead
  <2>3. PICK q : q = [seen EXCEPT !.pc = "drop", !.exist = one, !.dead = dead]
      OBVIOUS
  <2>4. q \in Proc
      BY <1>6, <2>2, <2>3 DEF Proc
  <2>5. q.pc = "drop" /\ q.unique = seen.unique /\ q.exist = one /\ q.dead = dead
        /\ q.code = seen.code /\ q.reaction = seen.reaction /\ q.kind = seen.kind
      BY <1>6, <2>3 DEF Proc
  <2>6. Becomes(q)
      BY <1>1, <1>7, <1>10, <2>1, <2>2, <2>3, <2>4, <2>5 DEF Becomes, ImporterMoves, ImporterOK, ProcKeeps
  <2>7. QED
      BY <1>7, <1>10, <2>2, <2>5, <2>6
<1>11. CASE unique \notin {"raise", "overwrite"} /\ ImporterMoves([seen EXCEPT !.pc = "check"])
  <2>1. seen.dead \subseteq seen.exist
      BY <1>1, <1>7 DEF ProcKeeps
  <2>2. PICK q \in Proc : /\ q = [seen EXCEPT !.pc = "check"] /\ ImporterOK(q) /\ ProcKeeps(q, seen)
                          /\ q.pc = "check" /\ q.unique = seen.unique
      BY <1>6, <2>1, Advances
  <2>3. Becomes(q)
      BY <1>1, <1>7, <1>11, <2>2 DEF Becomes, ImporterMoves, ProcKeeps
  <2>4. QED
      BY <1>1, <1>3, <1>7, <1>11, <2>2, <2>3
<1>12. QED
    BY <1>1, <1>2, <1>3, <1>8, <1>9, <1>10, <1>11

\* The rows that the step removes are no longer owners; the others stay.
Removes(nums) ==
    /\ trn' \in [Number -> Row \cup {NoRow}]
    /\ \A n \in Number \ nums : trn'[n] = trn[n]
    /\ \A n \in nums : \A c \in Code : n \notin Owners(trn', c)
    /\ \A n \in nums : ~Live(trn', n)

LEMMA DropEffect ==
    ASSUME TypeInv, Drop
    PROVE  /\ \E q : /\ Becomes(q)
                     /\ \/ /\ q.pc = "over" /\ q.unique = "failed" /\ UNCHANGED <<trn, stale>>
                        \/ /\ q.pc = "check" /\ q.unique = proc[Importer].unique
                           /\ TouchOthers(Importer)
           /\ Removes(proc[Importer].exist) \/ UNCHANGED trn
<1>1. PICK p \in Proc : p = proc[Importer] /\ p.dead \subseteq p.exist
    BY ImporterProc DEF ImporterOK
<1>2. trn \in [Number -> Row \cup {NoRow}] /\ p.exist \in SUBSET Number
    BY DEF TypeInv, BookingTyped, Proc
<1>3. CASE \A n \in p.exist \ p.dead : Exists(n)
  <2>1. /\ trn' = AllMarked(trn, p.exist, p.dead) /\ TouchOthers(Importer)
        /\ ImporterMoves([p EXCEPT !.pc = "check"])
      BY <1>1, <1>3 DEF Drop
  <2>2. PICK q \in Proc : /\ q = [p EXCEPT !.pc = "check"] /\ ImporterOK(q) /\ ProcKeeps(q, p)
                          /\ q.pc = "check" /\ q.unique = p.unique
      BY <1>1, Advances
  <2>3. Becomes(q)
      BY <1>1, <2>1, <2>2 DEF Becomes, ImporterMoves, ProcKeeps
  <2>4. Removes(p.exist)
    <3>1. p.dead \in SUBSET p.exist /\ \A n \in p.exist \ p.dead : trn[n] # NoRow
        BY <1>1, <1>3 DEF Exists
    <3>2. PICK nums \in SUBSET Number : nums = p.exist
        BY <1>2
    <3>3. PICK dead \in SUBSET nums : dead = p.dead /\ \A n \in nums \ dead : trn[n] # NoRow
        BY <3>1, <3>2
    <3>4. PICK new : new = AllMarked(trn, nums, dead)
        OBVIOUS
    <3>5. /\ new \in [Number -> Row \cup {NoRow}]
          /\ \A n \in Number \ nums : new[n] = trn[n]
          /\ \A n \in nums : \A c \in Code : n \notin Owners(new, c)
        BY <1>2, <3>4, <3>3, MarkedRows
    <3>6. \A n \in nums : ~Live(new, n)
      <4>1. \A n \in nums \ dead : trn[n] \in Row
          BY <1>2, <3>3
      <4>2. QED
          BY <3>4, <4>1, MarkedGone
    <3>7. trn' = new
        BY <2>1, <3>2, <3>3, <3>4
    <3>8. QED
        BY <3>2, <3>5, <3>6, <3>7 DEF Removes
  <2>5. QED
      BY <1>1, <2>1, <2>2, <2>3, <2>4
<1>4. CASE ~(\A n \in p.exist \ p.dead : Exists(n))
  <2>1. ImporterMoves(Stops(p, "failed")) /\ UNCHANGED <<trn, stale>>
      BY <1>1, <1>4 DEF Drop
  <2>2. PICK q : q = Stops(p, "failed")
      OBVIOUS
  <2>3. Becomes(q) /\ q.pc = "over" /\ q.unique = "failed"
      BY <1>1, <2>1, <2>2, StopsProc DEF Becomes, ImporterMoves, ProcKeeps
  <2>4. QED
      BY <2>1, <2>3
<1>5. QED
    BY <1>3, <1>4

WrittenOwners(p) == IF WrittenCode(p) = NoCode THEN {} ELSE Owners(trn, WrittenCode(p))

LEMMA CheckEffect ==
    ASSUME TypeInv, Check
    PROVE  \/ \E q : /\ Becomes(q) /\ q.pc = "over"
                     /\ q.unique = "failed" \/ (q.unique = "skip" /\ proc[Importer].unique = "skip")
                     /\ UNCHANGED <<trn, stale>>
           \/ \E q : /\ Becomes(q) /\ q.pc = "number" /\ WrittenCode(q) = WrittenCode(proc[Importer])
                     /\ q.unique = proc[Importer].unique
                     /\ ~proc[Importer].errors
                     /\ WrittenOwners(proc[Importer]) # {} => proc[Importer].unique = "overwrite"
                     /\ Removes(WrittenOwners(proc[Importer]))
                     /\ stale' \in [Booker -> BOOLEAN] /\ ~stale'[Importer]
                     /\ \A x \in Booker \ {Importer} :
                           \/ stale'[x] \/ proc[x].pc = "idle"
                           \/ stale'[x] = stale[x] /\ trn' = trn
<1>1. PICK p \in Proc : p = proc[Importer] /\ p.dead \subseteq p.exist
    BY ImporterProc DEF ImporterOK
<1>2. PICK owners : owners = WrittenOwners(p)
    OBVIOUS
<1>3. trn \in [Number -> Row \cup {NoRow}] /\ owners \in SUBSET Number /\ stale \in [Booker -> BOOLEAN]
    BY <1>2, OwnersTyped DEF TypeInv, BookingTyped, WrittenOwners
<1>4. CASE p.errors
  <2>1. PICK how \in {"skip", "failed"} : how = IF p.unique = "skip" THEN "skip" ELSE "failed"
      OBVIOUS
  <2>2. ImporterMoves(Stops(p, how)) /\ UNCHANGED <<trn, stale>>
      BY <1>1, <1>4, <2>1 DEF Check
  <2>3. PICK q : q = Stops(p, how)
      OBVIOUS
  <2>4. Becomes(q) /\ q.pc = "over" /\ q.unique = how
      BY <1>1, <2>2, <2>3, StopsProc DEF Becomes, ImporterMoves, ProcKeeps
  <2>5. QED
      BY <1>1, <2>1, <2>2, <2>4
<1>5. CASE ~p.errors /\ Conflict(p.unique, WrittenCode(p), owners)
  <2>1. ImporterMoves(Stops(p, "failed")) /\ UNCHANGED <<trn, stale>>
      BY <1>1, <1>2, <1>5 DEF Check, WrittenOwners
  <2>2. PICK q : q = Stops(p, "failed")
      OBVIOUS
  <2>3. Becomes(q) /\ q.pc = "over" /\ q.unique = "failed"
      BY <1>1, <2>1, <2>2, StopsProc DEF Becomes, ImporterMoves, ProcKeeps
  <2>4. QED
      BY <2>1, <2>3
<1>6. CASE ~p.errors /\ ~Conflict(p.unique, WrittenCode(p), owners)
  <2>1. /\ trn' = AllMarked(trn, owners, Dead(owners))
        /\ ImporterMoves([p EXCEPT !.pc = "number"])
        /\ stale' = [b \in Booker |-> IF b = Importer THEN FALSE
                             ELSE IF owners # {} /\ proc[b].pc # "idle" THEN TRUE ELSE stale[b]]
      BY <1>1, <1>2, <1>6 DEF Check, WrittenOwners
  <2>2. PICK q \in Proc : /\ q = [p EXCEPT !.pc = "number"] /\ ImporterOK(q) /\ ProcKeeps(q, p)
                          /\ q.pc = "number" /\ q.unique = p.unique
      BY <1>1, Advances
  <2>3. Becomes(q) /\ WrittenCode(q) = WrittenCode(p)
      BY <1>1, <2>1, <2>2 DEF Becomes, ImporterMoves, ProcKeeps, WrittenCode
  <2>4. Removes(owners)
    <3>1. \A n \in owners : trn[n] # NoRow
        BY <1>2 DEF WrittenOwners, Owners
    <3>2. Dead(owners) \in SUBSET owners
        BY DEF Dead
    <3>3. QED
      <4>1. PICK new : new = AllMarked(trn, owners, Dead(owners))
          OBVIOUS
      <4>2. /\ new \in [Number -> Row \cup {NoRow}]
            /\ \A n \in Number \ owners : new[n] = trn[n]
            /\ \A n \in owners : \A c \in Code : n \notin Owners(new, c)
          BY <1>3, <3>1, <3>2, <4>1, MarkedRows
      <4>3. \A n \in owners : ~Live(new, n)
        <5>1. \A n \in owners \ Dead(owners) : trn[n] \in Row
            BY <1>3, <3>1
        <5>2. QED
            BY <1>3, <3>2, <4>1, <5>1, MarkedGone
      <4>4. trn' = new
          BY <2>1, <4>1
      <4>5. QED
          BY <4>2, <4>3, <4>4 DEF Removes
  <2>5. stale' \in [Booker -> BOOLEAN] /\ ~stale'[Importer]
      BY <1>3, <2>1, ImporterProc
  <2>6. owners = {} => trn' = trn
    <3>1. ASSUME owners = {}
          PROVE  \A n \in Number : trn'[n] = trn[n]
        BY <1>3, <2>4, <3>1 DEF Removes
    <3>2. QED
        BY <1>3, <2>4, <3>1 DEF Removes
  <2>7. \A x \in Booker \ {Importer} : \/ stale'[x] \/ proc[x].pc = "idle"
                                       \/ stale'[x] = stale[x] /\ trn' = trn
      BY <2>1, <2>6
  <2>8. owners # {} => p.unique = "overwrite"
      BY <1>2, <1>6 DEF Conflict, WrittenOwners
  <2>9. QED
      BY <1>1, <1>2, <1>6, <2>2, <2>3, <2>4, <2>5, <2>7, <2>8
<1>7. QED
    BY <1>4, <1>5, <1>6

LEMMA NextEffect ==
    ASSUME TypeInv, NextValue
    PROVE  \E q : /\ Becomes(q) /\ q.pc = "insert" /\ q.unique = proc[Importer].unique
                  /\ WrittenCode(q) = WrittenCode(proc[Importer])
<1>1. PICK p \in Proc : p = proc[Importer] /\ p.dead \subseteq p.exist
    BY ImporterProc DEF ImporterOK
<1>2. sequence + 1 \in Number
    BY BoundsAssumption DEF NextValue, Number, TypeInv, BookingTyped
<1>3. PICK n \in Number : n = sequence + 1
    BY <1>2
<1>4. PICK q : q = [p EXCEPT !.pc = "insert", !.num = n]
    OBVIOUS
<1>5. q \in Proc
    BY <1>4 DEF Proc
<1>6. q.pc = "insert" /\ q.num = n /\ ProcKeeps(q, p) /\ q.unique = p.unique
    BY <1>4 DEF Proc, ProcKeeps
<1>7. Becomes(q) /\ WrittenCode(q) = WrittenCode(p)
    BY <1>1, <1>3, <1>4, <1>5, <1>6 DEF NextValue, ImporterMoves, Becomes, ProcKeeps, ImporterOK, WrittenCode
<1>8. QED
    BY <1>1, <1>6, <1>7

LEMMA InsertEffect ==
    ASSUME TypeInv, Insert
    PROVE  /\ sequence' \in 0 .. MaxNum
           /\ \/ \E q : /\ Becomes(q) /\ q.pc = "over" /\ q.unique = "failed"
                        /\ UNCHANGED <<trn, stale, twinned>>
              \/ \E q, row :
                    /\ Becomes(q) /\ q.pc = "base" /\ q.num \in Number /\ ~Exists(q.num)
                    /\ WrittenCode(q) = WrittenCode(proc[Importer])
                    /\ q.unique = proc[Importer].unique
                    /\ row \in Row /\ row.code = WrittenCode(q) /\ ~row.deleted /\ row.base = "none"
                    /\ trn' = [trn EXCEPT ![q.num] = row]
                    /\ TwinnedBy(Importer, WrittenCode(q)) /\ TouchOthers(Importer)
<1>1. PICK p \in Proc : p = proc[Importer] /\ p.dead \subseteq p.exist /\ p.num \in Number
    BY ImporterProc DEF ImporterOK, Insert, Importing
<1>2. sequence' \in 0 .. MaxNum
    BY <1>1, BoundsAssumption DEF Insert, Number
<1>3. CASE Exists(p.num)
  <2>1. PICK r : r = [p EXCEPT !.num = NoNum]
      OBVIOUS
  <2>2. r \in Proc
      BY <2>1 DEF Proc
  <2>3. ProcKeeps(r, p)
      BY <2>1 DEF Proc, ProcKeeps
  <2>4. r.dead \subseteq r.exist
      BY <1>1, <2>3 DEF ProcKeeps
  <2>5. ImporterMoves(Stops(r, "failed")) /\ UNCHANGED <<trn, stale, twinned>>
      BY <1>1, <1>3, <2>1 DEF Insert
  <2>6. PICK q : q = Stops(r, "failed")
      OBVIOUS
  <2>7. Becomes(q) /\ q.pc = "over" /\ q.unique = "failed"
      BY <1>1, <2>2, <2>3, <2>4, <2>5, <2>6, StopsProc DEF Becomes, ImporterMoves, ProcKeeps
  <2>8. QED
      BY <1>2, <2>5, <2>7
<1>4. CASE ~Exists(p.num)
  <2>1. PICK row : row = [code |-> WrittenCode(p), deleted |-> FALSE, pending |-> FALSE, base |-> "none"]
      OBVIOUS
  <2>2. row \in Row /\ row.code = WrittenCode(p) /\ ~row.deleted /\ row.base = "none"
      BY <2>1, RowOfTyped DEF Row
  <2>3. PICK q : q = [p EXCEPT !.pc = "base"]
      OBVIOUS
  <2>4. q \in Proc
      BY <2>3 DEF Proc
  <2>5. q.pc = "base" /\ ProcKeeps(q, p) /\ q.unique = p.unique /\ q.num = p.num
      BY <2>3 DEF Proc, ProcKeeps
  <2>6. /\ trn' = [trn EXCEPT ![p.num] = row] /\ ImporterMoves([p EXCEPT !.pc = "base"])
        /\ TwinnedBy(Importer, WrittenCode(p)) /\ TouchOthers(Importer)
      BY <1>1, <1>4, <2>1 DEF Insert
  <2>7. Becomes(q) /\ WrittenCode(q) = WrittenCode(p)
      BY <1>1, <2>3, <2>4, <2>5, <2>6 DEF Becomes, ImporterMoves, ProcKeeps, ImporterOK, WrittenCode
  <2>8. QED
      BY <1>1, <1>2, <1>4, <2>2, <2>5, <2>6, <2>7
<1>5. QED
    BY <1>3, <1>4

LEMMA BaseEffect ==
    ASSUME TypeInv, NEW base \in {"part", "full"}, WriteBase(base)
    PROVE  /\ proc[Importer].num \in Number /\ trn' \in [Number -> Row \cup {NoRow}]
           /\ \A n \in Number : /\ trn'[n] # trn[n] => n = proc[Importer].num
                                /\ trn[n] = NoRow => trn'[n] = NoRow
                                /\ trn[n] # NoRow => /\ trn'[n] \in Row /\ trn'[n].code = trn[n].code
                                                     /\ trn'[n].deleted = trn[n].deleted
           /\ \E q : /\ Becomes(q) /\ q.pc = "finish" /\ q.num = proc[Importer].num
                     /\ q.unique = proc[Importer].unique
                     /\ WrittenCode(q) = WrittenCode(proc[Importer])
                     /\ ~q.errors => trn'[q.num] \in Row /\ trn'[q.num].base = "full"
                     /\ trn[q.num] # NoRow /\ q.errors => trn'[q.num].base # "full"
<1>1. PICK p \in Proc : p = proc[Importer] /\ p.dead \subseteq p.exist /\ p.num \in Number
    BY ImporterProc DEF ImporterOK, WriteBase, Importing
<1>2. trn \in [Number -> Row \cup {NoRow}]
    BY DEF TypeInv, BookingTyped
<1>3. PICK errors \in BOOLEAN : errors = BaseErrors(p, base)
    BY DEF BaseErrors
<1>4. PICK q : q = [p EXCEPT !.pc = "finish", !.errors = errors]
    OBVIOUS
<1>5. q \in Proc
    BY <1>4 DEF Proc
<1>6. q.pc = "finish" /\ ProcKeeps(q, p) /\ q.unique = p.unique /\ q.num = p.num /\ q.errors = errors
    BY <1>4 DEF Proc, ProcKeeps
<1>7. Becomes(q) /\ WrittenCode(q) = WrittenCode(p)
    BY <1>1, <1>3, <1>4, <1>5, <1>6 DEF WriteBase, Becomes, ImporterMoves, ProcKeeps, ImporterOK, WrittenCode
<1>8. CASE trn[p.num] = NoRow
  <2>1. trn' = trn /\ errors
      BY <1>1, <1>3, <1>8 DEF WriteBase, Exists, BaseErrors
  <2>2. trn' \in [Number -> Row \cup {NoRow}] /\ ~(trn[p.num] # NoRow) /\ q.errors
      BY <1>2, <1>6, <1>8, <2>1
  <2>3. QED
      BY <1>1, <1>2, <1>6, <1>7, <2>1, <2>2, <1>8
<1>9. CASE trn[p.num] # NoRow
  <2>1. PICK old \in Row : old = trn[p.num]
      BY <1>1, <1>2, <1>9
  <2>2. PICK row : row = [old EXCEPT !.base = base]
      OBVIOUS
  <2>3. row \in Row /\ row.code = old.code /\ row.deleted = old.deleted /\ row.base = base
      BY <2>2 DEF Row
  <2>4. trn' = [trn EXCEPT ![p.num] = row]
      BY <1>1, <1>9, <2>1, <2>2 DEF WriteBase, Exists
  <2>5. trn' \in [Number -> Row \cup {NoRow}] /\ trn'[p.num] = row /\ \A n \in Number \ {p.num} : trn'[n] = trn[n]
      BY <1>1, <1>2, <2>3, <2>4
  <2>6. ~errors <=> base = "full"
      BY <1>1, <1>3, <1>9 DEF BaseErrors, Exists
  <2>7. ASSUME NEW n \in Number
        PROVE  /\ trn'[n] # trn[n] => n = p.num
               /\ trn[n] = NoRow => trn'[n] = NoRow
               /\ trn[n] # NoRow => /\ trn'[n] \in Row /\ trn'[n].code = trn[n].code
                                    /\ trn'[n].deleted = trn[n].deleted
    <3>1. CASE n = p.num
        BY <1>9, <2>1, <2>3, <2>5, <3>1
    <3>2. CASE n # p.num
        BY <1>2, <2>5, <3>2
    <3>3. QED
        BY <3>1, <3>2
  <2>8. /\ ~q.errors => trn'[q.num] \in Row /\ trn'[q.num].base = "full"
        /\ q.errors => trn'[q.num].base # "full"
      BY <1>6, <2>3, <2>5, <2>6
  <2>9. QED
      BY <1>1, <1>6, <1>7, <2>5, <2>7, <2>8
<1>10. QED
    BY <1>8, <1>9

LEMMA FinishEffect ==
    ASSUME TypeInv, Finish
    PROVE  /\ proc[Importer].num \in Number /\ trn' \in [Number -> Row \cup {NoRow}]
           /\ \A n \in Number \ {proc[Importer].num} : trn'[n] = trn[n]
           /\ \/ \E q : /\ Becomes(q) /\ q.pc = "over" /\ q.unique = "failed" /\ UNCHANGED twinned
                        /\ trn' = trn \/ \A c \in Code : proc[Importer].num \notin Owners(trn', c)
                        /\ ~Live(trn', proc[Importer].num) \/ (trn' = trn /\ proc[Importer].errors)
              \/ \E q : /\ Becomes(q) /\ q.pc = "over" /\ q.unique = "booked"
                        /\ ~proc[Importer].errors
                        /\ TwinnedBy(Importer, WrittenCode(proc[Importer]))
                        /\ trn'[proc[Importer].num] \in Row
                        /\ trn'[proc[Importer].num].code = WrittenCode(proc[Importer])
                        /\ ~trn'[proc[Importer].num].deleted
                        /\ trn[proc[Importer].num] \in Row =>
                              trn'[proc[Importer].num].base = trn[proc[Importer].num].base
<1>1. PICK p \in Proc : p = proc[Importer] /\ p.dead \subseteq p.exist /\ p.num \in Number
    BY ImporterProc DEF ImporterOK, Finish, Importing
<1>2. trn \in [Number -> Row \cup {NoRow}]
    BY DEF TypeInv, BookingTyped
<1>3. CASE p.kind = "procedure"
  <2>1. /\ trn' = IF Exists(p.num) THEN [trn EXCEPT ![p.num] = Marked(@)] ELSE trn
        /\ ImporterMoves(Stops(p, "failed")) /\ UNCHANGED twinned
      BY <1>1, <1>3 DEF Finish
  <2>2. PICK q : q = Stops(p, "failed")
      OBVIOUS
  <2>3. Becomes(q) /\ q.pc = "over" /\ q.unique = "failed"
      BY <1>1, <2>1, <2>2, StopsProc DEF Becomes, ImporterMoves, ProcKeeps
  <2>4. CASE Exists(p.num)
    <3>1. PICK row : row = Marked(trn[p.num])
        OBVIOUS
    <3>2. row \in Row /\ row.code = NoCode /\ row.deleted
        BY <1>1, <1>2, <2>4, <3>1, MarkedRow DEF Exists
    <3>3. trn' = [trn EXCEPT ![p.num] = row]
        BY <2>1, <2>4, <3>1
    <3>4. trn' \in [Number -> Row \cup {NoRow}] /\ trn'[p.num] = row /\ \A n \in Number \ {p.num} : trn'[n] = trn[n]
        BY <1>1, <1>2, <3>2, <3>3
    <3>5. \A c \in Code : p.num \notin Owners(trn', c)
        BY <3>2, <3>4, NoValuesAssumption DEF Owners
    <3>6. ~Live(trn', p.num)
        BY <3>2, <3>4 DEF Live
    <3>7. QED
        BY <1>1, <2>1, <2>3, <3>4, <3>5, <3>6
  <2>5. CASE ~Exists(p.num)
    <3>1. ~Live(trn', p.num) /\ trn' = trn
        BY <2>1, <2>5 DEF Exists, Live
    <3>2. QED
        BY <1>1, <1>2, <2>3, <2>1, <2>5, <3>1
  <2>6. QED
      BY <2>4, <2>5
<1>4. CASE p.kind # "procedure" /\ p.errors
  <2>1. ImporterMoves(Stops(p, "failed")) /\ UNCHANGED <<trn, twinned>>
      BY <1>1, <1>4 DEF Finish
  <2>2. PICK q : q = Stops(p, "failed")
      OBVIOUS
  <2>3. Becomes(q) /\ q.pc = "over" /\ q.unique = "failed"
      BY <1>1, <2>1, <2>2, StopsProc DEF Becomes, ImporterMoves, ProcKeeps
  <2>4. QED
      BY <1>1, <1>2, <1>4, <2>1, <2>3
<1>5. CASE p.kind # "procedure" /\ ~p.errors
  <2>1. PICK base : base = IF Exists(p.num) THEN trn[p.num].base ELSE "none"
      OBVIOUS
  <2>2. base \in {"none", "part", "full"} /\ (trn[p.num] \in Row => base = trn[p.num].base)
      BY <1>1, <1>2, <2>1, NoValuesAssumption DEF Exists, Row
  <2>3. PICK saved : saved = [code |-> WrittenCode(p), deleted |-> FALSE, pending |-> FALSE, base |-> base]
      OBVIOUS
  <2>4. saved \in Row /\ saved.code = WrittenCode(p) /\ ~saved.deleted /\ saved.base = base
      BY <2>2, <2>3, RowOfTyped DEF Row
  <2>5. /\ trn' = [trn EXCEPT ![p.num] = saved] /\ TwinnedBy(Importer, WrittenCode(p))
        /\ ImporterMoves(Stops(p, "booked"))
      BY <1>1, <1>5, <2>1, <2>3 DEF Finish
  <2>6. trn' \in [Number -> Row \cup {NoRow}] /\ trn'[p.num] = saved /\ \A n \in Number \ {p.num} : trn'[n] = trn[n]
      BY <1>1, <1>2, <2>4, <2>5
  <2>7. PICK q : q = Stops(p, "booked")
      OBVIOUS
  <2>8. Becomes(q) /\ q.pc = "over" /\ q.unique = "booked"
      BY <1>1, <2>5, <2>7, StopsProc DEF Becomes, ImporterMoves, ProcKeeps
  <2>9. QED
      BY <1>1, <1>5, <2>2, <2>4, <2>5, <2>6, <2>8
<1>6. QED
    BY <1>3, <1>4, <1>5

LEMMA ImporterStepTyped ==
    ASSUME TypeInv, ImporterStep, UNCHANGED importVars
    PROVE  TypeInv'
<1>1. /\ trn \in [Number -> Row \cup {NoRow}] /\ sequence \in 0 .. MaxNum /\ schedules \in Nat
      /\ stale \in [Booker -> BOOLEAN] /\ twinned \subseteq Code /\ crowded \in BOOLEAN
    BY DEF TypeInv, BookingTyped
<1>2. Importer \in Booker /\ proc[Importer] \in Proc /\ ImporterOK(proc[Importer])
    BY ImporterProc
<1>3. WrittenCode(proc[Importer]) \in Code \cup {NoCode}
    BY <1>2, RowOfTyped
<1>4. CASE PhantomMissing
    BY <1>1, <1>4, PhantomEffect, ImporterTyped DEF PhantomMissing
<1>5. CASE ClearSchedules
  <2>1. schedules' \in Nat
      BY <1>1, <1>5 DEF ClearSchedules
  <2>2. QED
      BY <1>1, <1>5, <2>1, ClearEffect, ImporterTyped DEF ClearSchedules
<1>6. ASSUME NEW errors \in BOOLEAN, WriteSchedules(errors)
      PROVE  TypeInv'
  <2>1. schedules' \in Nat /\ crowded' \in BOOLEAN
      BY <1>1, <1>6 DEF WriteSchedules
  <2>2. stale' \in [Booker -> BOOLEAN]
      BY <1>1, <1>2, <1>6, StaleTyped DEF WriteSchedules
  <2>3. QED
      BY <1>1, <1>6, <2>1, <2>2, WriteEffect, ImporterTyped DEF WriteSchedules
<1>7. CASE Look
    BY <1>1, <1>7, LookEffect, ImporterTyped DEF Look
<1>8. CASE Drop
  <2>1. stale' \in [Booker -> BOOLEAN]
      BY <1>1, <1>2, <1>8, DropEffect, StaleTyped
  <2>2. trn' \in [Number -> Row \cup {NoRow}]
      BY <1>1, <1>8, DropEffect DEF Removes
  <2>3. QED
      BY <1>1, <1>8, <2>1, <2>2, DropEffect, ImporterTyped DEF Drop
<1>9. CASE Check
  <2>1. stale' \in [Booker -> BOOLEAN] /\ trn' \in [Number -> Row \cup {NoRow}]
      BY <1>1, <1>9, CheckEffect DEF Removes
  <2>2. QED
      BY <1>1, <1>9, <2>1, CheckEffect, ImporterTyped DEF Check
<1>10. CASE NextValue
    BY <1>1, <1>10, NextEffect, ImporterTyped DEF NextValue
<1>11. CASE Insert
  <2>1. CASE \E q : /\ Becomes(q) /\ q.pc = "over" /\ q.unique = "failed"
                    /\ UNCHANGED <<trn, stale, twinned>>
      BY <1>1, <1>11, <2>1, InsertEffect, ImporterTyped DEF Insert
  <2>2. ASSUME NEW q, NEW row \in Row, Becomes(q), q.num \in Number,
               WrittenCode(q) = WrittenCode(proc[Importer]),
               trn' = [trn EXCEPT ![q.num] = row],
               TwinnedBy(Importer, WrittenCode(q)), TouchOthers(Importer)
        PROVE  TypeInv'
    <3>1. trn' \in [Number -> Row \cup {NoRow}]
        BY <1>1, <2>2
    <3>2. twinned' \subseteq Code /\ stale' \in [Booker -> BOOLEAN]
        BY <1>1, <1>2, <1>3, <2>2, TwinnedTyped, StaleTyped
    <3>3. QED
        BY <1>1, <1>11, <2>2, <3>1, <3>2, InsertEffect, ImporterTyped DEF Insert
  <2>3. QED
      BY <1>11, <2>1, <2>2, InsertEffect
<1>12. ASSUME NEW base \in {"part", "full"}, WriteBase(base)
       PROVE  TypeInv'
  <2>1. stale' \in [Booker -> BOOLEAN]
      BY <1>1, <1>2, <1>12, StaleTyped DEF WriteBase
  <2>2. QED
      BY <1>1, <1>12, <2>1, BaseEffect, ImporterTyped DEF WriteBase
<1>13. CASE Finish
  <2>1. stale' \in [Booker -> BOOLEAN]
      BY <1>1, <1>2, <1>13, StaleTyped DEF Finish
  <2>2. twinned' \subseteq Code
      BY <1>1, <1>3, <1>13, FinishEffect, TwinnedTyped
  <2>3. QED
      BY <1>1, <1>13, <2>1, <2>2, FinishEffect, ImporterTyped DEF Finish
<1>14. QED
    BY <1>4, <1>5, <1>6, <1>7, <1>8, <1>9, <1>10, <1>11, <1>12, <1>13 DEF ImporterStep

-----------------------------------------------------------------------------
(* The steps over the rows of the file *)

LEMMA FileTyped ==
    ASSUME ImportTyped
    PROVE  /\ DOMAIN file = Line /\ Rows \in Nat
           /\ \A r \in Line : /\ file[r].kind \in {"filtered", "matched", "default"}
                              /\ file[r].bookings \in Seq(Booking)
BY FilesAssumption DEF ImportTyped, FileOK

LEMMA LineIsNat ==
    ASSUME ImportTyped
    PROVE  /\ Rows \in Nat /\ line \in Nat \ {0} /\ line <= Rows + 1
           /\ line \in Line <=> line <= Rows
           /\ line \in Line => line + 1 \in 1 .. Rows + 1
BY FilesAssumption DEF ImportTyped, Line

LEMMA StartedProc ==
    ASSUME NEW booking, booking.code \in Code \cup {NoCode}, booking.kind \in {"plain", "procedure"},
           settings \in Reaction
    PROVE  \E p \in Proc :
              /\ p = [IdleProc EXCEPT !.pc = "schedules", !.code = booking.code,
                                      !.kind = booking.kind, !.reaction = settings]
              /\ ImporterOK(p) /\ p.pc = "schedules" /\ p.code = booking.code
              /\ p.reaction = settings /\ p.kind = booking.kind
<1>1. PICK code \in Code \cup {NoCode}, kind \in {"plain", "procedure"} : code = booking.code /\ kind = booking.kind
    OBVIOUS
<1>2. PICK p : p = [IdleProc EXCEPT !.pc = "schedules", !.code = code, !.kind = kind, !.reaction = settings]
    OBVIOUS
<1>3. p = [pc |-> "schedules", mode |-> "book", code |-> code, reaction |-> settings,
           kind |-> kind, unique |-> "unset", errors |-> FALSE, num |-> NoNum,
           exist |-> {}, dead |-> {}, copy |-> NoRow]
    BY <1>2 DEF IdleProc
<1>4. p \in Proc
    BY <1>3 DEF Proc
<1>5. ImporterOK(p) /\ p.pc = "schedules" /\ p.code = code /\ p.reaction = settings /\ p.kind = kind
    BY <1>3 DEF ImporterOK
<1>6. QED
    BY <1>1, <1>2, <1>4, <1>5

\* A booking process begins.
LEMMA StartsEffect ==
    ASSUME TypeInv, NEW booking, booking.code \in Code \cup {NoCode},
           booking.kind \in {"plain", "procedure"}, NEW where, ProcessStarts(booking, where)
    PROVE  \E p \in Proc :
              /\ proc' = [proc EXCEPT ![Importer] = p]
              /\ proc' \in [Booker -> Proc] /\ ProcessesOK'
              /\ proc'[Importer] = p /\ \A x \in Booker \ {Importer} : proc'[x] = proc[x]
              /\ p.pc = "schedules" /\ p.code = booking.code
              /\ p.reaction = settings /\ p.kind = booking.kind
              /\ stale' \in [Booker -> BOOLEAN] /\ ~stale'[Importer]
              /\ \A x \in Booker \ {Importer} : stale'[x] = stale[x]
<1>1. settings \in Reaction /\ stale \in [Booker -> BOOLEAN]
    BY ImportAssumption DEF TypeInv, ImportTyped, BookingTyped
<1>2. PICK p \in Proc :
              /\ p = [IdleProc EXCEPT !.pc = "schedules", !.code = booking.code,
                                      !.kind = booking.kind, !.reaction = settings]
              /\ ImporterOK(p) /\ p.pc = "schedules" /\ p.code = booking.code
              /\ p.reaction = settings /\ p.kind = booking.kind
    BY <1>1, StartedProc
<1>3. proc' = [proc EXCEPT ![Importer] = p] /\ stale' = [stale EXCEPT ![Importer] = FALSE]
    BY <1>2 DEF ProcessStarts
<1>4. /\ proc' \in [Booker -> Proc] /\ ProcessesOK'
      /\ proc'[Importer] = p /\ \A x \in Booker \ {Importer} : proc'[x] = proc[x]
    BY <1>2, <1>3, ImporterProc, BookerStep DEF TypeInv
<1>5. stale' \in [Booker -> BOOLEAN] /\ ~stale'[Importer] /\ \A x \in Booker \ {Importer} : stale'[x] = stale[x]
    BY <1>1, <1>3, ImporterProc
<1>6. QED
    BY <1>2, <1>3, <1>4, <1>5

\* The booking process of the importer is over, or gone.
LEMMA IdleEffect ==
    ASSUME TypeInv, proc' = [proc EXCEPT ![Importer] = IdleProc]
    PROVE  /\ proc' \in [Booker -> Proc] /\ ProcessesOK'
           /\ proc'[Importer] = IdleProc /\ \A x \in Booker \ {Importer} : proc'[x] = proc[x]
BY ImporterProc, IdleIsProc, BookerStep DEF TypeInv

LEMMA StatusTyped ==
    ASSUME ImportTyped, line \in Line, NEW s \in {"init", "skip", "success", "error"},
           status' = [status EXCEPT ![line] = s]
    PROVE  /\ status' \in [Line -> {"init", "skip", "success", "error"}]
           /\ status'[line] = s /\ \A r \in Line \ {line} : status'[r] = status[r]
BY DEF ImportTyped

LEMMA FailureTyped ==
    ASSUME ImportTyped, AfterFailure
    PROVE  /\ phase' \in {"onerror", "book"} /\ next' \in Nat \ {0}
           /\ phase' = "onerror" => next' = next
           /\ phase' = "book" => next' = next + 1
BY DEF AfterFailure, ImportTyped

LEMMA BookingAt ==
    ASSUME ImportTyped, line \in Line, next <= Len(file[line].bookings)
    PROVE  /\ file[line].bookings[next].code \in Code \cup {NoCode}
           /\ file[line].bookings[next].kind \in {"plain", "procedure"}
<1>1. file[line].bookings \in Seq(Booking)
    BY FileTyped
<1>2. next \in 1 .. Len(file[line].bookings)
    BY <1>1 DEF ImportTyped
<1>3. file[line].bookings[next] \in Booking
    BY <1>1, <1>2
<1>4. QED
    BY <1>3 DEF Booking

LEMMA RowStepTyped ==
    ASSUME TypeInv, ImportBegins \/ RowBegins \/ RowFails \/ RowEnds \/ ImportEnds
    PROVE  TypeInv'
<1>1. BookingTyped' /\ ProcessesOK'
    BY DEF TypeInv, BookingTyped, ProcessesOK, ImportBegins, RowBegins, RowFails, RowEnds, ImportEnds,
           bookingVars
<1>2. ImportTyped /\ 1 \in Nat \ {0} /\ 1 \in 1 .. Rows + 1
    BY FilesAssumption DEF TypeInv
<1> SUFFICES ImportTyped'
    BY <1>1 DEF TypeInv
<1>3. CASE ImportBegins
    BY <1>2, <1>3 DEF ImportBegins, ImportTyped, bookingVars
<1>4. CASE RowBegins
  <2>1. line \in Line /\ file[line].kind \in {"filtered", "matched", "default"} /\ phase = "row"
      BY <1>2, <1>4, FileTyped DEF RowBegins, Working
  <2>2. CASE file[line].kind = "filtered"
    <3>1. status' \in [Line -> {"init", "skip", "success", "error"}]
        BY <1>2, <1>4, <2>1, <2>2, StatusTyped DEF RowBegins
    <3>2. QED
        BY <1>2, <1>4, <2>1, <2>2, <3>1, LineIsNat DEF RowBegins, ImportTyped, bookingVars
  <2>3. CASE file[line].kind = "matched"
      BY <1>2, <1>4, <2>1, <2>3 DEF RowBegins, ImportTyped, bookingVars
  <2>4. CASE file[line].kind = "default"
    <3>1. status' \in [Line -> {"init", "skip", "success", "error"}]
        BY <1>2, <1>4, <2>1, <2>4, StatusTyped DEF RowBegins
    <3>2. QED
        BY <1>2, <1>4, <2>1, <2>4, <3>1 DEF RowBegins, ImportTyped, bookingVars
  <2>5. QED
      BY <2>1, <2>2, <2>3, <2>4
<1>5. CASE RowFails
  <2>1. status' \in [Line -> {"init", "skip", "success", "error"}]
      BY <1>2, <1>5, StatusTyped DEF RowFails, Working
  <2>2. QED
      BY <1>2, <1>5, <2>1, LineIsNat DEF RowFails, Working, ImportTyped, bookingVars
<1>6. CASE RowEnds
    BY <1>2, <1>6, LineIsNat DEF RowEnds, Working, ImportTyped, bookingVars
<1>7. CASE ImportEnds
    BY <1>2, <1>7 DEF ImportEnds, ImportTyped, bookingVars
<1>8. QED
    BY <1>3, <1>4, <1>5, <1>6, <1>7

LEMMA BookStepTyped ==
    ASSUME TypeInv, BookRefused \/ FieldsFail \/ Book \/ BookEnds \/ OnError
    PROVE  TypeInv'
<1>1. ImportTyped /\ BookingTyped /\ ProcessesOK
    BY DEF TypeInv
<1>2. line \in Line
    BY <1>1 DEF ImportTyped, BookRefused, FieldsFail, Book, BookEnds, OnError, Working
<1>3. CASE BookRefused
    BY <1>1, <1>2, <1>3, FailureTyped
    DEF BookRefused, TypeInv, ImportTyped, BookingTyped, ProcessesOK, bookingVars
<1>4. CASE FieldsFail
  <2>1. status' \in [Line -> {"init", "skip", "success", "error"}]
      BY <1>1, <1>2, <1>4, StatusTyped DEF FieldsFail
  <2>2. QED
      BY <1>1, <1>2, <1>4, <2>1, FailureTyped
      DEF FieldsFail, TypeInv, ImportTyped, BookingTyped, ProcessesOK, bookingVars
<1>5. CASE Book
  <2>1. ProcessStarts(file[line].bookings[next], "booking")
      BY <1>5 DEF Book
  <2>2. proc' \in [Booker -> Proc] /\ ProcessesOK' /\ stale' \in [Booker -> BOOLEAN]
      BY <1>1, <1>2, <1>5, <2>1, BookingAt, StartsEffect DEF Book
  <2>3. QED
      BY <1>1, <1>2, <1>5, <2>2 DEF Book, ProcessStarts, TypeInv, ImportTyped, BookingTyped
<1>6. CASE BookEnds
  <2>1. proc' \in [Booker -> Proc] /\ ProcessesOK'
      BY <1>6, IdleEffect DEF BookEnds
  <2>2. status' \in [Line -> {"init", "skip", "success", "error"}]
    <3>1. PICK s : s = StatusOf(proc[Importer].unique)
        OBVIOUS
    <3>2. s \in {"skip", "success", "error"}
        BY <3>1 DEF StatusOf
    <3>3. status' = [status EXCEPT ![line] = s]
        BY <1>6, <3>1 DEF BookEnds
    <3>4. QED
        BY <1>1, <1>2, <3>2, <3>3, StatusTyped
  <2>3. phase' \in {"onerror", "book"} /\ next' \in Nat \ {0}
      BY <1>1, <1>6, FailureTyped DEF BookEnds, ImportTyped
  <2>4. broken' \subseteq Line
      BY <1>1, <1>2, <1>6 DEF BookEnds, ImportTyped
  <2>5. QED
      BY <1>1, <1>2, <1>6, <2>1, <2>2, <2>3, <2>4 DEF BookEnds, TypeInv, ImportTyped, BookingTyped
<1>7. CASE OnError
  <2>1. CASE Refused(status[line])
    <3>1. /\ phase' = "book" /\ next' = next + 1
          /\ UNCHANGED <<bookingVars, status, broken, file, settings, job, line, faults>>
        BY <1>7, <2>1 DEF OnError
    <3>2. next + 1 \in Nat \ {0}
        BY <1>1 DEF ImportTyped
    <3>3. QED
        BY <1>1, <1>2, <3>1, <3>2
        DEF TypeInv, ImportTyped, BookingTyped, ProcessesOK, bookingVars
  <2>2. CASE ~Refused(status[line])
    <3>1. PICK booking : booking = [code |-> NoCode, kind |-> "plain"]
        OBVIOUS
    <3>2. ProcessStarts(booking, "errbooking") /\ booking.code = NoCode /\ booking.kind = "plain"
        BY <1>7, <2>2, <3>1 DEF OnError
    <3>3. proc' \in [Booker -> Proc] /\ ProcessesOK' /\ stale' \in [Booker -> BOOLEAN]
        BY <3>2, StartsEffect
    <3>4. QED
        BY <1>1, <1>2, <1>7, <3>2, <3>3 DEF OnError, ProcessStarts, TypeInv, ImportTyped, BookingTyped
  <2>3. QED
      BY <2>1, <2>2
<1>8. QED
    BY <1>3, <1>4, <1>5, <1>6, <1>7

LEMMA FaultTyped ==
    ASSUME TypeInv, LoseWorker \/ KillChild
    PROVE  TypeInv'
<1>1. Stopped /\ job' \in {"queued", "lost"}
    BY DEF LoseWorker, KillChild
<1>2. proc' \in [Booker -> Proc] /\ ProcessesOK'
    BY <1>1, IdleEffect DEF Stopped
<1>3. faults' \in 0 .. MaxFaults
    BY <1>1, ImportAssumption DEF Stopped, TypeInv, ImportTyped
<1>4. QED
    BY <1>1, <1>2, <1>3 DEF Stopped, TypeInv, ImportTyped, BookingTyped

LEMMA InitTyped ==
    ASSUME Init
    PROVE  TypeInv
<1>1. Importer \in Booker /\ \A b \in Booker : proc[b] = IdleProc
    BY DEF Init, BookingInit, Booker
<1>2. proc \in [Booker -> Proc]
    BY IdleIsProc DEF Init, BookingInit
<1>3. ProcessesOK
    BY <1>1, IdleIsProc DEF ProcessesOK, Booker
<1>4. BookingTyped
  <2>1. trn \in [Number -> Row \cup {NoRow}] /\ stale \in [Booker -> BOOLEAN]
      BY DEF Init, BookingInit
  <2>2. 0 \in 0 .. MaxNum /\ 0 \in 0 .. MaxViews /\ 0 \in Nat
      BY BoundsAssumption
  <2>3. QED
      BY <1>2, <2>1, <2>2 DEF Init, BookingInit, BookingTyped
<1>5. ImportTyped
    BY FilesAssumption, ImportAssumption DEF Init, ImportTyped
<1>6. QED
    BY <1>3, <1>4, <1>5 DEF TypeInv

LEMMA TypeInvKept ==
    ASSUME TypeInv, [Next]_vars
    PROVE  TypeInv'
<1>1. CASE ImportStep
    BY <1>1, RowStepTyped, BookStepTyped, ImporterStepTyped DEF ImportStep
<1>2. CASE LoseWorker \/ KillChild
    BY <1>2, FaultTyped
<1>3. CASE \E v \in Viewer : ViewStep(v) /\ UNCHANGED importVars
    BY <1>3, ViewStepTyped
<1>4. CASE UNCHANGED vars
    BY <1>4 DEF TypeInv, BookingTyped, ImportTyped, ProcessesOK, vars, bookingVars, importVars
<1>5. QED
    BY <1>1, <1>2, <1>3, <1>4 DEF Next

\* Types of the state, for any file, any number of requests beside the import
\* and any number of faults: every item of the file has one of the words of
\* an item, and a process of the booking never those of another phase.
THEOREM TypeCorrect == Spec => []TypeOK
<1>1. Init => TypeInv
    BY InitTyped
<1>2. TypeInv /\ [Next]_vars => TypeInv'
    BY TypeInvKept
<1>3. QED
    BY <1>1, <1>2, TypeInvTypes, PTL DEF Spec

-----------------------------------------------------------------------------
(* What a booker that nobody interrupted knows of the tables *)

Clears == ScheduleReaction \in {"clear_write", "clear_write_or_skip", "clear"}

Knows(p) ==
    /\ p.pc = "ready" /\ p.code # NoCode =>
          \A n \in Owners(trn, p.code) : n \in p.exist \/ (p.mode = "rebook" /\ n = p.num)
    /\ p.pc \in {"number", "insert"} /\ WrittenCode(p) # NoCode => Owners(trn, WrittenCode(p)) = {}
    /\ p.pc \in {"base", "finish"} /\ WrittenCode(p) # NoCode =>
          Owners(trn, WrittenCode(p)) \subseteq {p.num}
    /\ p.pc = "write" /\ Clears => schedules = 0
    /\ p.pc = "finish" /\ ~p.errors => trn[p.num] \in Row /\ trn[p.num].base = "full"

Watch(b) == stale[b] \/ Knows(proc[b])

Apart == \A c \in Code \ twinned : \A m, n \in LiveOwners(trn, c) : m = n

BookingInv ==
    /\ \A b \in Booker : Watch(b)
    /\ Apart
    /\ Clears /\ ~crowded => schedules <= 1

LEMMA KnowsNothing ==
    ASSUME NEW p, p.pc \notin {"ready", "number", "insert", "base", "finish", "write"}
    PROVE  Knows(p)
BY DEF Knows

\* A booker beside the one that steps: it is stale, or the tables are the same.
LEMMA WatchBeside ==
    ASSUME NEW x, Watch(x), proc'[x] = proc[x],
           stale'[x] \/ proc[x].pc = "idle"
              \/ (stale'[x] = stale[x] /\ trn' = trn /\ schedules' = schedules)
    PROVE  Watch(x)'
<1>1. CASE stale'[x]
    BY <1>1 DEF Watch
<1>2. CASE proc[x].pc = "idle"
  <2>1. PICK p : p = proc[x]
      OBVIOUS
  <2>2. Knows(p)'
      BY <1>2, <2>1 DEF Knows
  <2>3. QED
      BY <2>1, <2>2 DEF Watch
<1>3. CASE stale'[x] = stale[x] /\ trn' = trn /\ schedules' = schedules
    BY <1>3 DEF Watch, Knows, WrittenCode, Owners
<1>4. QED
    BY <1>1, <1>2, <1>3

LEMMA Touched ==
    ASSUME TypeInv, NEW b \in Booker, TouchOthers(b)
    PROVE  /\ stale'[b] = stale[b]
           /\ \A x \in Booker \ {b} : stale'[x] \/ proc[x].pc = "idle"
BY DEF TouchOthers, TypeInv, BookingTyped

\* At most the row n gets an owner.
LEMMA ApartStep ==
    ASSUME Apart, twinned \subseteq twinned', NEW n,
           \A m \in Number \ {n} : \A c \in Code : m \in LiveOwners(trn', c) => m \in LiveOwners(trn, c),
           \A c \in Code \ twinned' : n \in LiveOwners(trn', c) =>
               \/ n \in LiveOwners(trn, c)
               \/ \A m \in Number \ {n} : m \notin LiveOwners(trn', c)
    PROVE  Apart'
<1>1. ASSUME NEW c \in Code \ twinned', NEW k \in LiveOwners(trn', c), NEW m \in LiveOwners(trn', c)
      PROVE  k = m
  <2>1. k \in Number /\ m \in Number
      BY DEF LiveOwners, Owners
  <2>2. CASE k # n /\ m # n
      BY <1>1, <2>1, <2>2 DEF Apart
  <2>3. CASE k = n \/ m = n
      BY <1>1, <2>1, <2>3 DEF Apart
  <2>4. QED
      BY <2>2, <2>3
<1>2. \A c : LiveOwners(trn, c)' = LiveOwners(trn', c)
    BY DEF LiveOwners, Owners
<1>3. QED
    BY <1>1, <1>2 DEF Apart

LEMMA SameRowOwns ==
    ASSUME NEW n, trn'[n] = trn[n], NEW c
    PROVE  /\ n \in Owners(trn', c) <=> n \in Owners(trn, c)
           /\ n \in LiveOwners(trn', c) <=> n \in LiveOwners(trn, c)
BY DEF Owners, LiveOwners

LEMMA LiveOwnersOwn ==
    ASSUME NEW tbl, NEW c
    PROVE  LiveOwners(tbl, c) \subseteq Owners(tbl, c) /\ Owners(tbl, c) \subseteq Number
BY DEF Owners, LiveOwners

\* A request that commits.
LEMMA ViewWritesInv ==
    ASSUME TypeInv, BookingInv, NEW v \in Viewer, NEW n \in Number, NEW row \in Row,
           row.code = WrittenCode(proc[v]), proc[v].mode = "rebook" => n = proc[v].num,
           ViewWrites(v, n, row)
    PROVE  BookingInv'
<1>1. PICK p : p = proc[v]
    OBVIOUS
<1>2. /\ v \in Booker /\ p.pc = "ready" /\ p \in Proc /\ ViewAllowed(p) /\ TouchOthers(v)
      /\ TwinnedBy(v, row.code) /\ schedules' = Reacted(p.mode, schedules)
      /\ crowded' = (crowded \/ stale[v]) /\ schedules \in Nat
    BY <1>1 DEF ViewWrites, Booker, TypeInv, BookingTyped
<1>3. /\ proc'[v] = IdleProc /\ \A x \in Booker \ {v} : proc'[x] = proc[x]
    BY ViewEndsStep DEF ViewWrites
<1>4. /\ trn'[n] = row
      /\ \A m \in Number \ {n} :
            IF m \in Dropped(p) THEN \A c \in Code : m \notin Owners(trn', c)
            ELSE trn'[m] = trn[m]
    BY <1>1, ViewEffect
<1>5. twinned \subseteq twinned' /\ (stale[v] /\ row.code # NoCode => row.code \in twinned')
  <2>1. row.code \in Code \cup {NoCode} /\ twinned \subseteq Code
      BY DEF Row, TypeInv, BookingTyped
  <2>2. QED
      BY <1>2, <2>1, TwinnedTyped
<1>6. \A b \in Booker : Watch(b)'
  <2>1. ASSUME NEW x \in Booker \ {v}
        PROVE  Watch(x)'
      BY <1>2, <1>3, Touched, WatchBeside DEF BookingInv
  <2>2. Watch(v)'
    <3>1. Knows(IdleProc)'
        BY IdleIsProc DEF Knows
    <3>2. QED
        BY <1>3, <3>1 DEF Watch
  <2>3. QED
      BY <2>1, <2>2
<1>7. ASSUME NEW m \in Number \ {n}, NEW c \in Code, m \in LiveOwners(trn', c)
      PROVE  m \in LiveOwners(trn, c)
    BY <1>4, <1>7, SameRowOwns, LiveOwnersOwn
<1>8. ASSUME NEW c \in Code \ twinned', n \in LiveOwners(trn', c), NEW m \in Number \ {n}
      PROVE  m \notin LiveOwners(trn', c)
  <2>1. row.code = c /\ c # NoCode
      BY <1>4, <1>8, NoValuesAssumption DEF LiveOwners, Owners
  <2>2. ~stale[v]
      BY <1>5, <1>8, <2>1
  <2>3. WrittenCode(p) = c /\ p.code = c /\ p.unique # "without"
      BY <1>1, <2>1 DEF WrittenCode
  <2>4. \A k \in Owners(trn, c) : k \in p.exist \/ k = n
      BY <1>1, <1>2, <2>1, <2>2, <2>3 DEF BookingInv, Watch, Knows
  <2>5. p.exist \subseteq Dropped(p)
      BY <1>2, <2>1, <2>3 DEF ViewAllowed, Conflict, Dropped
  <2>6. QED
      BY <1>4, <1>8, <2>4, <2>5, SameRowOwns, LiveOwnersOwn
<1>9. Apart'
    BY <1>5, <1>7, <1>8, ApartStep DEF BookingInv
<1>10. Clears /\ ~crowded' => schedules' <= 1
    BY <1>2, ReactedTyped DEF BookingInv, Clears
<1>11. QED
    BY <1>6, <1>9, <1>10 DEF BookingInv

\* A request that starts, or looks at the code.
LEMMA ViewLooksInv ==
    ASSUME TypeInv, BookingInv, NEW v \in Viewer, NEW p, proc' = [proc EXCEPT ![v] = p],
           Knows(p), Fresh(v), UNCHANGED <<trn, schedules, twinned, crowded>>
    PROVE  BookingInv'
<1>1. /\ v \in Booker /\ proc'[v] = p /\ stale'[v] = FALSE
      /\ \A x \in Booker \ {v} : proc'[x] = proc[x] /\ stale'[x] = stale[x]
    BY DEF Fresh, TypeInv, BookingTyped, Booker
<1>2. Knows(p)'
    BY DEF Knows, Owners, WrittenCode
<1>3. \A b \in Booker : Watch(b)'
  <2>1. ASSUME NEW x \in Booker \ {v}
        PROVE  Watch(x)'
      BY <1>1, WatchBeside DEF BookingInv
  <2>2. Watch(v)'
      BY <1>1, <1>2 DEF Watch
  <2>3. QED
      BY <2>1, <2>2
<1>4. Apart'
    BY DEF BookingInv, Apart, LiveOwners, Owners
<1>5. QED
    BY <1>3, <1>4 DEF BookingInv

LEMMA ViewInv ==
    ASSUME TypeInv, BookingInv, NEW v \in Viewer, ViewStep(v)
    PROVE  BookingInv'
<1>1. v \in Booker /\ proc[v] \in Proc
    BY DEF TypeInv, BookingTyped, Booker
<1>2. ASSUME NEW n \in Number, NEW mode \in {"rebook", "delete"}, ViewLoad(v, n, mode)
      PROVE  BookingInv'
  <2>1. PICK p : p = [IdleProc EXCEPT !.pc = "loaded", !.mode = mode, !.num = n, !.copy = trn[n]]
      OBVIOUS
  <2>2. p.pc = "loaded"
      BY <2>1 DEF IdleProc
  <2>3. QED
      BY <1>2, <2>1, <2>2, KnowsNothing, ViewLooksInv DEF ViewLoad, ViewStarts
<1>3. ASSUME NEW c \in Code \cup {NoCode}, NEW reaction, NEW pending, ViewBook(v, c, reaction, pending)
      PROVE  BookingInv'
  <2>1. PICK owners : owners = IF c = NoCode THEN {} ELSE Owners(trn, c)
      OBVIOUS
  <2>2. PICK unique, kind, dead :
           /\ unique = Verdict("book", reaction, c, owners # {})
           /\ kind = IF pending THEN "pending" ELSE "plain"
           /\ dead = Dead(owners)
      OBVIOUS
  <2>3. PICK p : p = [IdleProc EXCEPT !.pc = "ready", !.code = c, !.reaction = reaction,
                                      !.kind = kind, !.unique = unique,
                                      !.exist = owners, !.dead = dead]
      OBVIOUS
  <2>4. p.pc = "ready" /\ p.code = c /\ p.exist = owners
      BY <2>3 DEF IdleProc
  <2>5. Knows(p)
      BY <2>1, <2>4 DEF Knows
  <2>6. proc' = [proc EXCEPT ![v] = p] /\ Fresh(v) /\ UNCHANGED <<trn, schedules, twinned, crowded>>
      BY <1>3, <2>1, <2>2, <2>3 DEF ViewBook, ViewStarts
  <2>7. QED
      BY <2>5, <2>6, ViewLooksInv
<1>4. ASSUME NEW c \in Code \cup {NoCode}, NEW reaction, NEW pending, ViewRebook(v, c, reaction, pending)
      PROVE  BookingInv'
  <2>1. PICK others : others = IF c = NoCode THEN {} ELSE Owners(trn, c) \ {proc[v].num}
      OBVIOUS
  <2>2. PICK unique, kind, dead :
           /\ unique = Verdict("rebook", reaction, c, others # {})
           /\ kind = IF pending THEN "pending" ELSE "plain"
           /\ dead = Dead(others)
      OBVIOUS
  <2>3. PICK p : p = [proc[v] EXCEPT !.pc = "ready", !.code = c, !.reaction = reaction,
                                     !.kind = kind, !.unique = unique,
                                     !.exist = others, !.dead = dead]
      OBVIOUS
  <2>4. /\ p.pc = "ready" /\ p.code = c /\ p.exist = others
        /\ p.mode = proc[v].mode /\ p.num = proc[v].num
      BY <1>1, <2>3 DEF Proc
  <2>5. Knows(p)
      BY <1>4, <2>1, <2>4 DEF Knows, ViewRebook
  <2>6. proc' = [proc EXCEPT ![v].pc = "ready", ![v].code = c, ![v].reaction = reaction,
                             ![v].kind = kind, ![v].unique = unique,
                             ![v].exist = others, ![v].dead = dead]
      BY <1>4, <2>1, <2>2, Zenon DEF ViewRebook
  <2>7. proc' = [proc EXCEPT ![v] = p]
      BY <2>3, <2>6, Zenon
  <2>8. Fresh(v) /\ UNCHANGED <<trn, schedules, twinned, crowded>>
      BY <1>4 DEF ViewRebook
  <2>9. QED
      BY <2>5, <2>7, <2>8, ViewLooksInv
<1>5. CASE ViewRollback(v)
  <2>1. /\ proc'[v] = IdleProc /\ \A x \in Booker \ {v} : proc'[x] = proc[x]
        /\ UNCHANGED <<trn, schedules, stale, twinned, crowded>>
      BY <1>5, ViewEndsStep DEF ViewRollback
  <2>2. Knows(IdleProc)'
      BY IdleIsProc DEF Knows
  <2>3. \A b \in Booker : Watch(b)'
      BY <2>1, <2>2, WatchBeside DEF Watch, BookingInv
  <2>4. QED
      BY <2>1, <2>3 DEF BookingInv, Apart, LiveOwners, Owners
<1>6. CASE ViewCommitBook(v)
  <2>1. RowOf(proc[v], FALSE) \in Row /\ RowOf(proc[v], FALSE).code = WrittenCode(proc[v])
      BY <1>1, RowOfTyped DEF RowOf
  <2>2. PICK n \in Number : ViewWrites(v, n, RowOf(proc[v], FALSE))
      BY <1>6 DEF ViewCommitBook
  <2>3. QED
      BY <1>6, <2>1, <2>2, ViewWritesInv DEF ViewCommitBook
<1>7. CASE ViewCommitRebook(v)
  <2>1. proc[v].num \in Number /\ proc[v].copy \in Row
      BY <1>7 DEF TypeInv, ProcessesOK, ViewerOK, ViewCommitRebook, ViewWrites
  <2>2. PICK row \in Row : row = RowOf(proc[v], proc[v].copy.deleted) /\ row.code = WrittenCode(proc[v])
    <3>1. PICK deleted \in BOOLEAN : deleted = proc[v].copy.deleted
        BY <2>1 DEF Row
    <3>2. RowOf(proc[v], deleted) \in Row
        BY <1>1, RowOfTyped
    <3>3. RowOf(proc[v], deleted).code = WrittenCode(proc[v])
        BY DEF RowOf
    <3>4. QED
        BY <3>1, <3>2, <3>3
  <2>3. ViewWrites(v, proc[v].num, row)
      BY <1>7, <2>2 DEF ViewCommitRebook
  <2>4. QED
      BY <2>1, <2>2, <2>3, ViewWritesInv
<1>8. CASE ViewDelete(v)
  <2>1. PICK n : n = proc[v].num
      OBVIOUS
  <2>2. /\ \A c \in Code : n \notin Owners(trn', c)
        /\ \A m \in Number \ {n} : trn'[m] = trn[m]
      BY <1>8, <2>1, DeleteEffect
  <2>3. /\ proc'[v] = IdleProc /\ \A x \in Booker \ {v} : proc'[x] = proc[x]
        /\ UNCHANGED <<schedules, twinned, crowded>> /\ TouchOthers(v)
      BY <1>8, ViewEndsStep DEF ViewDelete
  <2>4. Knows(IdleProc)'
      BY IdleIsProc DEF Knows
  <2>5. \A b \in Booker : Watch(b)'
      BY <1>1, <2>3, <2>4, Touched, WatchBeside DEF Watch, BookingInv
  <2>6. Apart'
      BY <2>2, <2>3, ApartStep, SameRowOwns, LiveOwnersOwn DEF BookingInv
  <2>7. QED
      BY <2>3, <2>5, <2>6 DEF BookingInv
<1>9. QED
    BY <1>2, <1>3, <1>4, <1>5, <1>6, <1>7, <1>8 DEF ViewStep

\* The importer steps to q, and what it knows there is true.
LEMMA ImporterInv ==
    ASSUME TypeInv, BookingInv, NEW q, Becomes(q), stale'[Importer] \/ Knows(q)',
           \A x \in Booker \ {Importer} :
              \/ stale'[x] \/ proc[x].pc = "idle"
              \/ stale'[x] = stale[x] /\ trn' = trn /\ schedules' = schedules,
           Apart', Clears /\ ~crowded' => schedules' <= 1
    PROVE  BookingInv'
<1>1. Importer \in Booker /\ proc'[Importer] = q /\ \A x \in Booker \ {Importer} : proc'[x] = proc[x]
    BY ImporterProc, BecomesStep
<1>2. \A b \in Booker : Watch(b)'
  <2>1. ASSUME NEW x \in Booker \ {Importer}
        PROVE  Watch(x)'
      BY <1>1, WatchBeside DEF BookingInv
  <2>2. Watch(Importer)'
      BY <1>1 DEF Watch
  <2>3. QED
      BY <2>1, <2>2
<1>3. QED
    BY <1>2 DEF BookingInv

LEMMA ApartSame ==
    ASSUME Apart, UNCHANGED <<trn, twinned>>
    PROVE  Apart'
BY DEF Apart, LiveOwners, Owners

LEMMA ApartRemoves ==
    ASSUME Apart, UNCHANGED twinned, NEW nums, Removes(nums)
    PROVE  Apart'
<1>1. ASSUME NEW m \in Number, NEW c \in Code, m \in LiveOwners(trn', c)
      PROVE  m \in LiveOwners(trn, c)
    BY <1>1, SameRowOwns, LiveOwnersOwn DEF Removes
<1>2. PICK n : n \notin Number
    BY NoValuesAssumption
<1>3. \A c \in Code : n \notin LiveOwners(trn', c)
    BY <1>2, LiveOwnersOwn
<1>4. QED
    BY <1>1, <1>3, ApartStep

\* The steps before the process looks at its code.
LEMMA ScheduleStepsInv ==
    ASSUME TypeInv, BookingInv, PhantomMissing \/ ClearSchedules \/ \E errors \in BOOLEAN : WriteSchedules(errors)
    PROVE  BookingInv'
<1>1. Apart' /\ UNCHANGED trn
    BY ApartSame DEF PhantomMissing, ClearSchedules, WriteSchedules, BookingInv
<1>2. CASE PhantomMissing
  <2>1. PICK q : Becomes(q) /\ q.pc = "over"
      BY <1>2, PhantomEffect
  <2>2. Knows(q)'
      BY <2>1 DEF Knows
  <2>3. QED
      BY <1>1, <1>2, <2>1, <2>2, ImporterInv DEF PhantomMissing, BookingInv
<1>3. CASE ClearSchedules
  <2>1. PICK q : Becomes(q) /\ q.pc = "write"
      BY <1>3, ClearEffect
  <2>2. Clears => schedules' = 0
      BY <1>3 DEF Clears, ClearSchedules
  <2>3. Knows(q)'
      BY <2>1, <2>2 DEF Knows
  <2>4. Clears /\ ~crowded' => schedules' <= 1
      BY <2>2
  <2>5. QED
      BY <1>1, <1>3, <2>1, <2>3, <2>4, ClearEffect, ImporterInv
<1>4. ASSUME NEW errors \in BOOLEAN, WriteSchedules(errors)
      PROVE  BookingInv'
  <2>1. PICK q : Becomes(q) /\ q.pc = "look"
      BY <1>4, WriteEffect
  <2>2. Knows(q)'
      BY <2>1 DEF Knows
  <2>3. Clears /\ ~crowded' => schedules' <= 1
    <3> SUFFICES ASSUME Clears, ~crowded'
                 PROVE  schedules' <= 1
        OBVIOUS
    <3>1. ~stale[Importer] /\ proc[Importer].pc = "write"
        BY <1>4 DEF WriteSchedules, Importing
    <3>2. Knows(proc[Importer])
        BY <3>1, ImporterProc DEF BookingInv, Watch
    <3>3. schedules = 0
        BY <3>1, <3>2 DEF Knows
    <3>4. schedules' \in {0, 0 + 1}
        BY <1>4, <3>3 DEF WriteSchedules
    <3>5. \A n \in {0, 0 + 1} : n <= 1
        OBVIOUS
    <3>6. QED
        BY <3>4, <3>5
  <2>4. \A x \in Booker \ {Importer} : stale'[x] \/ proc[x].pc = "idle"
      BY <1>4, ImporterProc, Touched DEF WriteSchedules
  <2>5. QED
      BY <1>1, <2>1, <2>2, <2>3, <2>4, ImporterInv
<1>5. QED
    BY <1>2, <1>3, <1>4

\* The steps until no row holds the code any more.
LEMMA LookStepsInv ==
    ASSUME TypeInv, BookingInv, Look \/ Drop \/ Check \/ NextValue
    PROVE  BookingInv'
<1>1. UNCHANGED <<schedules, twinned, crowded>> /\ (Clears /\ ~crowded' => schedules' <= 1)
    BY DEF Look, Drop, Check, NextValue, BookingInv
<1>2. CASE Look
  <2>1. PICK q : Becomes(q) /\ q.pc \in {"over", "drop", "check"}
      BY <1>2, LookEffect
  <2>2. Knows(q)'
      BY <2>1 DEF Knows
  <2>3. UNCHANGED <<trn, stale>> /\ Apart'
      BY <1>1, <1>2, ApartSame DEF Look, BookingInv
  <2>4. QED
      BY <1>1, <2>1, <2>2, <2>3, ImporterInv
<1>3. CASE Drop
  <2>1. PICK q : /\ Becomes(q) /\ q.pc \in {"over", "check"}
                 /\ TouchOthers(Importer) \/ UNCHANGED <<trn, stale>>
      BY <1>3, DropEffect
  <2>2. Knows(q)'
      BY <2>1 DEF Knows
  <2>3. Apart'
      BY <1>1, <1>3, DropEffect, ApartSame, ApartRemoves DEF BookingInv
  <2>4. \A x \in Booker \ {Importer} :
              \/ stale'[x] \/ proc[x].pc = "idle"
              \/ stale'[x] = stale[x] /\ trn' = trn
      BY <2>1, ImporterProc, Touched
  <2>5. QED
      BY <1>1, <2>1, <2>2, <2>3, <2>4, ImporterInv
<1>4. CASE Check
  <2>1. CASE \E q : Becomes(q) /\ q.pc = "over" /\ UNCHANGED <<trn, stale>>
    <3>1. PICK q : Becomes(q) /\ q.pc = "over" /\ UNCHANGED <<trn, stale>>
        BY <2>1
    <3>2. Knows(q)'
        BY <3>1 DEF Knows
    <3>3. Apart'
        BY <1>1, <3>1, ApartSame DEF BookingInv
    <3>4. QED
        BY <1>1, <3>1, <3>2, <3>3, ImporterInv
  <2>2. ASSUME NEW q, Becomes(q), q.pc = "number", WrittenCode(q) = WrittenCode(proc[Importer]),
               Removes(WrittenOwners(proc[Importer])),
               \A x \in Booker \ {Importer} :
                  \/ stale'[x] \/ proc[x].pc = "idle"
                  \/ stale'[x] = stale[x] /\ trn' = trn
        PROVE  BookingInv'
    <3>1. WrittenCode(q) # NoCode => Owners(trn', WrittenCode(q)) = {}
      <4>1. SUFFICES ASSUME WrittenCode(q) # NoCode
                     PROVE  Owners(trn', WrittenCode(q)) = {}
          OBVIOUS
      <4>2. PICK c : c = WrittenCode(q)
          OBVIOUS
      <4>3. c \in Code
          BY <2>2, <4>1, <4>2, ImporterProc, RowOfTyped
      <4>4. \A n \in Number : n \notin Owners(trn', c)
        <5>1. WrittenOwners(proc[Importer]) = Owners(trn, c)
            BY <2>2, <4>1, <4>2 DEF WrittenOwners
        <5>2. QED
            BY <2>2, <4>3, <5>1, SameRowOwns DEF Removes
      <4>5. QED
          BY <4>2, <4>4, LiveOwnersOwn
    <3>2. PICK c : c = WrittenCode(q)
        OBVIOUS
    <3>3. c # NoCode => Owners(trn, c)' = {}
        BY <3>1, <3>2 DEF Owners
    <3>4. Knows(q)'
        BY <2>2, <3>2, <3>3 DEF Knows, WrittenCode
    <3>5. Apart'
        BY <1>1, <2>2, ApartRemoves DEF BookingInv
    <3>6. QED
        BY <1>1, <2>2, <3>4, <3>5, ImporterInv
  <2>3. QED
      BY <1>4, <2>1, <2>2, CheckEffect
<1>5. CASE NextValue
  <2>1. PICK q : /\ Becomes(q) /\ q.pc = "insert"
                 /\ WrittenCode(q) = WrittenCode(proc[Importer])
      BY <1>5, NextEffect
  <2>2. UNCHANGED <<trn, stale>> /\ Apart' /\ proc[Importer].pc = "number"
      BY <1>1, <1>5, ApartSame DEF NextValue, BookingInv, Importing
  <2>3. stale[Importer] \/ Knows(proc[Importer])
      BY ImporterProc DEF BookingInv, Watch
  <2>4. Knows(proc[Importer]) => Knows(q)
      BY <2>1, <2>2 DEF Knows
  <2>5. Knows(q) => Knows(q)'
      BY <2>1, <2>2 DEF Knows, WrittenCode, Owners
  <2>6. stale'[Importer] \/ Knows(q)'
      BY <2>2, <2>3, <2>4, <2>5
  <2>7. QED
      BY <1>1, <2>1, <2>2, <2>6, ImporterInv
<1>6. QED
    BY <1>2, <1>3, <1>4, <1>5

\* The steps that write the row.
LEMMA RowStepsInv ==
    ASSUME TypeInv, BookingInv, Insert \/ (\E base \in {"part", "full"} : WriteBase(base)) \/ Finish
    PROVE  BookingInv'
<1>1. UNCHANGED <<schedules, crowded>> /\ (Clears /\ ~crowded' => schedules' <= 1)
    BY DEF Insert, WriteBase, Finish, BookingInv
<1>2. /\ Importer \in Booker /\ proc[Importer] \in Proc /\ twinned \subseteq Code
      /\ (stale[Importer] \/ Knows(proc[Importer]))
      /\ WrittenCode(proc[Importer]) \in Code \cup {NoCode}
    BY ImporterProc, RowOfTyped DEF BookingInv, Watch, TypeInv, BookingTyped
<1>3. CASE Insert
  <2>1. CASE \E q : Becomes(q) /\ q.pc = "over" /\ UNCHANGED <<trn, stale, twinned>>
    <3>1. PICK q : Becomes(q) /\ q.pc = "over" /\ UNCHANGED <<trn, stale, twinned>>
        BY <2>1
    <3>2. Knows(q)'
        BY <3>1 DEF Knows
    <3>3. Apart'
        BY <3>1, ApartSame DEF BookingInv
    <3>4. QED
        BY <1>1, <3>1, <3>2, <3>3, ImporterInv
  <2>2. ASSUME NEW q, NEW row \in Row, Becomes(q), q.pc = "base", q.num \in Number, ~Exists(q.num),
               WrittenCode(q) = WrittenCode(proc[Importer]), row.code = WrittenCode(q),
               trn' = [trn EXCEPT ![q.num] = row],
               TwinnedBy(Importer, WrittenCode(q)), TouchOthers(Importer)
        PROVE  BookingInv'
    <3>1. PICK c \in Code \cup {NoCode}, n \in Number : c = WrittenCode(q) /\ n = q.num
        BY <1>2, <2>2
    <3>2. trn'[n] = row /\ \A m \in Number \ {n} : trn'[m] = trn[m]
        BY <2>2, <3>1 DEF TypeInv, BookingTyped
    <3>3. twinned \subseteq twinned' /\ (stale[Importer] /\ c # NoCode => c \in twinned')
        BY <1>2, <2>2, <3>1, TwinnedTyped
    <3>4. ~stale[Importer] /\ c # NoCode => Owners(trn, c) = {}
        BY <1>2, <1>3, <2>2, <3>1 DEF Knows, Insert, Importing
    <3>5. Owners(trn, c) = {} => Owners(trn', c) \subseteq {n}
        BY <3>2, SameRowOwns, LiveOwnersOwn
    <3>6. Apart'
      <4>1. \A m \in Number \ {n} : \A d \in Code : m \in LiveOwners(trn', d) => m \in LiveOwners(trn, d)
          BY <3>2, SameRowOwns
      <4>2. ASSUME NEW d \in Code \ twinned', n \in LiveOwners(trn', d)
            PROVE  \A m \in Number \ {n} : m \notin LiveOwners(trn', d)
        <5>1. d = c /\ c # NoCode
            BY <2>2, <3>1, <3>2, <4>2, NoValuesAssumption DEF LiveOwners, Owners
        <5>2. Owners(trn', c) \subseteq {n}
            BY <3>3, <3>4, <3>5, <4>2, <5>1
        <5>3. QED
            BY <5>1, <5>2, LiveOwnersOwn
      <4>3. QED
          BY <3>3, <4>1, <4>2, ApartStep DEF BookingInv
    <3>7. stale'[Importer] \/ Knows(q)'
      <4>1. ~stale'[Importer] /\ c # NoCode => Owners(trn, c)' \subseteq {n}
        <5>1. Owners(trn, c)' = Owners(trn', c)
            BY DEF Owners
        <5>2. QED
            BY <1>2, <2>2, <3>4, <3>5, <5>1, Touched
      <4>2. QED
          BY <2>2, <3>1, <4>1 DEF Knows, WrittenCode
    <3>8. \A x \in Booker \ {Importer} : stale'[x] \/ proc[x].pc = "idle"
        BY <1>2, <2>2, Touched
    <3>9. QED
        BY <1>1, <2>2, <3>6, <3>7, <3>8, ImporterInv
  <2>3. QED
      BY <1>3, <2>1, <2>2, InsertEffect
<1>4. ASSUME NEW base \in {"part", "full"}, WriteBase(base)
      PROVE  BookingInv'
  <2>1. PICK q : /\ Becomes(q) /\ q.pc = "finish" /\ q.num = proc[Importer].num
                 /\ WrittenCode(q) = WrittenCode(proc[Importer])
                 /\ ~q.errors => trn'[q.num] \in Row /\ trn'[q.num].base = "full"
      BY <1>4, BaseEffect
  <2>2. ASSUME NEW c \in Code, NEW m
        PROVE  /\ m \in Owners(trn', c) <=> m \in Owners(trn, c)
               /\ m \in LiveOwners(trn', c) <=> m \in LiveOwners(trn, c)
    <3>1. CASE m \in Number
      <4>1. /\ trn[m] = NoRow => trn'[m] = NoRow
            /\ trn[m] # NoRow => /\ trn'[m] # NoRow /\ trn'[m].code = trn[m].code
                                 /\ trn'[m].deleted = trn[m].deleted
          BY <1>4, <3>1, BaseEffect, NoValuesAssumption
      <4>2. QED
          BY <4>1 DEF Owners, LiveOwners
    <3>2. CASE m \notin Number
        BY <3>2, LiveOwnersOwn
    <3>3. QED
        BY <3>1, <3>2
  <2>3. UNCHANGED twinned /\ TouchOthers(Importer) /\ proc[Importer].pc = "base"
      BY <1>4 DEF WriteBase, Importing
  <2>4. Apart'
    <3>1. PICK n : n \notin Number
        BY NoValuesAssumption
    <3>2. \A c \in Code : n \notin LiveOwners(trn', c)
        BY <3>1, LiveOwnersOwn
    <3>3. QED
        BY <2>2, <2>3, <3>2, ApartStep DEF BookingInv
  <2>5. stale'[Importer] \/ Knows(q)'
    <3>1. PICK c \in Code \cup {NoCode} : c = WrittenCode(q)
        BY <1>2, <2>1
    <3>2. PICK n : n = q.num
        OBVIOUS
    <3>3. ~stale[Importer] /\ c # NoCode => Owners(trn, c) \subseteq {n}
        BY <1>2, <2>1, <2>3, <3>1, <3>2 DEF Knows
    <3>4. ~stale'[Importer] /\ c # NoCode => Owners(trn', c) \subseteq {n}
        BY <1>2, <2>2, <2>3, <3>3, Touched
    <3>5. Owners(trn, c)' = Owners(trn', c)
        BY DEF Owners
    <3>6. QED
        BY <2>1, <3>1, <3>2, <3>4, <3>5 DEF Knows, WrittenCode
  <2>6. \A x \in Booker \ {Importer} : stale'[x] \/ proc[x].pc = "idle"
      BY <1>2, <2>3, Touched
  <2>7. QED
      BY <1>1, <2>1, <2>4, <2>5, <2>6, ImporterInv
<1>5. CASE Finish
  <2>1. PICK n \in Number : n = proc[Importer].num /\ \A m \in Number \ {n} : trn'[m] = trn[m]
      BY <1>5, FinishEffect
  <2>2. PICK c \in Code \cup {NoCode} : c = WrittenCode(proc[Importer])
      BY <1>2
  <2>3. PICK q : Becomes(q) /\ q.pc = "over"
      BY <1>5, FinishEffect
  <2>4. Knows(q)'
      BY <2>3 DEF Knows
  <2>5. \A m \in Number \ {n} : \A d \in Code : m \in LiveOwners(trn', d) => m \in LiveOwners(trn, d)
      BY <2>1, SameRowOwns
  <2>6. Apart'
    <3>1. CASE UNCHANGED twinned /\ (trn' = trn \/ \A d \in Code : n \notin Owners(trn', d))
        BY <2>5, <3>1, ApartStep, LiveOwnersOwn DEF BookingInv
    <3>2. CASE TwinnedBy(Importer, c) /\ trn'[n].code = c
      <4>1. twinned \subseteq twinned' /\ (stale[Importer] /\ c # NoCode => c \in twinned')
          BY <1>2, <3>2, TwinnedTyped
      <4>2. ASSUME NEW d \in Code \ twinned', n \in LiveOwners(trn', d)
            PROVE  \A m \in Number \ {n} : m \notin LiveOwners(trn', d)
        <5>1. d = c /\ c # NoCode /\ ~stale[Importer]
            BY <3>2, <4>1, <4>2, NoValuesAssumption DEF LiveOwners, Owners
        <5>2. Owners(trn, c) \subseteq {n}
            BY <1>2, <1>5, <2>1, <2>2, <5>1 DEF Knows, Finish, Importing
        <5>3. QED
            BY <2>5, <5>1, <5>2, LiveOwnersOwn
      <4>3. QED
          BY <2>5, <4>1, <4>2, ApartStep DEF BookingInv
    <3>3. QED
        BY <1>5, <2>1, <2>2, <3>1, <3>2, FinishEffect
  <2>7. \A x \in Booker \ {Importer} : stale'[x] \/ proc[x].pc = "idle" \/ (stale'[x] = stale[x] /\ trn' = trn)
      BY <1>2, <1>5, Touched DEF Finish
  <2>8. QED
      BY <1>1, <2>3, <2>4, <2>6, <2>7, ImporterInv
<1>6. QED
    BY <1>3, <1>4, <1>5

\* The steps over the rows: the importer starts a process, or has none.
LEMMA LinesInv ==
    ASSUME TypeInv, BookingInv, UNCHANGED <<trn, schedules, twinned, crowded>>,
           \/ UNCHANGED <<proc, stale>>
           \/ proc' = [proc EXCEPT ![Importer] = IdleProc] /\ UNCHANGED stale
           \/ /\ proc'[Importer].pc = "schedules"
              /\ \A x \in Booker \ {Importer} : proc'[x] = proc[x] /\ stale'[x] = stale[x]
    PROVE  BookingInv'
<1>1. \A x \in Booker \ {Importer} : proc'[x] = proc[x] /\ stale'[x] = stale[x]
    BY IdleEffect
<1>2. Watch(Importer)'
  <2>1. CASE UNCHANGED <<proc, stale>>
      BY <2>1, ImporterProc, WatchBeside DEF BookingInv
  <2>2. CASE ~UNCHANGED <<proc, stale>>
    <3>1. PICK p : p = proc'[Importer]
        OBVIOUS
    <3>2. p.pc \in {"idle", "schedules"}
        BY <2>2, <3>1, IdleEffect, IdleIsProc
    <3>3. Knows(p)'
        BY <3>2 DEF Knows
    <3>4. QED
        BY <3>1, <3>3 DEF Watch
  <2>3. QED
      BY <2>1, <2>2
<1>3. \A b \in Booker : Watch(b)'
    BY <1>1, <1>2, WatchBeside DEF BookingInv
<1>4. QED
    BY <1>3, ApartSame DEF BookingInv

LEMMA BookingInvKept ==
    ASSUME TypeInv, BookingInv, [Next]_vars
    PROVE  BookingInv'
<1>1. CASE ImporterStep
    BY <1>1, ScheduleStepsInv, LookStepsInv, RowStepsInv DEF ImporterStep
<1>2. CASE ImportBegins \/ RowBegins \/ RowFails \/ BookRefused \/ FieldsFail \/ RowEnds \/ ImportEnds
           \/ UNCHANGED vars
    BY <1>2, LinesInv
    DEF ImportBegins, RowBegins, RowFails, BookRefused, FieldsFail, RowEnds, ImportEnds, vars, bookingVars
<1>3. CASE Book
  <2>1. /\ file[line].bookings[next].code \in Code \cup {NoCode}
        /\ file[line].bookings[next].kind \in {"plain", "procedure"}
      BY <1>3, BookingAt DEF Book, Working, TypeInv
  <2>2. ProcessStarts(file[line].bookings[next], "booking")
      BY <1>3 DEF Book
  <2>3. QED
      BY <2>1, <2>2, StartsEffect, LinesInv DEF ProcessStarts
<1>4. CASE OnError
  <2>1. CASE UNCHANGED bookingVars
      BY <2>1, LinesInv DEF bookingVars
  <2>2. CASE ProcessStarts([code |-> NoCode, kind |-> "plain"], "errbooking")
    <3>1. PICK booking : booking = [code |-> NoCode, kind |-> "plain"]
        OBVIOUS
    <3>2. ProcessStarts(booking, "errbooking") /\ booking.code = NoCode /\ booking.kind = "plain"
        BY <2>2, <3>1
    <3>3. QED
        BY <3>2, StartsEffect, LinesInv DEF ProcessStarts
  <2>3. QED
      BY <1>4, <2>1, <2>2 DEF OnError
<1>5. CASE BookEnds \/ LoseWorker \/ KillChild
    BY <1>5, LinesInv DEF BookEnds, LoseWorker, KillChild, Stopped
<1>6. QED
    BY <1>1, <1>2, <1>3, <1>4, <1>5, ViewInv DEF Next, ImportStep

LEMMA InitBooking ==
    ASSUME Init
    PROVE  BookingInv
<1>1. schedules = 0 /\ \A n \in Number : trn[n] = NoRow
    BY DEF Init, BookingInit
<1>2. \A b \in Booker : proc[b] = IdleProc
    BY DEF Init, BookingInit
<1>3. \A b \in Booker : Watch(b)
    BY <1>2, IdleIsProc, KnowsNothing DEF Watch
<1>4. Apart
    BY <1>1 DEF Apart, LiveOwners, Owners
<1>5. QED
    BY <1>1, <1>3, <1>4 DEF BookingInv

\* Two live rows with one unique code come only from bookings that overlapped:
\* with any number of requests beside the import, and whatever failed
\* bookings and lost workers leave behind.
THEOREM TwinsComeFromOverlap == Spec => []TwinsNeedOverlap
<1>1. Init => TypeInv /\ BookingInv
    BY InitTyped, InitBooking
<1>2. TypeInv /\ BookingInv /\ [Next]_vars => TypeInv' /\ BookingInv'
    BY TypeInvKept, BookingInvKept
<1>3. BookingInv => TwinsNeedOverlap
  <2> SUFFICES ASSUME BookingInv, NEW c \in Code \ twinned
               PROVE  ~(Cardinality(LiveOwners(trn, c)) > 1)
      BY DEF TwinsNeedOverlap
  <2>1. \A m, n \in LiveOwners(trn, c) : m = n
      BY DEF BookingInv, Apart
  <2>2. CASE LiveOwners(trn, c) = {}
      BY <2>2, FS_EmptySet
  <2>3. CASE LiveOwners(trn, c) # {}
    <3>1. PICK n : LiveOwners(trn, c) = {n}
        BY <2>1, <2>3
    <3>2. Cardinality({n}) = 1
        BY FS_Singleton
    <3>3. QED
        BY <3>1, <3>2
  <2>4. QED
      BY <2>2, <2>3
<1>4. QED
    BY <1>1, <1>2, <1>3, PTL DEF Spec

\* A schedule action that clears before it writes leaves at most one schedule,
\* unless two bookings overlapped.
THEOREM OneScheduleIsLeft == Spec => []OneSchedule
<1>1. Init => TypeInv /\ BookingInv
    BY InitTyped, InitBooking
<1>2. TypeInv /\ BookingInv /\ [Next]_vars => TypeInv' /\ BookingInv'
    BY TypeInvKept, BookingInvKept
<1>3. BookingInv => OneSchedule
    BY DEF BookingInv, OneSchedule, Clears
<1>4. QED
    BY <1>1, <1>2, <1>3, PTL DEF Spec

-----------------------------------------------------------------------------
(* What is reported *)

\* A request leaves the process of the importer alone.
LEMMA ViewLeavesImporter ==
    ASSUME TypeInv, NEW v \in Viewer, ViewStep(v)
    PROVE  proc'[Importer] = proc[Importer]
<1>1. v # Importer /\ Importer \in Booker /\ proc \in [Booker -> Proc]
    BY ImporterProc, BookersAssumption
<1>2. ASSUME NEW p, proc' = [proc EXCEPT ![v] = p]
      PROVE  proc'[Importer] = proc[Importer]
    BY <1>1, <1>2
<1>3. ASSUME NEW c, NEW reaction, NEW pending, ViewRebook(v, c, reaction, pending)
      PROVE  proc'[Importer] = proc[Importer]
  <2>1. PICK unique, kind, others, dead :
           proc' = [proc EXCEPT ![v].pc = "ready", ![v].code = c, ![v].reaction = reaction,
                                ![v].kind = kind, ![v].unique = unique,
                                ![v].exist = others, ![v].dead = dead]
      BY <1>3 DEF ViewRebook
  <2>2. PICK p : p = [proc[v] EXCEPT !.pc = "ready", !.code = c, !.reaction = reaction,
                                     !.kind = kind, !.unique = unique,
                                     !.exist = others, !.dead = dead]
      OBVIOUS
  <2>3. proc' = [proc EXCEPT ![v] = p]
      BY <2>1, <2>2, Zenon
  <2>4. QED
      BY <1>2, <2>3
<1>4. QED
    BY <1>2, <1>3
    DEF ViewStep, ViewLoad, ViewBook, ViewStarts, ViewRollback, ViewCommitBook, ViewCommitRebook,
        ViewWrites, ViewDelete, ViewEnds

\* What one step of the process of the importer may do to it.
LEMMA OnlyFinishEnds ==
    ASSUME TypeInv, [Next]_vars, proc[Importer].pc = "finish", proc'[Importer].pc = "over"
    PROVE  Finish
<1>1. \A v \in Viewer : ViewStep(v) => proc'[Importer] = proc[Importer]
    BY ViewLeavesImporter
<1>2. UNCHANGED proc => FALSE
    OBVIOUS
<1>3. ~(ImportBegins \/ RowBegins \/ RowFails \/ BookRefused \/ FieldsFail \/ RowEnds \/ ImportEnds
        \/ UNCHANGED vars)
    BY <1>2
    DEF ImportBegins, RowBegins, RowFails, BookRefused, FieldsFail, RowEnds, ImportEnds, vars, bookingVars
<1>4. ASSUME NEW booking, NEW where, ProcessStarts(booking, where)
      PROVE  FALSE
  <2>1. PICK p : p = [IdleProc EXCEPT !.pc = "schedules", !.code = booking.code,
                                      !.kind = booking.kind, !.reaction = settings]
      OBVIOUS
  <2>2. p.pc = "schedules"
      BY <2>1 DEF IdleProc
  <2>3. proc'[Importer] = p
      BY <1>4, <2>1, ImporterProc DEF ProcessStarts
  <2>4. QED
      BY <2>2, <2>3
<1>5. ~(Book \/ OnError)
    BY <1>2, <1>4 DEF Book, OnError, bookingVars
<1>6. ~(BookEnds \/ LoseWorker \/ KillChild)
    BY IdleEffect, IdleIsProc DEF BookEnds, LoseWorker, KillChild, Stopped
<1>7. ImporterStep => Finish
    BY DEF ImporterStep, PhantomMissing, ClearSchedules, WriteSchedules, Look, Drop, Check, NextValue,
           Insert, WriteBase, Importing
<1>8. QED
    BY <1>1, <1>3, <1>5, <1>6, <1>7 DEF Next, ImportStep

\* A booking that nobody interfered with and that is reported as a success
\* leaves a live row with its code and all of its base transactions.
THEOREM SuccessIsThere == Spec => SuccessIsBooked
<1>1. Init => TypeInv /\ BookingInv
    BY InitTyped, InitBooking
<1>2. TypeInv /\ BookingInv /\ [Next]_vars => TypeInv' /\ BookingInv'
    BY TypeInvKept, BookingInvKept
<1>3. TypeInv /\ BookingInv /\ [Next]_vars =>
         [LET p == proc[Importer] IN
          (p.pc = "finish" /\ proc'[Importer].pc = "over" /\ proc'[Importer].unique = "booked"
             /\ ~stale[Importer]) => Complete(trn'[p.num], WrittenCode(p))]_vars
  <2> SUFFICES ASSUME TypeInv, BookingInv, [Next]_vars, proc[Importer].pc = "finish",
                      proc'[Importer].pc = "over", proc'[Importer].unique = "booked", ~stale[Importer]
               PROVE  Complete(trn'[proc[Importer].num], WrittenCode(proc[Importer]))
      OBVIOUS
  <2>1. Finish
      BY OnlyFinishEnds
  <2>2. PICK n : n = proc[Importer].num
      OBVIOUS
  <2>3. /\ ~proc[Importer].errors
        /\ trn'[n] \in Row
        /\ trn'[n].code = WrittenCode(proc[Importer])
        /\ ~trn'[n].deleted
        /\ trn[n] \in Row => trn'[n].base = trn[n].base
      BY <2>1, <2>2, FinishEffect, BecomesStep
  <2>4. trn[n] \in Row /\ trn[n].base = "full"
      BY <2>2, <2>3, ImporterProc DEF BookingInv, Watch, Knows
  <2>5. QED
      BY <2>2, <2>3, <2>4, NoValuesAssumption DEF Complete
<1>4. QED
    BY <1>1, <1>2, <1>3, PTL DEF Spec, SuccessIsBooked

-----------------------------------------------------------------------------
(* The rows of the file *)

\* Rows that are to come are as they were; an error is the row's own.
RowsInv ==
    job = "running" =>
        /\ \A r \in Line : r > line \/ (r = line /\ phase = "row") => status[r] = "init" /\ r \notin broken
        /\ \A r \in Line : status[r] = "error" => r \in broken
        /\ phase = "onerror" => status[line] = "error"
        /\ phase = "booking" => status[line] # "error"
        /\ phase # "errbooking"

\* The process of the importer works on the booking that is next.
ProcessInv ==
    /\ proc[Importer].pc # "idle" =>
          /\ job = "running" /\ phase = "booking" /\ next <= Len(file[line].bookings)
          /\ proc[Importer].code = file[line].bookings[next].code
          /\ proc[Importer].reaction = settings
    /\ job = "running" /\ phase = "booking" => proc[Importer].pc # "idle"
    /\ proc[Importer].pc = "over" => proc[Importer].unique \in {"booked", "skip", "failed"}

LineInv == RowsInv /\ ProcessInv

EndsAs(q) == q.pc = "over" => q.unique \in {"booked", "skip", "failed"}

LEMMA ImporterGoesOn ==
    ASSUME TypeInv, ImporterStep
    PROVE  /\ proc[Importer].pc \notin {"idle", "over"} /\ proc'[Importer].pc # "idle"
           /\ proc'[Importer].code = proc[Importer].code
           /\ proc'[Importer].reaction = proc[Importer].reaction
           /\ proc'[Importer].pc = "over" => proc'[Importer].unique \in {"booked", "skip", "failed"}
<1>1. proc[Importer].pc \notin {"idle", "over"}
    BY DEF ImporterStep, PhantomMissing, ClearSchedules, WriteSchedules, Look, Drop, Check, NextValue,
           Insert, WriteBase, Finish, Importing
<1>2. \E q : Becomes(q) /\ q.pc # "idle" /\ EndsAs(q)
    BY PhantomEffect, ClearEffect, WriteEffect, LookEffect, DropEffect, CheckEffect, NextEffect,
       InsertEffect, BaseEffect, FinishEffect DEF ImporterStep, EndsAs
<1>3. PICK q : Becomes(q) /\ q.pc # "idle" /\ EndsAs(q)
    BY <1>2
<1>4. proc'[Importer] = q
    BY <1>3, BecomesStep
<1>5. QED
    BY <1>1, <1>3, <1>4 DEF Becomes, EndsAs

\* Beside the rows: the requests, and the steps of the process.
LEMMA LineBeside ==
    ASSUME LineInv, UNCHANGED importVars,
           proc'[Importer].code = proc[Importer].code, proc'[Importer].reaction = proc[Importer].reaction,
           proc'[Importer].pc = "idle" <=> proc[Importer].pc = "idle",
           proc'[Importer].pc = "over" => proc'[Importer].unique \in {"booked", "skip", "failed"}
    PROVE  LineInv'
BY DEF LineInv, RowsInv, ProcessInv, importVars

LEMMA LineOfRows ==
    ASSUME TypeInv, LineInv, ImportBegins \/ RowBegins \/ RowFails \/ RowEnds \/ ImportEnds
    PROVE  LineInv'
<1>1. ImportTyped /\ UNCHANGED proc
    BY DEF TypeInv, ImportBegins, RowBegins, RowFails, RowEnds, ImportEnds, bookingVars
<1>2. PICK l \in Nat : l = line
    BY <1>1, LineIsNat
<1>3. \A r \in Line : r \in Nat
    BY <1>1, LineIsNat DEF Line
<1>4. \A r \in Line : r > l + 1 \/ r = l + 1 => r > l /\ r # l
    BY <1>2, <1>3
<1>5. CASE ImportBegins
  <2>1. proc[Importer].pc = "idle" /\ status' = [r \in Line |-> "init"] /\ broken' = {} /\ phase' = "row"
      BY <1>5 DEF ImportBegins, LineInv, ProcessInv
  <2>2. QED
      BY <1>1, <2>1 DEF LineInv, RowsInv, ProcessInv
<1>6. CASE RowBegins
  <2>1. /\ proc[Importer].pc = "idle" /\ line \in Line /\ phase = "row" /\ job = "running" /\ UNCHANGED <<job, broken>>
        /\ file[line].kind \in {"filtered", "matched", "default"}
      BY <1>1, <1>6, FileTyped DEF RowBegins, Working, LineInv, ProcessInv
  <2>2. CASE file[line].kind = "filtered"
    <3>1. line' = l + 1 /\ phase' = "row" /\ status' = [status EXCEPT ![line] = "skip"]
        BY <1>2, <1>6, <2>1, <2>2 DEF RowBegins
    <3>2. status'[line] = "skip" /\ \A r \in Line \ {line} : status'[r] = status[r]
        BY <1>1, <2>1, <3>1, StatusTyped
    <3>3. RowsInv'
        BY <1>2, <1>4, <2>1, <3>1, <3>2 DEF LineInv, RowsInv
    <3>4. QED
        BY <1>1, <2>1, <3>1, <3>3 DEF LineInv, ProcessInv
  <2>3. CASE file[line].kind = "matched"
    <3>1. UNCHANGED <<line, status>> /\ phase' = "book"
        BY <1>6, <2>1, <2>3 DEF RowBegins
    <3>2. QED
        BY <1>1, <2>1, <3>1 DEF LineInv, RowsInv, ProcessInv
  <2>4. CASE file[line].kind = "default"
    <3>1. UNCHANGED line /\ phase' = "book" /\ status' = [status EXCEPT ![line] = "skip"]
        BY <1>6, <2>1, <2>4 DEF RowBegins
    <3>2. status'[line] = "skip" /\ \A r \in Line \ {line} : status'[r] = status[r]
        BY <1>1, <2>1, <3>1, StatusTyped
    <3>3. \A r \in Line : r > line => r # line
        BY <1>2, <1>3
    <3>4. RowsInv'
        BY <2>1, <3>1, <3>2, <3>3 DEF LineInv, RowsInv
    <3>5. QED
        BY <1>1, <2>1, <3>1, <3>4 DEF LineInv, ProcessInv
  <2>5. QED
      BY <2>1, <2>2, <2>3, <2>4
<1>7. CASE RowFails
  <2>1. /\ proc[Importer].pc = "idle" /\ line \in Line /\ phase = "row" /\ job = "running" /\ UNCHANGED <<job, phase>>
        /\ line' = l + 1 /\ status' = [status EXCEPT ![line] = "error"] /\ broken' = broken \cup {line}
      BY <1>2, <1>7 DEF RowFails, Working, LineInv, ProcessInv
  <2>2. status'[line] = "error" /\ \A r \in Line \ {line} : status'[r] = status[r]
      BY <1>1, <2>1, StatusTyped
  <2>3. RowsInv'
      BY <1>2, <1>4, <2>1, <2>2 DEF LineInv, RowsInv
  <2>4. QED
      BY <1>1, <2>1, <2>3 DEF LineInv, ProcessInv
<1>8. CASE RowEnds
  <2>1. /\ proc[Importer].pc = "idle" /\ phase' = "row" /\ line' = l + 1 /\ UNCHANGED <<job, status, broken>>
      BY <1>2, <1>8 DEF RowEnds, Working, LineInv, ProcessInv
  <2>2. RowsInv'
      BY <1>2, <1>4, <2>1 DEF LineInv, RowsInv
  <2>3. QED
      BY <1>1, <2>1, <2>2 DEF LineInv, ProcessInv
<1>9. CASE ImportEnds
  <2>1. job' = "ended" /\ phase # "booking"
    <3>1. line \notin Line
        BY <1>1, <1>9, LineIsNat DEF ImportEnds
    <3>2. QED
        BY <1>1, <1>9, <3>1 DEF ImportEnds, ImportTyped
  <2>2. proc[Importer].pc = "idle"
      BY <2>1 DEF LineInv, ProcessInv
  <2>3. QED
      BY <1>1, <2>1, <2>2 DEF LineInv, RowsInv, ProcessInv
<1>10. QED
    BY <1>5, <1>6, <1>7, <1>8, <1>9

\* One row changes at most, and it is in error, or was not.
LEMMA LineOfBookings ==
    ASSUME TypeInv, LineInv, BookRefused \/ FieldsFail \/ Book \/ BookEnds \/ OnError
    PROVE  LineInv'
<1>1. ImportTyped /\ line \in Line /\ job = "running" /\ UNCHANGED <<job, line, file, settings>>
    BY DEF TypeInv, ImportTyped, BookRefused, FieldsFail, Book, BookEnds, OnError, Working
<1>2. /\ \A r \in Line : r > line => status[r] = "init" /\ r \notin broken /\ r # line
      /\ \A r \in Line : status[r] = "error" => r \in broken
  <2>1. line \in Nat /\ \A r \in Line : r \in Nat
      BY <1>1, LineIsNat DEF Line
  <2>2. QED
      BY <1>1, <2>1 DEF LineInv, RowsInv
<1>3. CASE BookRefused
  <2>1. /\ status[line] = "error" /\ phase' \in {"onerror", "book"} /\ UNCHANGED <<proc, status, broken>>
        /\ phase = "book" /\ proc[Importer].pc = "idle"
      BY <1>1, <1>3, FailureTyped DEF BookRefused, Refused, Working, bookingVars, LineInv, ProcessInv
  <2>2. QED
      BY <1>1, <1>2, <2>1 DEF LineInv, RowsInv, ProcessInv
<1>4. CASE FieldsFail
  <2>1. /\ status' = [status EXCEPT ![line] = "error"] /\ broken' = broken \cup {line}
        /\ phase' \in {"onerror", "book"} /\ UNCHANGED proc /\ proc[Importer].pc = "idle"
      BY <1>1, <1>4, FailureTyped DEF FieldsFail, Working, bookingVars, LineInv, ProcessInv
  <2>2. status'[line] = "error" /\ \A r \in Line \ {line} : status'[r] = status[r]
      BY <1>1, <2>1, StatusTyped
  <2>3. QED
      BY <1>1, <1>2, <2>1, <2>2 DEF LineInv, RowsInv, ProcessInv
<1>5. CASE Book
  <2>1. /\ file[line].bookings[next].code \in Code \cup {NoCode}
        /\ file[line].bookings[next].kind \in {"plain", "procedure"}
        /\ next <= Len(file[line].bookings)
      BY <1>1, <1>5, BookingAt DEF Book
  <2>2. ProcessStarts(file[line].bookings[next], "booking") /\ status[line] # "error"
      BY <1>5 DEF Book, Refused
  <2>3. /\ proc'[Importer].pc = "schedules" /\ proc'[Importer].code = file[line].bookings[next].code
        /\ proc'[Importer].reaction = settings
      BY <2>1, <2>2, StartsEffect
  <2>4. phase' = "booking" /\ UNCHANGED <<next, status, broken>>
      BY <2>2 DEF ProcessStarts
  <2>5. QED
      BY <1>1, <1>2, <2>1, <2>2, <2>3, <2>4 DEF LineInv, RowsInv, ProcessInv
<1>6. CASE BookEnds
  <2>1. proc[Importer].pc = "over" /\ proc'[Importer].pc = "idle" /\ phase = "booking"
      BY <1>1, <1>6, IdleEffect, IdleIsProc DEF BookEnds, LineInv, ProcessInv
  <2>2. PICK how : how = proc[Importer].unique
      OBVIOUS
  <2>3. status' = [status EXCEPT ![line] = StatusOf(how)]
      BY <1>6, <2>2 DEF BookEnds
  <2>4. StatusOf(how) \in {"skip", "success", "error"}
      BY DEF StatusOf
  <2>5. status'[line] = StatusOf(how) /\ \A r \in Line \ {line} : status'[r] = status[r]
      BY <1>1, <2>3, <2>4, StatusTyped
  <2>6. how \in {"booked", "skip", "failed"}
      BY <2>1, <2>2 DEF LineInv, ProcessInv
  <2>7. CASE how = "failed"
    <3>1. broken' = broken \cup {line} /\ phase' \in {"onerror", "book"}
        BY <1>1, <1>6, <2>1, <2>2, <2>7, FailureTyped DEF BookEnds
    <3>2. status'[line] = "error"
        BY <2>5, <2>7 DEF StatusOf
    <3>3. QED
        BY <1>1, <1>2, <2>1, <2>5, <3>1, <3>2 DEF LineInv, RowsInv, ProcessInv
  <2>8. CASE how # "failed"
    <3>1. broken' = broken /\ phase' = "book"
        BY <1>6, <2>2, <2>8 DEF BookEnds
    <3>2. status'[line] # "error"
        BY <2>5, <2>6, <2>8 DEF StatusOf
    <3>3. QED
        BY <1>1, <1>2, <2>1, <2>5, <3>1, <3>2 DEF LineInv, RowsInv, ProcessInv
  <2>9. QED
      BY <2>7, <2>8
<1>7. CASE OnError
  <2>1. status[line] = "error" /\ proc[Importer].pc = "idle"
      BY <1>1, <1>7 DEF OnError, Working, LineInv, RowsInv, ProcessInv
  <2>2. phase' = "book" /\ UNCHANGED <<proc, status, broken>>
      BY <1>7, <2>1 DEF OnError, Refused, bookingVars
  <2>3. QED
      BY <1>1, <1>2, <2>1, <2>2 DEF LineInv, RowsInv, ProcessInv
<1>8. QED
    BY <1>3, <1>4, <1>5, <1>6, <1>7

\* A lost process leaves no process behind, and no delivery that runs.
LEMMA LineOfFaults ==
    ASSUME TypeInv, LineInv, LoseWorker \/ KillChild
    PROVE  LineInv'
<1>1. job' \in {"queued", "lost"} /\ proc'[Importer].pc = "idle"
    BY IdleEffect, IdleIsProc DEF LoseWorker, KillChild, Stopped
<1>2. QED
    BY <1>1 DEF LineInv, RowsInv, ProcessInv

LEMMA LineInvKept ==
    ASSUME TypeInv, LineInv, [Next]_vars
    PROVE  LineInv'
<1>1. CASE ImporterStep /\ UNCHANGED importVars
    BY <1>1, ImporterGoesOn, LineBeside
<1>2. CASE \E v \in Viewer : ViewStep(v) /\ UNCHANGED importVars
  <2>1. proc'[Importer] = proc[Importer]
      BY <1>2, ViewLeavesImporter
  <2>2. QED
      BY <1>2, <2>1, LineBeside DEF LineInv, ProcessInv
<1>3. CASE UNCHANGED vars
    BY <1>3, LineBeside DEF LineInv, ProcessInv, vars, bookingVars
<1>4. QED
    BY <1>1, <1>2, <1>3, LineOfRows, LineOfBookings, LineOfFaults DEF Next, ImportStep

LEMMA InitLine ==
    ASSUME Init
    PROVE  LineInv
<1>1. job = "queued" /\ phase = "row" /\ proc[Importer] = IdleProc
    BY DEF Init, BookingInit, Booker
<1>2. QED
    BY <1>1, IdleIsProc DEF LineInv, RowsInv, ProcessInv

\* Within one delivery a row whose item is in error stays in error: no other
\* scenario of the row and no error scenario makes a success of it.
THEOREM ErrorStaysError == Spec => ErrorSticks
<1>1. Init => TypeInv /\ LineInv
    BY InitTyped, InitLine
<1>2. TypeInv /\ LineInv /\ [Next]_vars => TypeInv' /\ LineInv'
    BY TypeInvKept, LineInvKept
<1>3. TypeInv /\ LineInv /\ [Next]_vars =>
         [\A r \in Line : status[r] = "error" /\ job = "running" /\ job' = "running"
             => status'[r] = "error"]_vars
  <2> SUFFICES ASSUME TypeInv, LineInv, Next, NEW r \in Line, status[r] = "error",
                      job = "running", job' = "running"
               PROVE  status'[r] = "error"
      BY DEF vars
  <2>1. ImportTyped /\ RowsInv
      BY DEF TypeInv, LineInv
  <2>2. CASE UNCHANGED status
      BY <2>2
  <2>3. CASE line \in Line /\ \E s \in {"init", "skip", "success", "error"} :
                  /\ status' = [status EXCEPT ![line] = s]
                  /\ s = "error" \/ phase \in {"row", "booking"}
    <3>1. PICK s \in {"init", "skip", "success", "error"} :
                  /\ status' = [status EXCEPT ![line] = s]
                  /\ s = "error" \/ phase \in {"row", "booking"}
        BY <2>3
    <3>2. status'[line] = s /\ \A q \in Line \ {line} : status'[q] = status[q]
        BY <2>1, <2>3, <3>1, StatusTyped
    <3>3. phase \in {"row", "booking"} => status[line] # "error"
        BY <2>1, <2>3 DEF RowsInv
    <3>4. QED
        BY <3>1, <3>2, <3>3
  <2>4. RowBegins => UNCHANGED status \/ (line \in Line /\ phase = "row"
                                         /\ status' = [status EXCEPT ![line] = "skip"])
    <3>1. line \in Line => file[line].kind \in {"filtered", "matched", "default"}
        BY <2>1, FileTyped
    <3>2. QED
        BY <3>1 DEF RowBegins, Working
  <2>5. RowFails \/ FieldsFail => line \in Line /\ status' = [status EXCEPT ![line] = "error"]
      BY DEF RowFails, FieldsFail, Working
  <2>6. BookEnds => /\ line \in Line /\ phase = "booking"
                    /\ status' = [status EXCEPT ![line] = StatusOf(proc[Importer].unique)]
      BY <2>1 DEF BookEnds, RowsInv, ImportTyped
  <2>7. StatusOf(proc[Importer].unique) \in {"skip", "success", "error"}
      BY DEF StatusOf
  <2>8. BookRefused \/ Book \/ OnError \/ RowEnds \/ ImportEnds => UNCHANGED status
      BY DEF BookRefused, Book, OnError, ProcessStarts, RowEnds, ImportEnds
  <2>9. ~(ImportBegins \/ LoseWorker \/ KillChild)
      BY DEF ImportBegins, LoseWorker, KillChild
  <2>10. QED
      BY <2>2, <2>3, <2>4, <2>5, <2>6, <2>7, <2>8, <2>9 DEF Next, ImportStep, importVars
<1>4. QED
    BY <1>1, <1>2, <1>3, PTL DEF Spec, ErrorSticks

-----------------------------------------------------------------------------
(* An import that overwrites, with no requests beside it *)

Quiet == views = 0 => ~stale[Importer] /\ \A v \in Viewer : proc[v].pc = "idle"

Alone == views = 0 /\ settings = "overwrite" /\ job \in {"running", "ended"}

\* One live row of the code, and a complete one.
Whole(tbl, c) == \E n \in Number : LiveOwners(tbl, c) = {n} /\ Complete(tbl[n], c)

\* What the process has done to the rows of its code.
CourseOf(p, tbl) ==
    /\ p.pc \in {"drop", "check", "number", "insert", "base", "finish"} =>
          p.code \in Code /\ p.unique \in {"create", "overwrite"}
    /\ p.pc = "drop" => p.exist \subseteq Owners(tbl, p.code)
    /\ p.pc \in {"base", "finish"} => p.num \in Owners(tbl, p.code)
    /\ p.pc = "over" => p.unique \in {"booked", "failed"}
    /\ p.pc = "over" /\ p.unique = "booked" => p.code \in Code /\ Whole(tbl, p.code)

Course == CourseOf(proc[Importer], trn)

Tainted(c) ==
    \E q \in broken : \E j \in 1 .. Len(file[q].bookings) : file[q].bookings[j].code = c

Redoing(c) ==
    LET p == proc[Importer] IN
    p.pc # "idle" /\ p.code = c /\ ~(p.pc = "over" /\ p.unique = "booked")

Passed(r, i) == r < line \/ (r = line /\ phase # "row" /\ i < next)

\* The codes of the bookings that are over are whole, unless a row that failed
\* names them or they are being booked again.
Healed ==
    \A r \in Line \ broken : file[r].kind # "filtered" =>
        \A i \in 1 .. Len(file[r].bookings) : Passed(r, i) =>
            LET c == file[r].bookings[i].code IN
            c \in Code /\ (Tainted(c) \/ Whole(trn, c) \/ Redoing(c))

HealInv == Quiet /\ (Alone => Course /\ Healed)

\* An import that ended has been through its rows.
Ended == job = "ended" => line > Rows

\* A request that begins, or ends, is one that was made.
LEMMA ViewsMade ==
    ASSUME TypeInv, Quiet, NEW v \in Viewer, ViewStep(v)
    PROVE  views' # 0
<1>1. views \in Nat
    BY DEF TypeInv, BookingTyped
<1>2. \A n, mode : ViewLoad(v, n, mode) => views' = views + 1
    BY DEF ViewLoad, ViewStarts
<1>3. ASSUME NEW c, NEW reaction, NEW pending, ViewBook(v, c, reaction, pending)
      PROVE  views' = views + 1
  <2>1. PICK owners : owners = IF c = NoCode THEN {} ELSE Owners(trn, c)
      OBVIOUS
  <2>2. PICK p : p = [IdleProc EXCEPT !.pc = "ready", !.code = c, !.reaction = reaction,
                                      !.kind = IF pending THEN "pending" ELSE "plain",
                                      !.unique = Verdict("book", reaction, c, owners # {}),
                                      !.exist = owners, !.dead = Dead(owners)]
      OBVIOUS
  <2>3. ViewStarts(v, p)
      BY <1>3, <2>1, <2>2 DEF ViewBook
  <2>4. QED
      BY <2>3 DEF ViewStarts
<1>4. ASSUME NEW c, NEW reaction, NEW pending, ViewRebook(v, c, reaction, pending)
      PROVE  proc[v].pc # "idle" /\ UNCHANGED views
  <2>1. proc[v].pc = "loaded" /\ UNCHANGED views
      BY <1>4, Zenon DEF ViewRebook
  <2>2. QED
      BY <2>1
<1>5. ViewRollback(v) \/ ViewCommitBook(v) \/ ViewCommitRebook(v) \/ ViewDelete(v)
         => proc[v].pc # "idle" /\ UNCHANGED views
    BY DEF ViewRollback, ViewCommitBook, ViewCommitRebook, ViewWrites, ViewDelete
<1>6. views' = views + 1 \/ (proc[v].pc # "idle" /\ UNCHANGED views)
    BY <1>2, <1>3, <1>4, <1>5 DEF ViewStep
<1>7. QED
    BY <1>1, <1>6 DEF Quiet

LEMMA QuietKept ==
    ASSUME TypeInv, Quiet, [Next]_vars
    PROVE  Quiet'
<1>1. CASE \E v \in Viewer : ViewStep(v)
    BY <1>1, ViewsMade DEF Quiet
<1>2. Importer \in Booker /\ \A v \in Viewer : v \in Booker /\ v # Importer
    BY ImporterProc, BookersAssumption DEF Booker
<1>3. ASSUME UNCHANGED views, ~stale[Importer] => ~stale'[Importer],
             \A x \in Booker \ {Importer} : proc'[x] = proc[x]
      PROVE  Quiet'
    BY <1>2, <1>3 DEF Quiet
<1>4. CASE ImporterStep
  <2>1. \E q : Becomes(q)
      BY <1>4, PhantomEffect, ClearEffect, WriteEffect, LookEffect, DropEffect, CheckEffect, NextEffect,
         InsertEffect, BaseEffect, FinishEffect DEF ImporterStep
  <2>2. \A x \in Booker \ {Importer} : proc'[x] = proc[x]
      BY <2>1, BecomesStep
  <2>3. TouchOthers(Importer) => stale'[Importer] = stale[Importer]
      BY <1>2, Touched
  <2>4. Check => ~stale'[Importer] \/ UNCHANGED stale
      BY CheckEffect
  <2>5. ClearSchedules => ~stale'[Importer]
      BY ClearEffect
  <2>6. Drop => TouchOthers(Importer) \/ UNCHANGED stale
      BY DropEffect
  <2>7. Insert => TouchOthers(Importer) \/ UNCHANGED stale
      BY InsertEffect
  <2>8. Finish => TouchOthers(Importer) \/ UNCHANGED stale
      BY DEF Finish
  <2>9. PhantomMissing \/ Look \/ NextValue => UNCHANGED stale
      BY DEF PhantomMissing, Look, NextValue
  <2>10. (\E errors \in BOOLEAN : WriteSchedules(errors)) \/ (\E base \in {"part", "full"} : WriteBase(base))
            => TouchOthers(Importer)
      BY DEF WriteSchedules, WriteBase
  <2>11. UNCHANGED views
      BY <1>4 DEF ImporterStep, PhantomMissing, ClearSchedules, WriteSchedules, Look, Drop, Check,
                  NextValue, Insert, WriteBase, Finish
  <2>12. QED
      BY <1>3, <1>4, <2>2, <2>3, <2>4, <2>5, <2>6, <2>7, <2>8, <2>9, <2>10, <2>11 DEF ImporterStep
<1>5. CASE ImportBegins \/ RowBegins \/ RowFails \/ BookRefused \/ FieldsFail \/ RowEnds \/ ImportEnds
           \/ UNCHANGED vars
    BY <1>3, <1>5
    DEF ImportBegins, RowBegins, RowFails, BookRefused, FieldsFail, RowEnds, ImportEnds, vars, bookingVars
<1>6. ASSUME NEW booking, booking.code \in Code \cup {NoCode},
             booking.kind \in {"plain", "procedure"}, NEW where, ProcessStarts(booking, where)
      PROVE  Quiet'
    BY <1>3, <1>6, StartsEffect DEF ProcessStarts
<1>7. CASE Book
  <2>1. /\ file[line].bookings[next].code \in Code \cup {NoCode}
        /\ file[line].bookings[next].kind \in {"plain", "procedure"}
      BY <1>7, BookingAt DEF Book, Working, TypeInv
  <2>2. QED
      BY <1>6, <1>7, <2>1 DEF Book
<1>8. CASE OnError
  <2>1. CASE UNCHANGED bookingVars
      BY <1>3, <2>1 DEF bookingVars
  <2>2. CASE ProcessStarts([code |-> NoCode, kind |-> "plain"], "errbooking")
    <3>1. PICK booking : booking = [code |-> NoCode, kind |-> "plain"]
        OBVIOUS
    <3>2. ProcessStarts(booking, "errbooking") /\ booking.code = NoCode /\ booking.kind = "plain"
        BY <2>2, <3>1
    <3>3. QED
        BY <1>6, <3>2
  <2>3. QED
      BY <1>8, <2>1, <2>2 DEF OnError
<1>9. CASE BookEnds \/ LoseWorker \/ KillChild
    BY <1>3, <1>9, IdleEffect DEF BookEnds, LoseWorker, KillChild, Stopped
<1>10. QED
    BY <1>1, <1>4, <1>5, <1>7, <1>8, <1>9 DEF Next, ImportStep

\* A code whose rows a step neither touches nor makes.
LEMMA WholeSpared ==
    ASSUME NEW d, Whole(trn, d),
           \A n \in Number : \/ trn'[n] = trn[n]
                             \/ n \notin LiveOwners(trn, d) /\ n \notin LiveOwners(trn', d)
    PROVE  Whole(trn', d)
<1>1. PICK n \in Number : LiveOwners(trn, d) = {n} /\ Complete(trn[n], d)
    BY DEF Whole
<1>2. trn'[n] = trn[n]
    BY <1>1
<1>3. \A m \in Number : m \in LiveOwners(trn', d) <=> m \in LiveOwners(trn, d)
    BY SameRowOwns
<1>4. LiveOwners(trn', d) = LiveOwners(trn, d)
    BY <1>3, LiveOwnersOwn
<1>5. QED
    BY <1>1, <1>2, <1>4 DEF Whole

LEMMA WholeRemoves ==
    ASSUME NEW c, NEW d \in Code \ {c}, Whole(trn, d), NEW nums, nums \subseteq Owners(trn, c),
           Removes(nums)
    PROVE  Whole(trn', d)
<1>1. \A n \in nums : n \notin LiveOwners(trn, d) /\ n \notin LiveOwners(trn', d)
    BY LiveOwnersOwn DEF Removes, Owners
<1>2. QED
    BY <1>1, WholeSpared DEF Removes

\* A row that is the code's before or was free, and is the code's or nobody's after.
LEMMA WholeRow ==
    ASSUME NEW c, NEW d \in Code \ {c}, Whole(trn, d), NEW n,
           \A m \in Number \ {n} : trn'[m] = trn[m],
           trn[n] = NoRow \/ trn[n].code = c,
           \/ trn'[n] = trn[n]
           \/ trn'[n].code = c
           \/ \A e \in Code : n \notin Owners(trn', e)
    PROVE  Whole(trn', d)
<1>1. n \notin LiveOwners(trn, d)
    BY DEF LiveOwners, Owners
<1>2. trn'[n] = trn[n] \/ n \notin LiveOwners(trn', d)
    BY LiveOwnersOwn DEF Owners
<1>3. QED
    BY <1>1, <1>2, WholeSpared

\* A step of the process that overwrites, undisturbed.
LEMMA ProcessHeals ==
    ASSUME TypeInv, BookingInv, Quiet, views = 0, Course, ImporterStep,
           proc[Importer].reaction = "overwrite"
    PROVE  /\ Course'
           /\ \A d \in Code \ {proc[Importer].code} : Whole(trn, d) => Whole(trn', d)
<1>1. PICK p \in Proc : p = proc[Importer] /\ CourseOf(p, trn) /\ p.reaction = "overwrite"
    BY ImporterProc DEF Course
<1>2. PICK c : c = p.code /\ c \in Code \cup {NoCode}
    BY <1>1 DEF Proc
<1>3. Knows(p)
    BY <1>1, ImporterProc DEF Quiet, BookingInv, Watch
<1>4. ASSUME NEW q, Becomes(q), CourseOf(q, trn')
      PROVE  Course'
    BY <1>4, BecomesStep DEF Course
<1>5. ASSUME NEW q, Becomes(q), q.pc = "over", q.unique = "failed"
      PROVE  Course'
    BY <1>4, <1>5 DEF CourseOf
<1>6. ASSUME NEW q, Becomes(q), q.pc \in {"write", "look"}
      PROVE  Course'
    BY <1>4, <1>6 DEF CourseOf
<1>7. p.unique \in {"create", "overwrite"} => WrittenCode(p) = c
    BY <1>2 DEF WrittenCode
<1>8. ASSUME NEW q, Becomes(q), q.pc \in {"check", "number", "insert"}, q.unique = p.unique,
             p.pc \in {"drop", "check", "number"}
      PROVE  Course'
    BY <1>1, <1>4, <1>8 DEF CourseOf, Becomes
<1>9. CASE PhantomMissing \/ ClearSchedules \/ \E errors \in BOOLEAN : WriteSchedules(errors)
  <2>1. UNCHANGED trn
      BY <1>9 DEF PhantomMissing, ClearSchedules, WriteSchedules
  <2>2. QED
      BY <1>5, <1>6, <1>9, <2>1, PhantomEffect, ClearEffect, WriteEffect
<1>10. CASE Look
  <2>1. UNCHANGED trn
      BY <1>10 DEF Look
  <2>2. PICK q : /\ Becomes(q)
                 /\ \/ q.pc = "over" /\ q.unique = "failed"
                    \/ /\ q.pc = "drop" /\ q.unique = "overwrite"
                       /\ LookVerdict(p) = "overwrite"
                       /\ q.exist \subseteq Held(p)
                    \/ /\ q.pc = "check" /\ q.unique = LookVerdict(p)
                       /\ q.unique \notin {"raise", "overwrite"}
      BY <1>1, <1>10, LookEffect
  <2>3. q.code = c
      BY <1>1, <1>2, <2>2 DEF Becomes
  <2>4. LookVerdict(p) \in {"create", "overwrite", "raise"} /\ (LookVerdict(p) # "raise" => c # NoCode)
      BY <1>1, <1>2 DEF LookVerdict, Verdict
  <2>5. c # NoCode => Held(p) = Owners(trn, c)
      BY <1>2 DEF Held
  <2>6. CourseOf(q, trn')
      BY <1>2, <2>1, <2>2, <2>3, <2>4, <2>5 DEF CourseOf
  <2>7. QED
      BY <1>4, <2>1, <2>2, <2>6
<1>11. CASE Drop
  <2>1. p.exist \subseteq Owners(trn, c) /\ p.pc = "drop"
      BY <1>1, <1>2, <1>11 DEF Drop, Importing, CourseOf
  <2>2. Removes(p.exist) \/ UNCHANGED trn
      BY <1>1, <1>11, DropEffect
  <2>3. \A d \in Code \ {c} : Whole(trn, d) => Whole(trn', d)
      BY <2>1, <2>2, WholeRemoves
  <2>4. PICK q : /\ Becomes(q)
                 /\ \/ q.pc = "over" /\ q.unique = "failed"
                    \/ q.pc = "check" /\ q.unique = p.unique
      BY <1>1, <1>11, DropEffect
  <2>5. QED
      BY <1>1, <1>2, <1>5, <1>8, <2>1, <2>3, <2>4
<1>12. CASE Check
  <2>1. p.pc = "check" /\ p.unique \in {"create", "overwrite"} /\ c \in Code
      BY <1>1, <1>2, <1>12 DEF Check, Importing, CourseOf
  <2>2. WrittenOwners(p) = Owners(trn, c)
      BY <1>7, <2>1, NoValuesAssumption DEF WrittenOwners
  <2>3. \/ UNCHANGED trn /\ \E q : Becomes(q) /\ q.pc = "over" /\ q.unique = "failed"
        \/ Removes(Owners(trn, c)) /\ \E q : Becomes(q) /\ q.pc = "number" /\ q.unique = p.unique
      BY <1>1, <1>12, <2>1, <2>2, CheckEffect
  <2>4. \A d \in Code \ {c} : Whole(trn, d) => Whole(trn', d)
      BY <2>3, WholeRemoves
  <2>5. QED
      BY <1>1, <1>2, <1>5, <1>8, <2>1, <2>3, <2>4
<1>13. CASE NextValue
  <2>1. UNCHANGED trn /\ p.pc = "number"
      BY <1>1, <1>13 DEF NextValue, Importing
  <2>2. PICK q : Becomes(q) /\ q.pc = "insert" /\ q.unique = p.unique
      BY <1>1, <1>13, NextEffect
  <2>3. QED
      BY <1>8, <2>1, <2>2
<1>14. CASE Insert
  <2>1. p.pc = "insert" /\ p.unique \in {"create", "overwrite"} /\ c \in Code
      BY <1>1, <1>2, <1>14 DEF Insert, Importing, CourseOf
  <2>2. CASE \E q : Becomes(q) /\ q.pc = "over" /\ q.unique = "failed" /\ UNCHANGED trn
      BY <1>5, <2>2
  <2>3. ASSUME NEW q, NEW row, Becomes(q), q.pc = "base", q.num \in Number, ~Exists(q.num),
               q.unique = p.unique, row \in Row, row.code = c, trn' = [trn EXCEPT ![q.num] = row]
        PROVE  Course' /\ \A d \in Code \ {c} : Whole(trn, d) => Whole(trn', d)
    <3>1. PICK n \in Number : n = q.num
        BY <2>3
    <3>2. trn'[n] = row /\ \A m \in Number \ {n} : trn'[m] = trn[m]
        BY <2>3, <3>1 DEF TypeInv, BookingTyped
    <3>3. trn[n] = NoRow
        BY <2>3, <3>1 DEF Exists
    <3>4. n \in Owners(trn', c)
        BY <2>3, <3>2, NoValuesAssumption DEF Owners
    <3>5. CourseOf(q, trn')
        BY <1>1, <1>2, <2>1, <2>3, <3>1, <3>4 DEF CourseOf, Becomes
    <3>6. ASSUME NEW d \in Code \ {c}, Whole(trn, d)
          PROVE  Whole(trn', d)
      <4>1. trn'[n].code = c
          BY <2>3, <3>2
      <4>2. QED
          BY <3>2, <3>3, <3>6, <4>1, WholeRow
    <3>7. QED
        BY <1>4, <2>3, <3>5, <3>6
  <2>4. QED
      BY <1>1, <1>2, <1>7, <1>14, <2>1, <2>2, <2>3, InsertEffect
<1>15. ASSUME NEW base \in {"part", "full"}, WriteBase(base)
       PROVE  Course' /\ \A d \in Code \ {c} : Whole(trn, d) => Whole(trn', d)
  <2>1. /\ p.pc = "base" /\ p.unique \in {"create", "overwrite"} /\ c \in Code
        /\ p.num \in Owners(trn, c)
      BY <1>1, <1>2, <1>15 DEF WriteBase, Importing, CourseOf
  <2>2. PICK n \in Number : n = p.num /\ trn[n] # NoRow /\ trn[n].code = c
      BY <2>1 DEF Owners
  <2>3. /\ \A m \in Number \ {n} : trn'[m] = trn[m]
        /\ trn'[n] \in Row /\ trn'[n].code = c
      BY <1>1, <1>15, <2>2, BaseEffect
  <2>4. PICK q : Becomes(q) /\ q.pc = "finish" /\ q.num = n /\ q.unique = p.unique
      BY <1>1, <1>15, <2>2, BaseEffect
  <2>5. n \in Owners(trn', c)
      BY <2>3, NoValuesAssumption DEF Owners
  <2>6. CourseOf(q, trn')
      BY <1>1, <1>2, <2>1, <2>4, <2>5 DEF CourseOf, Becomes
  <2>7. \A d \in Code \ {c} : Whole(trn, d) => Whole(trn', d)
      BY <2>2, <2>3, WholeRow
  <2>8. QED
      BY <1>4, <2>4, <2>6, <2>7
<1>16. CASE Finish
  <2>1. /\ p.pc = "finish" /\ p.unique \in {"create", "overwrite"} /\ c \in Code
        /\ p.num \in Owners(trn, c)
      BY <1>1, <1>2, <1>16 DEF Finish, Importing, CourseOf
  <2>2. PICK n \in Number : n = p.num /\ trn[n] # NoRow /\ trn[n].code = c
      BY <2>1 DEF Owners
  <2>3. \A m \in Number \ {n} : trn'[m] = trn[m]
      BY <1>1, <1>16, <2>2, FinishEffect
  <2>4. CASE \E q : Becomes(q) /\ q.pc = "over" /\ q.unique = "failed"
                    /\ (trn' = trn \/ \A e \in Code : n \notin Owners(trn', e))
    <3>1. \A d \in Code \ {c} : Whole(trn, d) => Whole(trn', d)
        BY <2>2, <2>3, <2>4, WholeRow
    <3>2. QED
        BY <1>1, <1>2, <1>5, <2>4, <3>1
  <2>5. ASSUME NEW q, Becomes(q), q.pc = "over", q.unique = "booked", ~p.errors,
               trn'[n] \in Row, trn'[n].code = c, ~trn'[n].deleted,
               trn[n] \in Row => trn'[n].base = trn[n].base
        PROVE  Course' /\ \A d \in Code \ {c} : Whole(trn, d) => Whole(trn', d)
    <3>1. trn[n] \in Row /\ trn[n].base = "full" /\ Owners(trn, c) \subseteq {n}
        BY <1>3, <1>7, <2>1, <2>2, <2>5, NoValuesAssumption DEF Knows
    <3>2. Complete(trn'[n], c)
        BY <2>5, <3>1, NoValuesAssumption DEF Complete
    <3>3. \A m \in Number : m \in LiveOwners(trn', c) <=> m = n
      <4>1. n \in LiveOwners(trn', c)
          BY <2>5, NoValuesAssumption DEF LiveOwners, Owners
      <4>2. \A m \in Number \ {n} : m \notin LiveOwners(trn', c)
          BY <2>3, <3>1, SameRowOwns, LiveOwnersOwn
      <4>3. QED
          BY <4>1, <4>2
    <3>4. LiveOwners(trn', c) = {n}
        BY <3>3, LiveOwnersOwn
    <3>5. Whole(trn', c)
        BY <3>2, <3>4 DEF Whole
    <3>6. CourseOf(q, trn')
        BY <1>1, <1>2, <2>1, <2>5, <3>5 DEF CourseOf, Becomes
    <3>7. \A d \in Code \ {c} : Whole(trn, d) => Whole(trn', d)
        BY <2>2, <2>3, <2>5, WholeRow
    <3>8. QED
        BY <1>4, <2>5, <3>6, <3>7
  <2>6. QED
      BY <1>1, <1>2, <1>7, <1>16, <2>1, <2>2, <2>4, <2>5, FinishEffect
<1>17. QED
    BY <1>1, <1>2, <1>9, <1>10, <1>11, <1>12, <1>13, <1>14, <1>15, <1>16 DEF ImporterStep

\* A booking of the file.
LEMMA BookingTypedAt ==
    ASSUME ImportTyped, NEW r \in Line
    PROVE  Len(file[r].bookings) \in Nat
BY FileTyped

\* A step beside the tables and the process, that passes no booking but those
\* of rows that failed.
LEMMA HealedBeside ==
    ASSUME Healed, UNCHANGED <<file, trn>>, broken \subseteq broken',
           \A c : Redoing(c) => Redoing(c)',
           \A r \in Line \ broken' : file[r].kind # "filtered" =>
               \A i \in 1 .. Len(file[r].bookings) : Passed(r, i)' => Passed(r, i)
    PROVE  Healed'
<1>1. \A c : Tainted(c) => Tainted(c)'
    BY DEF Tainted
<1>2. \A c : Whole(trn, c) => Whole(trn, c)'
    BY DEF Whole, LiveOwners, Owners, Complete
<1>3. QED
    BY <1>1, <1>2 DEF Healed

\* The codes of the rows, beside the steps of the process.
LEMMA RowsHeal ==
    ASSUME TypeInv, LineInv, Alone', ImportBegins \/ (Alone /\ Healed),
           ImportBegins \/ RowBegins \/ RowFails \/ RowEnds \/ ImportEnds
    PROVE  Healed' /\ UNCHANGED <<trn, proc>>
<1>1. ImportTyped /\ UNCHANGED <<file, trn, proc>>
    BY DEF TypeInv, ImportBegins, RowBegins, RowFails, RowEnds, ImportEnds, bookingVars
<1>2. PICK l \in Nat : l = line /\ \A r \in Line : r \in Nat
    BY <1>1, LineIsNat DEF Line
<1>3. \A r \in Line : r < l + 1 => r < l \/ r = l
    BY <1>2
<1>4. \A c : Redoing(c) => Redoing(c)'
    BY <1>1 DEF Redoing
<1>5. CASE ImportBegins
  <2>1. line' = 1 /\ phase' = "row"
      BY <1>5 DEF ImportBegins
  <2>2. \A r \in Line : ~(r < 1)
      BY DEF Line
  <2>3. \A r \in Line : \A i : ~Passed(r, i)'
      BY <2>1, <2>2 DEF Passed
  <2>4. QED
      BY <1>1, <2>3 DEF Healed
<1>6. CASE RowBegins
  <2>1. /\ line \in Line /\ phase = "row" /\ next' = 1 /\ UNCHANGED broken
        /\ file[line].kind \in {"filtered", "matched", "default"}
      BY <1>1, <1>6, FileTyped DEF RowBegins, Working
  <2>2. CASE file[line].kind = "filtered"
    <3>1. line' = l + 1 /\ phase' = "row"
        BY <1>2, <1>6, <2>1, <2>2 DEF RowBegins
    <3>2. QED
        BY <1>1, <1>2, <1>3, <1>4, <1>6, <2>1, <2>2, <3>1, HealedBeside DEF Passed, ImportBegins, RowBegins, Working
  <2>3. CASE file[line].kind # "filtered"
    <3>1. UNCHANGED line
        BY <1>6, <2>1, <2>3 DEF RowBegins
    <3>2. \A k : \A i \in 1 .. k : ~(i < 1)
        OBVIOUS
    <3>3. QED
        BY <1>1, <1>4, <1>6, <2>1, <3>1, <3>2, HealedBeside DEF Passed, ImportBegins, RowBegins, Working
  <2>4. QED
      BY <2>2, <2>3
<1>7. CASE RowFails
  <2>1. line' = l + 1 /\ phase' = "row" /\ broken' = broken \cup {line} /\ job = "running"
      BY <1>2, <1>7 DEF RowFails, Working
  <2>2. QED
      BY <1>1, <1>2, <1>3, <1>4, <1>7, <2>1, HealedBeside DEF Passed, ImportBegins
<1>8. CASE RowEnds
  <2>1. /\ line \in Line /\ line' = l + 1 /\ phase' = "row" /\ phase = "book" /\ UNCHANGED broken
        /\ job = "running" /\ next > Len(file[line].bookings)
      BY <1>2, <1>8 DEF RowEnds, Working
  <2>2. \A i \in 1 .. Len(file[line].bookings) : i < next
    <3>1. PICK k \in Nat, n \in Nat : k = Len(file[line].bookings) /\ n = next
        BY <1>1, <2>1, BookingTypedAt DEF ImportTyped
    <3>2. QED
        BY <2>1, <3>1
  <2>3. QED
      BY <1>1, <1>2, <1>3, <1>4, <1>8, <2>1, <2>2, HealedBeside DEF Passed, ImportBegins
<1>9. CASE ImportEnds
    BY <1>1, <1>4, <1>9, HealedBeside DEF Passed, ImportEnds, ImportBegins
<1>10. QED
    BY <1>1, <1>5, <1>6, <1>7, <1>8, <1>9

LEMMA BookingsHeal ==
    ASSUME TypeInv, LineInv, Alone, Course, Healed,
           BookRefused \/ FieldsFail \/ Book \/ BookEnds \/ OnError
    PROVE  Healed' /\ UNCHANGED trn /\ (proc' = proc \/ proc'[Importer].pc \in {"idle", "schedules"})
<1>1. /\ ImportTyped /\ line \in Line /\ job = "running" /\ UNCHANGED <<job, line, file, settings, trn>>
    BY DEF TypeInv, ImportTyped, BookRefused, FieldsFail, Book, BookEnds, OnError, Working, ProcessStarts,
           bookingVars
<1>2. status[line] = "error" => line \in broken
    BY <1>1 DEF LineInv, RowsInv
<1>3. ASSUME line \in broken', broken \subseteq broken', \A c : Redoing(c) => Redoing(c)'
      PROVE  Healed'
    BY <1>1, <1>3, HealedBeside DEF Passed
<1>4. CASE BookRefused
  <2>1. UNCHANGED <<proc, broken>> /\ status[line] = "error"
      BY <1>4 DEF BookRefused, Refused, bookingVars
  <2>2. Healed'
      BY <1>2, <1>3, <2>1 DEF Redoing
  <2>3. QED
      BY <1>1, <2>1, <2>2
<1>5. CASE FieldsFail
  <2>1. UNCHANGED proc /\ broken' = broken \cup {line}
      BY <1>5 DEF FieldsFail, bookingVars
  <2>2. Healed'
      BY <1>3, <2>1 DEF Redoing
  <2>3. QED
      BY <1>1, <2>1, <2>2
<1>6. CASE Book
  <2>1. /\ file[line].bookings[next].code \in Code \cup {NoCode}
        /\ file[line].bookings[next].kind \in {"plain", "procedure"}
      BY <1>1, <1>6, BookingAt DEF Book
  <2>2. ProcessStarts(file[line].bookings[next], "booking") /\ phase = "book"
      BY <1>6 DEF Book, Working
  <2>3. proc[Importer].pc = "idle" /\ proc'[Importer].pc = "schedules"
      BY <2>1, <2>2, StartsEffect DEF LineInv, ProcessInv
  <2>4. phase' = "booking" /\ UNCHANGED <<next, broken>>
      BY <2>2 DEF ProcessStarts
  <2>5. QED
      BY <1>1, <2>2, <2>3, <2>4, HealedBeside DEF Redoing, Passed
<1>7. CASE OnError
  <2>1. status[line] = "error"
      BY <1>1, <1>7 DEF OnError, Working, LineInv, RowsInv
  <2>2. UNCHANGED <<proc, broken>>
      BY <1>7, <2>1 DEF OnError, Refused, bookingVars
  <2>3. QED
      BY <1>1, <1>2, <1>3, <2>1, <2>2 DEF Redoing
<1>8. CASE BookEnds
  <2>1. /\ proc[Importer].pc = "over" /\ proc'[Importer].pc = "idle" /\ phase = "booking"
        /\ next <= Len(file[line].bookings)
        /\ proc[Importer].code = file[line].bookings[next].code
      BY <1>1, <1>8, IdleEffect, IdleIsProc DEF BookEnds, LineInv, RowsInv, ProcessInv, ImportTyped
  <2>2. PICK k \in Nat, n \in Nat \ {0} : k = Len(file[line].bookings) /\ n = next /\ n \in 1 .. k
    <3>1. PICK k \in Nat, n \in Nat \ {0} : k = Len(file[line].bookings) /\ n = next
        BY <1>1, BookingTypedAt DEF ImportTyped
    <3>2. n \in 1 .. k
        BY <2>1, <3>1
    <3>3. QED
        BY <3>1, <3>2
  <2>3. PICK done : done = proc[Importer].code /\ done = file[line].bookings[n].code
      BY <2>1, <2>2
  <2>4. CASE proc[Importer].unique = "failed"
    <3>1. broken' = broken \cup {line}
        BY <1>8, <2>4 DEF BookEnds
    <3>2. Tainted(done)'
        BY <1>1, <2>2, <2>3, <3>1 DEF Tainted
    <3>3. \A c : /\ Tainted(c) => Tainted(c)'
                 /\ Whole(trn, c) => Whole(trn, c)'
                 /\ Redoing(c) => c = done
        BY <1>1, <2>3, <3>1 DEF Tainted, Whole, LiveOwners, Owners, Complete, Redoing
    <3>4. \A r \in Line \ broken' : \A i : Passed(r, i)' => Passed(r, i)
        BY <1>1, <3>1 DEF Passed
    <3>5. Healed'
        BY <1>1, <3>1, <3>2, <3>3, <3>4 DEF Healed
    <3>6. QED
        BY <1>1, <2>1, <3>5
  <2>5. CASE proc[Importer].unique # "failed"
    <3>1. proc[Importer].unique = "booked"
        BY <2>1, <2>5 DEF Course, CourseOf
    <3>2. broken' = broken /\ phase' = "book" /\ next' = n + 1
        BY <1>8, <2>2, <2>5 DEF BookEnds
    <3>3. done \in Code /\ Whole(trn, done)
        BY <2>1, <2>3, <3>1 DEF Course, CourseOf
    <3>4. \A c : ~Redoing(c)
        BY <2>1, <3>1 DEF Redoing
    <3>5. \A c : /\ Tainted(c) => Tainted(c)'
                 /\ Whole(trn, c) => Whole(trn, c)'
        BY <1>1, <3>2 DEF Tainted, Whole, LiveOwners, Owners, Complete
    <3>6. ASSUME NEW r \in Line, NEW i \in 1 .. Len(file[r].bookings), Passed(r, i)'
          PROVE  Passed(r, i) \/ (r = line /\ i = n)
      <4>1. i \in Nat
          BY <1>1, BookingTypedAt
      <4>2. i < n + 1 => i < n \/ i = n
          BY <2>2, <4>1
      <4>3. QED
          BY <1>1, <2>1, <2>2, <3>2, <3>6, <4>2 DEF Passed
    <3>7. Healed'
      <4> SUFFICES ASSUME NEW r \in Line \ broken, file[r].kind # "filtered",
                          NEW i \in 1 .. Len(file[r].bookings), Passed(r, i)'
                   PROVE  /\ file[r].bookings[i].code \in Code
                          /\ Tainted(file[r].bookings[i].code)' \/ Whole(trn, file[r].bookings[i].code)'
          BY <1>1, <3>2 DEF Healed
      <4>1. CASE r = line /\ i = n
          BY <1>1, <2>3, <3>3, <3>5, <4>1
      <4>2. CASE Passed(r, i)
          BY <1>1, <3>4, <3>5, <4>2 DEF Healed
      <4>3. QED
          BY <3>6, <4>1, <4>2
    <3>8. QED
        BY <1>1, <2>1, <3>7
  <2>6. QED
      BY <2>4, <2>5
<1>9. QED
    BY <1>4, <1>5, <1>6, <1>7, <1>8

LEMMA CourseBeside ==
    ASSUME Course, UNCHANGED trn, proc'[Importer] = proc[Importer]
    PROVE  Course'
BY DEF Course, CourseOf, Whole, LiveOwners, Owners, Complete

LEMMA CourseBegins ==
    ASSUME proc'[Importer].pc \in {"idle", "schedules"}
    PROVE  Course'
BY DEF Course, CourseOf

LEMMA HealInvKept ==
    ASSUME TypeInv, BookingInv, LineInv, HealInv, [Next]_vars
    PROVE  HealInv'
<1>1. Quiet'
    BY QuietKept DEF HealInv
<1>2. SUFFICES ASSUME Alone'
               PROVE  Course' /\ Healed'
    BY <1>1 DEF HealInv
<1>3. CASE \E v \in Viewer : ViewStep(v)
    BY <1>2, <1>3, ViewsMade DEF Alone, HealInv
<1>4. CASE LoseWorker \/ KillChild
    BY <1>2, <1>4 DEF Alone, LoseWorker, KillChild
<1>5. CASE UNCHANGED vars
  <2>1. UNCHANGED <<trn, proc, views, importVars>>
      BY <1>5 DEF vars, bookingVars
  <2>2. Alone
      BY <1>2, <2>1 DEF Alone, importVars
  <2>3. Course'
      BY <2>1, <2>2, CourseBeside DEF HealInv
  <2>4. Healed'
      BY <2>1, <2>2, HealedBeside DEF HealInv, importVars, Redoing, Passed
  <2>5. QED
      BY <2>3, <2>4
<1>6. CASE ImportBegins
  <2>1. proc'[Importer].pc = "idle"
      BY <1>6 DEF ImportBegins, LineInv, ProcessInv, bookingVars
  <2>2. QED
      BY <1>2, <1>6, <2>1, CourseBegins, RowsHeal
<1>7. CASE RowBegins \/ RowFails \/ RowEnds \/ ImportEnds
  <2>1. UNCHANGED <<views, settings>> /\ job = "running"
      BY <1>7 DEF RowBegins, RowFails, RowEnds, ImportEnds, Working, bookingVars
  <2>2. Alone
      BY <1>2, <2>1 DEF Alone
  <2>3. Healed' /\ UNCHANGED <<trn, proc>>
      BY <1>2, <1>7, <2>2, RowsHeal DEF HealInv
  <2>4. QED
      BY <2>2, <2>3, CourseBeside DEF HealInv
<1>8. CASE BookRefused \/ FieldsFail \/ Book \/ BookEnds \/ OnError
  <2>1. UNCHANGED <<views, settings>> /\ job = "running"
      BY <1>8 DEF BookRefused, FieldsFail, Book, BookEnds, OnError, ProcessStarts, Working, bookingVars
  <2>2. Alone
      BY <1>2, <2>1 DEF Alone
  <2>3. /\ Healed' /\ UNCHANGED trn
        /\ proc' = proc \/ proc'[Importer].pc \in {"idle", "schedules"}
      BY <1>8, <2>2, BookingsHeal DEF HealInv
  <2>4. QED
      BY <2>2, <2>3, CourseBeside, CourseBegins DEF HealInv
<1>9. CASE ImporterStep /\ UNCHANGED importVars
  <2>1. UNCHANGED views
      BY <1>9 DEF ImporterStep, PhantomMissing, ClearSchedules, WriteSchedules, Look, Drop, Check,
                  NextValue, Insert, WriteBase, Finish
  <2>2. Alone /\ Course /\ Healed /\ Quiet
      BY <1>2, <1>9, <2>1 DEF Alone, importVars, HealInv
  <2>3. PICK c : c = proc[Importer].code
      OBVIOUS
  <2>4. /\ proc[Importer].pc \notin {"idle", "over"} /\ proc'[Importer].pc # "idle"
        /\ proc'[Importer].code = c
      BY <1>9, <2>3, ImporterGoesOn
  <2>5. proc[Importer].reaction = "overwrite"
      BY <2>2, <2>4 DEF LineInv, ProcessInv, Alone
  <2>6. Course' /\ \A d \in Code \ {c} : Whole(trn, d) => Whole(trn', d)
      BY <1>9, <2>2, <2>3, <2>5, ProcessHeals DEF Alone
  <2>7. c \in Code => Redoing(c)' \/ Whole(trn', c)
      BY <2>4, <2>6 DEF Redoing, Course, CourseOf
  <2>8. /\ \A d : Redoing(d) => d = c
        /\ \A d : Tainted(d) => Tainted(d)'
        /\ \A d : Whole(trn, d)' = Whole(trn', d)
      BY <1>9, <2>3 DEF Redoing, Tainted, importVars, Whole, LiveOwners, Owners, Complete
  <2>9. \A r, i : Passed(r, i)' => Passed(r, i)
      BY <1>9 DEF Passed, importVars
  <2>10. UNCHANGED <<file, broken>>
      BY <1>9 DEF importVars
  <2>11. \A d \in Code : Tainted(d) \/ Whole(trn, d) \/ Redoing(d)
                           => Tainted(d)' \/ Whole(trn, d)' \/ Redoing(d)'
      BY <2>6, <2>7, <2>8
  <2>12. Healed'
      BY <2>2, <2>9, <2>10, <2>11 DEF Healed
  <2>13. QED
      BY <2>6, <2>12
<1>10. QED
    BY <1>3, <1>4, <1>5, <1>6, <1>7, <1>8, <1>9 DEF Next, ImportStep

LEMMA EndedKept ==
    ASSUME Ended, [Next]_vars
    PROVE  Ended'
<1>1. CASE UNCHANGED <<job, line>>
    BY <1>1 DEF Ended, Line
<1>2. ImportBegins \/ RowBegins \/ RowFails \/ BookRefused \/ FieldsFail \/ Book \/ BookEnds \/ OnError
         \/ RowEnds \/ LoseWorker \/ KillChild => job' # "ended"
    BY DEF ImportBegins, RowBegins, RowFails, BookRefused, FieldsFail, Book, BookEnds, OnError,
           RowEnds, LoseWorker, KillChild, Working
<1>3. ImportEnds => line' > Rows
    BY DEF ImportEnds
<1>4. QED
    BY <1>1, <1>2, <1>3 DEF Next, ImportStep, Ended, vars, importVars

LEMMA InitHeal ==
    ASSUME Init
    PROVE  HealInv /\ Ended
<1>1. Importer \in Booker /\ \A v \in Viewer : v \in Booker
    BY DEF Booker
<1>2. ~stale[Importer] /\ \A v \in Viewer : proc[v].pc = "idle"
    BY <1>1, IdleIsProc DEF Init, BookingInit
<1>3. job = "queued"
    BY DEF Init
<1>4. QED
    BY <1>2, <1>3 DEF HealInv, Quiet, Alone, Ended

\* An import that overwrites and ends, with no requests beside it, leaves one
\* complete live row for each code whose rows did not fail: any file, any
\* number of lost workers and of rows that they left incomplete.
THEOREM OverwritesHeal == Spec => []OverwriteHeals
<1>1. Init => TypeInv /\ BookingInv /\ LineInv /\ HealInv /\ Ended
    BY InitTyped, InitBooking, InitLine, InitHeal
<1>2. TypeInv /\ BookingInv /\ LineInv /\ HealInv /\ Ended /\ [Next]_vars
         => TypeInv' /\ BookingInv' /\ LineInv' /\ HealInv' /\ Ended'
    BY TypeInvKept, BookingInvKept, LineInvKept, HealInvKept, EndedKept
<1>3. TypeInv /\ LineInv /\ HealInv /\ Ended => OverwriteHeals
  <2> SUFFICES ASSUME TypeInv, LineInv, HealInv, Ended, job = "ended", settings = "overwrite", views = 0,
                      NEW r \in Line \ broken, NEW i \in 1 .. Len(file[r].bookings),
                      file[r].kind # "filtered", ~Tainted(file[r].bookings[i].code)
               PROVE  LET c == file[r].bookings[i].code IN
                      /\ Cardinality(LiveOwners(trn, c)) = 1
                      /\ \A n \in LiveOwners(trn, c) : Complete(trn[n], c)
      BY DEF OverwriteHeals, Tainted
  <2>1. Healed
      BY DEF HealInv, Alone
  <2>2. Passed(r, i)
    <3>1. PICK l \in Nat, k \in Nat : l = line /\ k = Rows /\ l > k
        BY LineIsNat DEF TypeInv, Ended
    <3>2. r \in 1 .. k
        BY <3>1 DEF Line
    <3>3. r < l
        BY <3>1, <3>2
    <3>4. QED
        BY <3>1, <3>3 DEF Passed
  <2>3. PICK c \in Code : c = file[r].bookings[i].code /\ Whole(trn, c)
    <3>1. proc[Importer].pc = "idle"
        BY DEF LineInv, ProcessInv
    <3>2. \A c : ~Redoing(c)
        BY <3>1 DEF Redoing
    <3>3. QED
        BY <2>1, <2>2, <3>2 DEF Healed
  <2>4. PICK n \in Number : LiveOwners(trn, c) = {n} /\ Complete(trn[n], c)
      BY <2>3 DEF Whole
  <2>5. Cardinality({n}) = 1
      BY FS_Singleton
  <2>6. QED
      BY <2>3, <2>4, <2>5
<1>4. QED
    BY <1>1, <1>2, <1>3, PTL DEF Spec

-----------------------------------------------------------------------------
(* An import with no requests beside it, and its promise *)

NoRequests == MaxViews = 0

\* The row that the process has in hand, and why it may take others away.
HandedOf(p, tbl) ==
    /\ p.pc \in {"drop", "check", "number", "insert", "base", "finish"} =>
          /\ p.unique = "overwrite" => p.reaction = "overwrite"
          /\ p.reaction = "without" => p.unique = "without"
    /\ p.pc = "drop" => p.unique = "overwrite" /\ p.code \in Code /\ p.exist \subseteq Owners(tbl, p.code)
    /\ p.pc \in {"base", "finish"} =>
          tbl[p.num] \in Row /\ ~tbl[p.num].deleted /\ tbl[p.num].code = WrittenCode(p)
    /\ p.pc = "base" \/ (p.pc = "finish" /\ p.errors) => tbl[p.num].base # "full"

Handed == HandedOf(proc[Importer], trn)

AloneInv == TypeInv /\ BookingInv /\ LineInv /\ Quiet /\ Handed

PromiseInv == TypeInv /\ BookingInv /\ LineInv /\ Quiet /\ (views = 0 => Handed)

RowStep ==
    \/ ImportBegins \/ RowBegins \/ RowFails
    \/ BookRefused \/ FieldsFail \/ Book \/ BookEnds \/ OnError
    \/ RowEnds \/ ImportEnds

\* Where no request has begun after a step, none had before it.
LEMMA NobodyElse ==
    ASSUME PromiseInv, [Next]_vars, views' = 0
    PROVE  AloneInv /\ Knows(proc[Importer]) /\ \A v \in Viewer : ~ViewStep(v)
<1>1. \A v \in Viewer : ~ViewStep(v)
    BY ViewsMade DEF PromiseInv
<1>2. UNCHANGED views
  <2>1. CASE ImporterStep
      BY <2>1, Zenon DEF ImporterStep, PhantomMissing, ClearSchedules, WriteSchedules, Look, Drop, Check,
                  NextValue, Insert, WriteBase, Finish
  <2>2. CASE RowStep
      BY <2>2 DEF RowStep, ImportBegins, RowBegins, RowFails, BookRefused, FieldsFail, Book, BookEnds,
                  OnError, RowEnds, ImportEnds, ProcessStarts, bookingVars
  <2>3. CASE LoseWorker \/ KillChild \/ UNCHANGED vars
      BY <2>3 DEF LoseWorker, KillChild, Stopped, vars, bookingVars
  <2>4. QED
      BY <1>1, <2>1, <2>2, <2>3 DEF Next, ImportStep, RowStep
<1>3. AloneInv
    BY <1>2 DEF PromiseInv, AloneInv
<1>4. Knows(proc[Importer])
    BY <1>2, <1>3, ImporterProc DEF AloneInv, Quiet, BookingInv, Watch
<1>5. QED
    BY <1>1, <1>3, <1>4

\* Before it has a row in hand, and after, the process is bound by little.
LEMMA HandedFree ==
    ASSUME proc'[Importer].pc \notin {"drop", "check", "number", "insert", "base", "finish"}
    PROVE  Handed'
BY DEF Handed, HandedOf

LEMMA HandedBy ==
    ASSUME TypeInv, NEW q, Becomes(q), HandedOf(q, trn')
    PROVE  Handed'
BY BecomesStep DEF Handed

\* The steps of the process keep what it has in hand.
LEMMA ProcessHands ==
    ASSUME TypeInv, Handed, ImporterStep
    PROVE  Handed'
<1>1. PICK p \in Proc : p = proc[Importer] /\ HandedOf(p, trn)
    BY ImporterProc DEF Handed
<1>2. ASSUME NEW q, Becomes(q), q.pc \in {"over", "write", "look"}
      PROVE  Handed'
    BY <1>2, HandedBy DEF HandedOf
<1>3. ASSUME NEW q, Becomes(q), q.pc \in {"check", "number", "insert"}, q.unique = p.unique,
             p.pc \in {"drop", "check", "number"}
      PROVE  Handed'
    BY <1>1, <1>3, HandedBy DEF HandedOf, Becomes
<1>4. CASE PhantomMissing \/ ClearSchedules \/ \E errors \in BOOLEAN : WriteSchedules(errors)
    BY <1>2, <1>4, PhantomEffect, ClearEffect, WriteEffect
<1>5. CASE Look
  <2>1. PICK q : /\ Becomes(q)
                 /\ \/ q.pc = "over" /\ q.unique = "failed"
                    \/ /\ q.pc = "drop" /\ q.unique = "overwrite"
                       /\ LookVerdict(p) = "overwrite"
                       /\ q.exist \subseteq Held(p)
                    \/ /\ q.pc = "check" /\ q.unique = LookVerdict(p)
                       /\ q.unique \notin {"raise", "overwrite"}
      BY <1>1, <1>5, LookEffect
  <2>2. q.code = p.code /\ q.reaction = p.reaction /\ p.code \in Code \cup {NoCode}
      BY <1>1, <2>1 DEF Becomes, Proc
  <2>3. /\ LookVerdict(p) = "overwrite" => p.reaction = "overwrite" /\ p.code # NoCode
        /\ p.reaction = "without" => LookVerdict(p) = "without"
      BY DEF LookVerdict, Verdict
  <2>4. UNCHANGED trn /\ (p.code # NoCode => Held(p) = Owners(trn, p.code))
      BY <1>5, Zenon DEF Look, Held
  <2>5. HandedOf(q, trn')
      BY <2>1, <2>2, <2>3, <2>4 DEF HandedOf
  <2>6. QED
      BY <2>1, <2>5, HandedBy
<1>6. CASE Drop
  <2>1. p.pc = "drop"
      BY <1>1, <1>6 DEF Drop, Importing
  <2>2. QED
      BY <1>1, <1>2, <1>3, <1>6, <2>1, DropEffect
<1>7. CASE Check
  <2>1. p.pc = "check"
      BY <1>1, <1>7 DEF Check, Importing
  <2>2. QED
      BY <1>1, <1>2, <1>3, <1>7, <2>1, CheckEffect
<1>8. CASE NextValue
  <2>1. p.pc = "number"
      BY <1>1, <1>8 DEF NextValue, Importing
  <2>2. QED
      BY <1>1, <1>3, <1>8, <2>1, NextEffect
<1>9. CASE Insert
  <2>1. p.pc = "insert"
      BY <1>1, <1>9 DEF Insert, Importing
  <2>2. ASSUME NEW q, NEW row, Becomes(q), q.pc = "base", q.num \in Number, q.unique = p.unique,
               row \in Row, row.code = WrittenCode(q), ~row.deleted, row.base = "none",
               trn' = [trn EXCEPT ![q.num] = row]
        PROVE  Handed'
    <3>1. trn'[q.num] = row
        BY <2>2 DEF TypeInv, BookingTyped
    <3>2. q.reaction = p.reaction
        BY <1>1, <2>2 DEF Becomes
    <3>3. HandedOf(q, trn')
        BY <1>1, <2>1, <2>2, <3>1, <3>2 DEF HandedOf
    <3>4. QED
        BY <2>2, <3>3, HandedBy
  <2>3. QED
      BY <1>1, <1>2, <1>9, <2>2, InsertEffect
<1>10. ASSUME NEW base \in {"part", "full"}, WriteBase(base)
       PROVE  Handed'
  <2>1. p.pc = "base"
      BY <1>1, <1>10 DEF WriteBase, Importing
  <2>2. trn[p.num] \in Row /\ trn[p.num] # NoRow /\ ~trn[p.num].deleted /\ trn[p.num].code = WrittenCode(p)
      BY <1>1, <2>1, NoValuesAssumption DEF HandedOf
  <2>3. p.num \in Number /\ trn'[p.num] \in Row /\ trn'[p.num].code = trn[p.num].code
        /\ trn'[p.num].deleted = trn[p.num].deleted
      BY <1>1, <1>10, <2>2, BaseEffect
  <2>4. PICK q : /\ Becomes(q) /\ q.pc = "finish" /\ q.num = p.num
                 /\ q.unique = p.unique
                 /\ WrittenCode(q) = WrittenCode(p)
                 /\ trn[q.num] # NoRow /\ q.errors => trn'[q.num].base # "full"
      BY <1>1, <1>10, BaseEffect
  <2>5. q.reaction = p.reaction
      BY <1>1, <2>4 DEF Becomes
  <2>6. HandedOf(q, trn')
      BY <1>1, <2>1, <2>2, <2>3, <2>4, <2>5 DEF HandedOf
  <2>7. QED
      BY <2>4, <2>6, HandedBy
<1>11. CASE Finish
    BY <1>2, <1>11, FinishEffect
<1>12. QED
    BY <1>4, <1>5, <1>6, <1>7, <1>8, <1>9, <1>10, <1>11 DEF ImporterStep

\* What the steps over the rows do to the booking: they start a process, or
\* leave none, or leave everything as it was.
LEMMA RowSteps ==
    ASSUME TypeInv, RowStep \/ LoseWorker \/ KillChild
    PROVE  /\ UNCHANGED <<trn, settings>>
           /\ proc' = proc \/ proc'[Importer].pc \in {"idle", "schedules"}
<1>1. CASE ImportBegins \/ RowBegins \/ RowFails \/ BookRefused \/ FieldsFail \/ RowEnds \/ ImportEnds
    BY <1>1 DEF ImportBegins, RowBegins, RowFails, BookRefused, FieldsFail, RowEnds, ImportEnds, bookingVars
<1>2. ASSUME NEW booking, NEW where, ProcessStarts(booking, where)
      PROVE  UNCHANGED trn /\ proc'[Importer].pc = "schedules"
  <2>1. PICK p : p = [IdleProc EXCEPT !.pc = "schedules", !.code = booking.code,
                                      !.kind = booking.kind, !.reaction = settings]
      OBVIOUS
  <2>2. p.pc = "schedules"
      BY <2>1 DEF IdleProc
  <2>3. proc'[Importer] = p
      BY <1>2, <2>1, ImporterProc DEF ProcessStarts
  <2>4. QED
      BY <1>2, <2>2, <2>3 DEF ProcessStarts
<1>3. CASE Book \/ OnError
    BY <1>2, <1>3 DEF Book, OnError, bookingVars
<1>4. CASE BookEnds \/ LoseWorker \/ KillChild
    BY <1>4, IdleEffect, IdleIsProc DEF BookEnds, LoseWorker, KillChild, Stopped
<1>5. QED
    BY <1>1, <1>3, <1>4 DEF RowStep

LEMMA PromiseInvKept ==
    ASSUME PromiseInv, [Next]_vars
    PROVE  PromiseInv'
<1>1. TypeInv' /\ BookingInv' /\ LineInv' /\ Quiet'
    BY TypeInvKept, BookingInvKept, LineInvKept, QuietKept DEF PromiseInv
<1>2. ASSUME views' = 0
      PROVE  Handed'
  <2>1. TypeInv /\ Handed /\ \A v \in Viewer : ~ViewStep(v)
      BY <1>2, NobodyElse DEF AloneInv
  <2>2. CASE ImporterStep
      BY <2>1, <2>2, ProcessHands
  <2>3. CASE UNCHANGED <<trn, proc>>
      BY <2>1, <2>3 DEF Handed, HandedOf, Owners, WrittenCode
  <2>4. CASE RowStep \/ LoseWorker \/ KillChild
      BY <2>1, <2>3, <2>4, RowSteps, HandedFree
  <2>5. QED
      BY <2>1, <2>2, <2>3, <2>4 DEF Next, ImportStep, RowStep, vars, bookingVars
<1>3. QED
    BY <1>1, <1>2 DEF PromiseInv

-----------------------------------------------------------------------------
(* The transactions that stand *)

\* What stands stays as it was.
LEMMA BookedSame ==
    ASSUME \A n \in Number : Stands(n)' <=> Stands(n),
           \A n \in Number : Stands(n) => trn'[n].code = trn[n].code
    PROVE  Booked' = Booked
BY DEF Booked

LEMMA BookedMore ==
    ASSUME NEW m \in Number, NEW c,
           \A n \in Number \ {m} : Stands(n)' <=> Stands(n),
           \A n \in Number \ {m} : Stands(n) => trn'[n].code = trn[n].code,
           ~Stands(m), Stands(m)', trn'[m].code = c
    PROVE  Booked' = Booked \cup {<<m, c>>}
BY DEF Booked

LEMMA BookedLess ==
    ASSUME NEW c, NEW nums, nums \subseteq Owners(trn, c),
           \A n \in Number \ nums : Stands(n)' <=> Stands(n),
           \A n \in Number \ nums : Stands(n) => trn'[n].code = trn[n].code,
           \A n \in nums : ~Stands(n)'
    PROVE  \E gone \in SUBSET {b \in Booked : b[2] = c} : Booked' = Booked \ gone
<1>1. PICK gone : gone = {<<n, c>> : n \in {m \in nums : Stands(m)}}
    OBVIOUS
<1>2. nums \subseteq Number /\ \A n \in nums : trn[n].code = c
    BY DEF Owners
<1>3. gone \in SUBSET {b \in Booked : b[2] = c}
  <2>1. SUFFICES ASSUME NEW n \in nums, Stands(n)
                 PROVE  <<n, c>> \in Booked
      BY <1>1
  <2>2. QED
      BY <1>2, <2>1 DEF Booked
<1>4. Booked' = Booked \ gone
  <2>1. \A b : b \in Booked <=> \E n \in Number : Stands(n) /\ b = <<n, trn[n].code>>
      BY DEF Booked
  <2>2. \A b : b \in Booked' <=> \E n \in Number : Stands(n)' /\ b = <<n, trn'[n].code>>
      BY DEF Booked
  <2>3. \A b : b \in gone <=> \E n \in nums : Stands(n) /\ b = <<n, c>>
      BY <1>1
  <2>4. \A b : b \in Booked' => b \in Booked /\ b \notin gone
      BY <2>1, <2>2, <2>3
  <2>5. \A b : b \in Booked /\ b \notin gone => b \in Booked'
      BY <1>2, <2>1, <2>2, <2>3
  <2>6. QED
      BY <2>4, <2>5
<1>5. QED
    BY <1>3, <1>4

\* A row that is the same, of a process that has nothing in hand.
LEMMA StandsSame ==
    ASSUME NEW n, trn'[n] = trn[n], InHand(n)' <=> InHand(n)
    PROVE  Stands(n)' <=> Stands(n)
BY DEF Stands, Live

\* A transaction that is new has a code of its own, and stood not before.
LEMMA BookRefines ==
    ASSUME AloneInv, NEW p, p = proc[Importer], p.pc = "finish", Knows(p), UNCHANGED settings,
           NEW c, c = WrittenCode(p),
           Stands(p.num)', trn'[p.num].code = c,
           \A n \in Number \ {p.num} : trn'[n] = trn[n], proc'[Importer].pc # "finish"
    PROVE  Promise!Next
<1>1. p \in Proc /\ p.num \in Number /\ c \in Code \cup {NoCode}
    BY ImporterProc, RowOfTyped DEF AloneInv, ImporterOK
<1>2. \A n \in Number : InHand(n) <=> n = p.num
    BY DEF InHand
<1>3. \A n \in Number : ~InHand(n)'
    BY DEF InHand
<1>4. ~Stands(p.num) /\ \A n \in Number \ {p.num} : Stands(n)' <=> Stands(n)
    BY <1>1, <1>2, <1>3, StandsSame DEF Stands
<1>5. Booked' = Booked \cup {<<p.num, c>>}
    BY <1>1, <1>4, BookedMore
<1>6. ASSUME NEW b \in Booked
      PROVE  b[1] # p.num /\ (c # NoCode => b[2] # c)
  <2>1. PICK n \in Number : Stands(n) /\ b = <<n, trn[n].code>>
      BY <1>6 DEF Booked
  <2>2. n # p.num
      BY <1>4, <2>1
  <2>3. trn[n] # NoRow
      BY <2>1 DEF Stands, Live
  <2>4. c # NoCode => trn[n].code # c
      BY <2>2, <2>3 DEF Knows, Owners
  <2>5. QED
      BY <2>1, <2>2, <2>4
<1>7. settings = "without" => c = NoCode
    BY DEF AloneInv, Handed, HandedOf, LineInv, ProcessInv, WrittenCode
<1>8. Promise!Book(p.num, c)
    BY <1>5, <1>6, <1>7 DEF Promise!Book
<1>9. QED
    BY <1>1, <1>8 DEF Promise!Next, Number

\* The rows of a code that comes again go only when the scheme overwrites.
LEMMA ReplaceRefines ==
    ASSUME AloneInv, UNCHANGED settings, NEW c \in Code, NEW nums, nums \subseteq Owners(trn, c),
           Removes(nums), settings = "overwrite",
           proc[Importer].pc # "finish", proc'[Importer].pc # "finish"
    PROVE  Promise!Next
<1>1. \A n \in Number : ~InHand(n) /\ ~InHand(n)'
    BY DEF InHand
<1>2. \A n \in Number \ nums : Stands(n)' <=> Stands(n)
    BY <1>1, StandsSame DEF Removes
<1>3. \A n \in nums : ~Stands(n)'
    BY DEF Removes, Stands, Live
<1>4. \A n \in Number \ nums : Stands(n) => trn'[n].code = trn[n].code
    BY DEF Removes
<1>5. \E gone \in SUBSET {b \in Booked : b[2] = c} : Booked' = Booked \ gone
    BY <1>2, <1>3, <1>4, BookedLess
<1>6. QED
    BY <1>5 DEF Promise!Next, Promise!Replace

\* A step that leaves the rows as they are.
LEMMA SameRefines ==
    ASSUME UNCHANGED <<trn, settings>>, \A n \in Number : InHand(n)' <=> InHand(n)
    PROVE  UNCHANGED Promise!vars
<1>1. \A n \in Number : Stands(n)' <=> Stands(n)
    BY StandsSame
<1>2. Booked' = Booked
    BY <1>1, BookedSame
<1>3. QED
    BY <1>2 DEF Promise!vars

\* The steps over the rows that change the process find none that has a row in hand.
LEMMA ProcessWaits ==
    ASSUME LineInv, RowStep, proc[Importer].pc = "finish"
    PROVE  proc' = proc
<1>1. job = "running" /\ phase = "booking"
    BY DEF LineInv, ProcessInv
<1>2. ~(Book \/ OnError \/ BookEnds)
    BY <1>1 DEF Book, OnError, BookEnds, Working
<1>3. ImportBegins \/ RowBegins \/ RowFails \/ BookRefused \/ FieldsFail \/ RowEnds \/ ImportEnds
    BY <1>2 DEF RowStep
<1>4. QED
    BY <1>3 DEF ImportBegins, RowBegins, RowFails, BookRefused, FieldsFail, RowEnds, ImportEnds, bookingVars

\* A step that writes one row which stands neither before nor after.
LEMMA RowRefines ==
    ASSUME UNCHANGED settings, NEW m, \A n \in Number \ {m} : trn'[n] = trn[n],
           \A n \in Number \ {m} : InHand(n)' <=> InHand(n),
           ~Stands(m), ~Stands(m)'
    PROVE  UNCHANGED Promise!vars
<1>1. \A n \in Number \ {m} : Stands(n)' <=> Stands(n)
    BY StandsSame
<1>2. \A n \in Number : Stands(n)' <=> Stands(n)
    BY <1>1
<1>3. \A n \in Number : Stands(n) => trn'[n].code = trn[n].code
    BY <1>2
<1>4. Booked' = Booked
    BY <1>2, <1>3, BookedSame
<1>5. QED
    BY <1>4 DEF Promise!vars

\* A step of the process is a step of the promise, or one it does not see.
LEMMA ProcessRefines ==
    ASSUME AloneInv, Knows(proc[Importer]), ImporterStep, UNCHANGED importVars
    PROVE  [Promise!Next]_(Promise!vars)
<1>1. PICK p \in Proc : p = proc[Importer] /\ HandedOf(p, trn) /\ Knows(p)
    BY ImporterProc DEF AloneInv, Handed
<1>2. TypeInv /\ UNCHANGED settings /\ trn \in [Number -> Row \cup {NoRow}]
    BY DEF AloneInv, importVars, TypeInv, BookingTyped
<1>3. p.pc # "idle" => p.reaction = settings
    BY <1>1 DEF AloneInv, LineInv, ProcessInv
<1>4. ASSUME NEW q, Becomes(q), q.pc # "finish", p.pc # "finish"
      PROVE  proc'[Importer].pc # "finish" /\ \A n \in Number : ~InHand(n) /\ ~InHand(n)'
  <2>1. proc'[Importer].pc # "finish" /\ proc[Importer].pc # "finish"
      BY <1>1, <1>2, <1>4, BecomesStep
  <2>2. QED
      BY <2>1 DEF InHand
<1>5. CASE PhantomMissing \/ ClearSchedules \/ (\E errors \in BOOLEAN : WriteSchedules(errors))
           \/ Look \/ NextValue
  <2>1. UNCHANGED trn /\ p.pc # "finish"
      BY <1>1, <1>5, Zenon DEF PhantomMissing, ClearSchedules, WriteSchedules, Look, NextValue, Importing
  <2>2. \E q : Becomes(q) /\ q.pc # "finish"
      BY <1>2, <1>5, PhantomEffect, ClearEffect, WriteEffect, LookEffect, NextEffect
  <2>3. QED
      BY <1>2, <1>4, <2>1, <2>2, SameRefines
<1>6. CASE Drop
  <2>1. p.pc = "drop"
      BY <1>1, <1>6 DEF Drop, Importing
  <2>2. p.code \in Code /\ p.exist \subseteq Owners(trn, p.code) /\ settings = "overwrite"
      BY <1>1, <1>3, <2>1 DEF HandedOf
  <2>3. PICK q : Becomes(q) /\ q.pc # "finish"
      BY <1>2, <1>6, DropEffect
  <2>4. CASE Removes(p.exist)
    <3>1. proc[Importer].pc # "finish" /\ proc'[Importer].pc # "finish"
        BY <1>1, <1>4, <2>1, <2>3
    <3>2. QED
        BY <1>2, <2>2, <2>4, <3>1, ReplaceRefines
  <2>5. CASE UNCHANGED trn
      BY <1>2, <1>4, <2>1, <2>3, <2>5, SameRefines
  <2>6. QED
      BY <1>1, <1>2, <1>6, <2>4, <2>5, DropEffect
<1>7. CASE Check
  <2>1. p.pc = "check"
      BY <1>1, <1>7 DEF Check, Importing
  <2>2. CASE \E q : Becomes(q) /\ q.pc = "over" /\ UNCHANGED trn
      BY <1>2, <1>4, <2>1, <2>2, SameRefines
  <2>3. ASSUME NEW q, Becomes(q), q.pc = "number", Removes(WrittenOwners(p)),
               WrittenOwners(p) # {} => p.unique = "overwrite"
        PROVE  [Promise!Next]_(Promise!vars)
    <3>1. proc[Importer].pc # "finish" /\ proc'[Importer].pc # "finish"
          /\ \A n \in Number : ~InHand(n) /\ ~InHand(n)'
        BY <1>1, <1>4, <2>1, <2>3
    <3>2. CASE WrittenOwners(p) = {}
      <4>1. trn' \in [Number -> Row \cup {NoRow}] /\ \A n \in Number : trn'[n] = trn[n]
          BY <2>3, <3>2 DEF Removes
      <4>2. UNCHANGED trn
          BY <1>2, <4>1
      <4>3. QED
          BY <1>2, <3>1, <4>2, SameRefines
    <3>3. CASE WrittenOwners(p) # {}
      <4>1. PICK c \in Code : c = WrittenCode(p) /\ WrittenOwners(p) = Owners(trn, c)
          BY <1>1, <3>3, RowOfTyped DEF WrittenOwners
      <4>2. settings = "overwrite"
          BY <1>1, <1>3, <2>1, <2>3, <3>3 DEF HandedOf
      <4>3. QED
          BY <1>2, <2>3, <3>1, <4>1, <4>2, ReplaceRefines
    <3>4. QED
        BY <3>2, <3>3
  <2>4. QED
      BY <1>1, <1>2, <1>7, <2>2, <2>3, CheckEffect
<1>8. CASE Insert
  <2>1. p.pc = "insert"
      BY <1>1, <1>8 DEF Insert, Importing
  <2>2. CASE \E q : Becomes(q) /\ q.pc = "over" /\ UNCHANGED trn
      BY <1>2, <1>4, <2>1, <2>2, SameRefines
  <2>3. ASSUME NEW q, NEW row, Becomes(q), q.pc = "base", q.num \in Number, ~Exists(q.num),
               row \in Row, row.base = "none", trn' = [trn EXCEPT ![q.num] = row]
        PROVE  UNCHANGED Promise!vars
    <3>1. PICK m \in Number : m = q.num
        BY <2>3
    <3>2. trn'[m] = row /\ \A n \in Number \ {m} : trn'[n] = trn[n]
        BY <1>2, <2>3, <3>1
    <3>3. ~Stands(m) /\ ~Stands(m)'
        BY <2>3, <3>1, <3>2 DEF Stands, Live, Exists
    <3>4. \A n \in Number : InHand(n)' <=> InHand(n)
        BY <1>4, <2>1, <2>3
    <3>5. QED
        BY <1>2, <3>2, <3>3, <3>4, RowRefines
  <2>4. QED
      BY <1>2, <1>8, <2>2, <2>3, InsertEffect
<1>9. ASSUME NEW base \in {"part", "full"}, WriteBase(base)
      PROVE  UNCHANGED Promise!vars
  <2>1. p.pc = "base"
      BY <1>1, <1>9 DEF WriteBase, Importing
  <2>2. PICK m \in Number : m = p.num /\ \A n \in Number \ {m} : trn'[n] = trn[n]
      BY <1>1, <1>2, <1>9, BaseEffect
  <2>3. PICK q : Becomes(q) /\ q.pc = "finish" /\ q.num = m
      BY <1>1, <1>2, <1>9, <2>2, BaseEffect
  <2>4. \A n \in Number : ~InHand(n) /\ (InHand(n)' <=> n = m)
      BY <1>1, <1>2, <2>1, <2>3, BecomesStep DEF InHand
  <2>5. ~Stands(m) /\ ~Stands(m)'
      BY <1>1, <2>1, <2>2, <2>4 DEF Stands, HandedOf
  <2>6. QED
      BY <1>2, <2>2, <2>4, <2>5, RowRefines
<1>10. CASE Finish
  <2>1. p.pc = "finish"
      BY <1>1, <1>10 DEF Finish, Importing
  <2>2. PICK m \in Number : m = p.num /\ \A n \in Number \ {m} : trn'[n] = trn[n]
      BY <1>1, <1>2, <1>10, FinishEffect
  <2>3. PICK q : Becomes(q) /\ q.pc = "over"
      BY <1>2, <1>10, FinishEffect
  <2>4. proc'[Importer].pc = "over"
      BY <1>2, <2>3, BecomesStep
  <2>5. \A n \in Number : (InHand(n) <=> n = m) /\ ~InHand(n)'
      BY <1>1, <2>1, <2>2, <2>4 DEF InHand
  <2>6. CASE ~Live(trn', m) \/ (trn' = trn /\ p.errors)
    <3>1. ~Stands(m)
        BY <2>2, <2>5 DEF Stands
    <3>2. ~Stands(m)'
      <4>1. CASE ~Live(trn', m)
          BY <4>1 DEF Stands, Live
      <4>2. CASE trn' = trn /\ p.errors
          BY <1>1, <2>1, <2>2, <4>2 DEF Stands, HandedOf
      <4>3. QED
          BY <2>6, <4>1, <4>2
    <3>3. QED
        BY <1>2, <2>2, <2>5, <3>1, <3>2, RowRefines
  <2>7. CASE /\ ~p.errors /\ trn'[m] \in Row /\ trn'[m].code = WrittenCode(p) /\ ~trn'[m].deleted
             /\ trn[m] \in Row => trn'[m].base = trn[m].base
    <3>1. trn'[m].base = "full"
        BY <1>1, <2>1, <2>2, <2>7 DEF Knows
    <3>2. Stands(m)'
        BY <2>5, <2>7, <3>1, NoValuesAssumption DEF Stands, Live
    <3>3. QED
        BY <1>1, <1>2, <2>1, <2>2, <2>4, <2>7, <3>2, BookRefines
  <2>8. QED
      BY <1>1, <1>2, <1>10, <2>2, <2>6, <2>7, FinishEffect
<1>11. QED
    BY <1>5, <1>6, <1>7, <1>8, <1>9, <1>10 DEF ImporterStep

\* A delivery that is lost leaves the row in hand: when its base transactions
\* are all there it stands, as if it had been reported.
LEMMA LostRefines ==
    ASSUME AloneInv, Knows(proc[Importer]), LoseWorker \/ KillChild
    PROVE  [Promise!Next]_(Promise!vars)
<1>1. PICK p \in Proc : p = proc[Importer] /\ HandedOf(p, trn) /\ Knows(p)
    BY ImporterProc DEF AloneInv, Handed
<1>2. /\ TypeInv /\ UNCHANGED <<trn, settings>> /\ proc'[Importer].pc = "idle"
      /\ trn \in [Number -> Row \cup {NoRow}]
    BY IdleEffect, IdleIsProc DEF AloneInv, LoseWorker, KillChild, Stopped, TypeInv, BookingTyped
<1>3. \A n \in Number : ~InHand(n)'
    BY <1>2 DEF InHand
<1>4. CASE p.pc # "finish"
  <2>1. \A n \in Number : ~InHand(n)
      BY <1>1, <1>4 DEF InHand
  <2>2. QED
      BY <1>2, <1>3, <2>1, SameRefines
<1>5. CASE p.pc = "finish"
  <2>1. PICK m \in Number : m = p.num
      BY <1>1, <1>2, <1>5, ImporterProc DEF ImporterOK
  <2>2. trn[m] \in Row /\ ~trn[m].deleted /\ trn[m].code = WrittenCode(p)
      BY <1>1, <1>5, <2>1 DEF HandedOf
  <2>3. \A n \in Number : InHand(n) <=> n = m
      BY <1>1, <1>5, <2>1 DEF InHand
  <2>4. CASE trn[m].base = "full"
    <3>1. Stands(m)'
        BY <1>2, <1>3, <2>2, <2>4, NoValuesAssumption DEF Stands, Live
    <3>2. QED
        BY <1>1, <1>2, <1>5, <2>1, <2>2, <3>1, BookRefines
  <2>5. CASE trn[m].base # "full"
    <3>1. ~Stands(m) /\ ~Stands(m)'
        BY <1>2, <2>5 DEF Stands
    <3>2. QED
        BY <1>2, <1>3, <2>3, <3>1, RowRefines
  <2>6. QED
      BY <2>4, <2>5
<1>6. QED
    BY <1>4, <1>5

LEMMA StepRefines ==
    ASSUME PromiseInv, [Next]_vars, views' = 0
    PROVE  [Promise!Next]_(Promise!vars)
<1>1. AloneInv /\ Knows(proc[Importer]) /\ \A v \in Viewer : ~ViewStep(v)
    BY NobodyElse
<1>2. CASE UNCHANGED vars
    BY <1>2, SameRefines DEF vars, bookingVars, importVars, InHand
<1>3. CASE ImporterStep /\ UNCHANGED importVars
    BY <1>1, <1>3, ProcessRefines
<1>4. CASE LoseWorker \/ KillChild
    BY <1>1, <1>4, LostRefines
<1>5. CASE RowStep
  <2>1. /\ UNCHANGED <<trn, settings>>
        /\ proc' = proc \/ proc'[Importer].pc \in {"idle", "schedules"}
      BY <1>1, <1>5, RowSteps DEF AloneInv
  <2>2. CASE proc' = proc
      BY <2>1, <2>2, SameRefines DEF InHand
  <2>3. CASE proc' # proc
    <3>1. proc[Importer].pc # "finish"
        BY <1>1, <1>5, <2>3, ProcessWaits DEF AloneInv
    <3>2. QED
        BY <2>1, <2>3, <3>1, SameRefines DEF InHand
  <2>4. QED
      BY <2>2, <2>3
<1>6. QED
    BY <1>1, <1>2, <1>3, <1>4, <1>5 DEF Next, ImportStep, RowStep

LEMMA InitRefines ==
    ASSUME Init
    PROVE  Promise!Init /\ PromiseInv
<1>1. TypeInv /\ BookingInv /\ LineInv /\ Quiet
    BY InitTyped, InitBooking, InitLine, InitHeal DEF HealInv
<1>2. proc[Importer] = IdleProc /\ \A n \in Number : trn[n] = NoRow
    BY DEF Init, BookingInit, Booker
<1>3. Handed
    BY <1>2, IdleIsProc DEF Handed, HandedOf
<1>4. Booked = {}
    BY <1>2 DEF Booked, Stands, Live
<1>5. settings \in {"skip", "without", "overwrite", "treat"}
    BY ImportAssumption DEF Init, Reaction
<1>6. QED
    BY <1>1, <1>3, <1>4, <1>5 DEF PromiseInv, Promise!Init

(***************************************************************************)
(* Until the first request beside it, every step of an import is a step of *)
(* BookingPromise or one that it does not see: for any file, any scheme    *)
(* and any number of lost workers, transactions appear whole and one by    *)
(* one, no two that stand have one code, and only a scheme that overwrites *)
(* takes one away, for the code it books again.                            *)
(***************************************************************************)
THEOREM PromiseIsKept == Spec => KeepsPromise
<1>1. Init => Promise!Init /\ PromiseInv
    BY InitRefines
<1>2. PromiseInv /\ [Next]_vars => PromiseInv'
    BY PromiseInvKept
<1>3. PromiseInv /\ [Next]_vars => [views' = 0 => Promise!Next]_(Promise!vars)
    BY StepRefines
<1>4. QED
    BY <1>1, <1>2, <1>3, PTL DEF Spec, KeepsPromise

\* Where requests are never made, the import implements BookingPromise.
THEOREM ImportAloneRefines == NoRequests /\ Spec => Promise!Spec
<1>1. Init => Promise!Init /\ PromiseInv
    BY InitRefines
<1>2. PromiseInv /\ [Next]_vars => PromiseInv'
    BY PromiseInvKept
<1>3. NoRequests /\ PromiseInv /\ [Next]_vars => [Promise!Next]_(Promise!vars)
  <2> SUFFICES ASSUME NoRequests, PromiseInv, [Next]_vars
               PROVE  [Promise!Next]_(Promise!vars)
      OBVIOUS
  <2>1. TypeInv'
      BY TypeInvKept DEF PromiseInv
  <2>2. views' = 0
      BY <2>1 DEF NoRequests, TypeInv, BookingTyped
  <2>3. QED
      BY <2>2, StepRefines
<1>4. NoRequests => []NoRequests
  <2>1. NoRequests => NoRequests'
      BY DEF NoRequests
  <2>2. QED
      BY <2>1, PTL
<1>5. QED
    BY <1>1, <1>2, <1>3, <1>4, PTL DEF Spec, Promise!Spec
=============================================================================
