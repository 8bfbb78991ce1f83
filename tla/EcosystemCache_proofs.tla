------------------------ MODULE EcosystemCache_proofs ------------------------
(***************************************************************************)
(* Proofs about EcosystemCache, whichever spaces share a primary key: its  *)
(* types, and that it implements RowPromise.                               *)
(***************************************************************************)
EXTENDS EcosystemCache, FiniteSetTheorems, TLAPS

Entry == [row : Row \cup {NoRow}, left : 0 .. Timeout]

Call == [pc : {"idle", "fetch", "fill", "save", "delete"},
         space : Space, row : Row \cup {NoRow}]

\* The saves that have begun are counted before they end.
SavesFit == \A s \in Space : saves[s] + Cardinality(Saving(s)) <= MaxSaves

\* A row is stored where its space has its key, and carried for its own space.
RowsInPlace ==
    /\ \A s \in Space : table[s] # NoRow => table[s][1] = s
    /\ \A c \in Caller : At(c, "fill") => call[c].row # NoRow /\ call[c].row[1] = call[c].space
    /\ \A k \in Pk : Cached(k) => PkOf[cache[k].row[1]] = k

IInv == TypeOK /\ SavesFit /\ RowsInPlace

-----------------------------------------------------------------------------
(* Types *)

\* A row is not NoRow and names its space.
LEMMA RowTypes ==
    ASSUME NEW r \in Row
    PROVE  r # NoRow /\ r[1] \in Space
BY DEF Row, NoRow

LEMMA ConstantTypes ==
    /\ NoEntry \in Entry /\ Idle \in Call
    /\ NoEntry.row = NoRow /\ Idle.pc = "idle"
    /\ \A s \in Space : <<s, 1>> \in Row
<1>1. (CHOOSE s \in Space : TRUE) \in Space
    BY SpaceAssumption
<1>2. QED
    BY <1>1, NumbersAssumption DEF NoEntry, Entry, Idle, Call, Row

LEMMA GoesType ==
    ASSUME TypeOK, NEW c \in Caller, NEW s \in Space, NEW row \in Row \cup {NoRow},
           NEW pc \in {"idle", "fetch", "fill", "save", "delete"}, Goes(c, pc, s, row)
    PROVE  /\ call' \in [Caller -> Call]
           /\ call'[c].pc = pc /\ call'[c].space = s /\ call'[c].row = row
           /\ \A d \in Caller \ {c} : call'[d] = call[d]
<1>1. [pc |-> pc, space |-> s, row |-> row] \in Call
    BY DEF Call
<1>2. QED
    BY <1>1 DEF TypeOK, Goes, Call

LEMMA EndsType ==
    ASSUME TypeOK, NEW c \in Caller, Ends(c)
    PROVE  /\ call' \in [Caller -> Call]
           /\ call'[c].pc = "idle"
           /\ \A d \in Caller \ {c} : call'[d] = call[d]
BY ConstantTypes DEF TypeOK, Ends, Call

LEMMA SavingIsFinite ==
    ASSUME NEW s
    PROVE  IsFiniteSet(Saving(s)) /\ Cardinality(Saving(s)) \in Nat
<1>1. Saving(s) \in SUBSET Caller
    BY DEF Saving
<1>2. QED
    BY <1>1, CallerAssumption, FS_Subset, FS_CardinalityType

\* A caller that does not begin a save lets the count of saves stay in its bound.
LEMMA NoSaveBegins ==
    ASSUME SavesFit, TypeOK, saves' = saves, NEW c \in Caller,
           call'[c].pc # "save", \A d \in Caller \ {c} : call'[d] = call[d]
    PROVE  SavesFit'
<1> SUFFICES ASSUME NEW s \in Space
             PROVE  saves[s] + Cardinality(Saving(s)') <= MaxSaves
    BY DEF SavesFit
<1>1. Saving(s)' \in SUBSET Saving(s)
    BY DEF Saving, At
<1>2. Cardinality(Saving(s)') <= Cardinality(Saving(s)) /\ Cardinality(Saving(s)') \in Nat
    BY <1>1, SavingIsFinite, FS_Subset, FS_CardinalityType
<1>3. saves[s] \in Nat /\ saves[s] + Cardinality(Saving(s)) <= MaxSaves
    BY DEF SavesFit, TypeOK
<1>4. QED
    BY <1>2, <1>3, SavingIsFinite, NumbersAssumption

LEMMA SaveBeginsCounted ==
    ASSUME SavesFit, TypeOK, NEW c \in Caller, NEW s \in Space, SaveBegins(c, s)
    PROVE  SavesFit'
<1>1. /\ call'[c].pc = "save" /\ call'[c].space = s
      /\ \A d \in Caller \ {c} : call'[d] = call[d]
    BY GoesType DEF SaveBegins
<1> SUFFICES ASSUME NEW t \in Space
             PROVE  saves[t] + Cardinality(Saving(t)') <= MaxSaves
    BY DEF SavesFit, SaveBegins
<1>2. saves[t] \in Nat /\ saves[t] + Cardinality(Saving(t)) <= MaxSaves
    BY DEF SavesFit, TypeOK
<1>3. CASE t = s
  <2>1. Saving(t)' = Saving(t) \cup {c}
      BY <1>1, <1>3 DEF Saving, At
  <2>2. Cardinality(Saving(t)') <= Cardinality(Saving(t)) + 1 /\ Cardinality(Saving(t)') \in Nat
    <3>1. /\ IsFiniteSet(Saving(t) \cup {c})
          /\ Cardinality(Saving(t) \cup {c}) <= Cardinality(Saving(t)) + 1
        BY SavingIsFinite, FS_AddElement
    <3>2. QED
        BY <2>1, <3>1, FS_CardinalityType
  <2>3. saves[t] + Cardinality(Saving(t)) < MaxSaves
      BY <1>3 DEF SaveBegins
  <2>4. QED
      BY <1>2, <2>2, <2>3, SavingIsFinite, NumbersAssumption
<1>4. CASE t # s
  <2>1. Saving(t)' = Saving(t)
      BY <1>1, <1>4 DEF Saving, At, SaveBegins
  <2>2. QED
      BY <1>2, <2>1
<1>5. QED
    BY <1>3, <1>4

LEMMA SaveEndsCounted ==
    ASSUME SavesFit, TypeOK, NEW c \in Caller, SaveEnds(c)
    PROVE  /\ SavesFit'
           /\ saves[call[c].space] + 1 \in 1 .. MaxSaves
<1>1. /\ call'[c].pc = "idle" /\ call[c].space \in Space /\ call[c].pc = "save"
      /\ \A d \in Caller \ {c} : call'[d] = call[d]
    BY EndsType DEF SaveEnds, TypeOK, At
<1>2. ASSUME NEW t \in Space
      PROVE  /\ saves'[t] + Cardinality(Saving(t)') <= MaxSaves
             /\ t = call[c].space => saves[t] + 1 <= MaxSaves
  <2>1. saves[t] \in Nat /\ saves[t] + Cardinality(Saving(t)) <= MaxSaves
      BY DEF SavesFit, TypeOK
  <2>2. CASE t = call[c].space
    <3>1. Saving(t)' = Saving(t) \ {c} /\ c \in Saving(t)
        BY <1>1, <2>2 DEF Saving, At
    <3>2. /\ Cardinality(Saving(t)') = Cardinality(Saving(t)) - 1
          /\ Cardinality(Saving(t)') \in Nat
        BY <3>1, SavingIsFinite, FS_RemoveElement, FS_CardinalityType
    <3>3. saves'[t] = saves[t] + 1
        BY <2>2 DEF SaveEnds, TypeOK
    <3>4. QED
        BY <2>1, <3>2, <3>3, SavingIsFinite, NumbersAssumption
  <2>3. CASE t # call[c].space
    <3>1. Saving(t)' = Saving(t) /\ saves'[t] = saves[t]
        BY <1>1, <2>3 DEF Saving, At, SaveEnds, TypeOK
    <3>2. QED
        BY <2>1, <2>3, <3>1
  <2>4. QED
      BY <2>2, <2>3
<1>3. saves[call[c].space] \in Nat /\ saves[call[c].space] + 1 \in Nat \ {0}
    BY <1>1 DEF TypeOK
<1>4. QED
    BY <1>1, <1>2, <1>3, NumbersAssumption DEF SavesFit

-----------------------------------------------------------------------------
(* The invariant *)

LEMMA InitInvariant == Init => IInv
<1> SUFFICES ASSUME Init PROVE IInv
    OBVIOUS
<1>1. TypeOK
  <2>1. 0 \in 0 .. MaxFaults /\ 1 \in 1 .. MaxSaves
      BY NumbersAssumption
  <2>2. QED
      BY <2>1, ConstantTypes DEF Init, TypeOK, Entry, Call
<1>2. ASSUME NEW s \in Space
      PROVE  saves[s] + Cardinality(Saving(s)) <= MaxSaves
  <2>1. Saving(s) = {}
      BY ConstantTypes DEF Init, Saving, At
  <2>2. saves[s] = 1
      BY DEF Init
  <2>3. QED
      BY <2>1, <2>2, FS_EmptySet, NumbersAssumption
<1>3. RowsInPlace
    BY ConstantTypes DEF Init, RowsInPlace, At, Cached
<1>4. QED
    BY <1>1, <1>2, <1>3 DEF IInv, SavesFit

\* A key is dropped and the caller that dropped it goes on to its statement.
LEMMA DropStep ==
    ASSUME TypeOK, RowsInPlace, NEW c \in Caller, NEW s \in Space, NEW pc \in {"save", "delete"},
           DeleteCache(s), Goes(c, pc, s, NoRow), UNCHANGED <<table, saves, answered, faults>>
    PROVE  TypeOK' /\ RowsInPlace'
<1>1. /\ call' \in [Caller -> Call] /\ call'[c].pc = pc
      /\ \A d \in Caller \ {c} : call'[d] = call[d]
    BY GoesType
<1>2. /\ cache' \in [Pk -> Entry]
      /\ \A k \in Pk : cache'[k] = cache[k] \/ cache'[k] = NoEntry
    BY ConstantTypes DEF DeleteCache, TypeOK, Entry
<1>3. TypeOK'
    BY <1>1, <1>2 DEF TypeOK, Entry, Call
<1>4. RowsInPlace'
    BY <1>1, <1>2, ConstantTypes DEF RowsInPlace, At, Cached
<1>5. QED
    BY <1>3, <1>4

\* A caller that ends, whatever it leaves, breaks nothing.
LEMMA EndStep ==
    ASSUME TypeOK, RowsInPlace, NEW c \in Caller, Ends(c), UNCHANGED cache,
           saves' \in [Space -> 1 .. MaxSaves],
           table' \in [Space -> Row \cup {NoRow}],
           \A s \in Space : table'[s] # NoRow => table'[s][1] = s,
           UNCHANGED answered, faults' \in 0 .. MaxFaults
    PROVE  TypeOK' /\ RowsInPlace'
<1>1. /\ call' \in [Caller -> Call] /\ call'[c].pc = "idle"
      /\ \A d \in Caller \ {c} : call'[d] = call[d]
    BY EndsType
<1>2. TypeOK'
    BY <1>1 DEF TypeOK, Call
<1>3. RowsInPlace'
    BY <1>1 DEF RowsInPlace, At, Cached
<1>4. QED
    BY <1>2, <1>3

LEMMA HitStep ==
    ASSUME IInv, NEW c \in Caller, NEW s \in Space, GetHit(c, s)
    PROVE  IInv'
<1>1. PkOf[s] \in Pk /\ cache[PkOf[s]].row \in Row
    BY PkAssumption DEF GetHit, IInv, TypeOK, Cached
<1>2. TypeOK'
    BY <1>1 DEF GetHit, IInv, TypeOK
<1>3. SavesFit' /\ RowsInPlace'
    BY DEF GetHit, IInv, SavesFit, Saving, RowsInPlace, At, Cached
<1>4. QED
    BY <1>2, <1>3 DEF IInv

LEMMA MissStep ==
    ASSUME IInv, NEW c \in Caller, NEW s \in Space, GetMiss(c, s)
    PROVE  IInv'
<1>1. /\ call' \in [Caller -> Call] /\ call'[c].pc = "fetch"
      /\ \A d \in Caller \ {c} : call'[d] = call[d]
    BY GoesType DEF GetMiss, IInv
<1>2. faults' \in 0 .. MaxFaults
    BY NumbersAssumption DEF GetMiss, Fault, IInv, TypeOK
<1>3. TypeOK'
    BY <1>1, <1>2 DEF GetMiss, IInv, TypeOK, Call
<1>4. RowsInPlace'
    BY <1>1 DEF GetMiss, IInv, RowsInPlace, At, Cached
<1>5. SavesFit'
    BY <1>1, NoSaveBegins DEF GetMiss, IInv
<1>6. QED
    BY <1>3, <1>4, <1>5 DEF IInv

LEMMA FetchStep ==
    ASSUME IInv, NEW c \in Caller, Fetch(c)
    PROVE  IInv'
<1>1. call[c].space \in Space
    BY DEF IInv, TypeOK
<1>2. CASE table[call[c].space] = NoRow
  <2>1. /\ call' \in [Caller -> Call] /\ call'[c].pc = "idle"
        /\ \A d \in Caller \ {c} : call'[d] = call[d]
      BY <1>2, EndsType DEF Fetch, IInv
  <2>2. TypeOK' /\ RowsInPlace'
      BY <1>2, EndStep DEF Fetch, IInv, TypeOK, RowsInPlace
  <2>3. QED
      BY <2>1, <2>2, NoSaveBegins DEF Fetch, IInv
<1>3. CASE table[call[c].space] # NoRow
  <2>1. table[call[c].space] \in Row /\ table[call[c].space][1] = call[c].space
      BY <1>1, <1>3 DEF IInv, TypeOK, RowsInPlace
  <2>2. /\ call' \in [Caller -> Call] /\ call'[c].pc = "fill"
        /\ call'[c].space = call[c].space /\ call'[c].row = table[call[c].space]
        /\ \A d \in Caller \ {c} : call'[d] = call[d]
      BY <1>1, <1>3, <2>1, GoesType DEF Fetch, IInv
  <2>3. TypeOK'
      BY <2>2 DEF Fetch, IInv, TypeOK, Call
  <2>4. RowsInPlace'
      BY <2>1, <2>2, RowTypes DEF Fetch, IInv, RowsInPlace, At, Cached
  <2>5. SavesFit'
      BY <2>2, NoSaveBegins DEF Fetch, IInv
  <2>6. QED
      BY <2>3, <2>4, <2>5 DEF IInv
<1>4. QED
    BY <1>2, <1>3

LEMMA FillStep ==
    ASSUME IInv, NEW c \in Caller, Fill(c)
    PROVE  IInv'
<1>1. /\ call[c].row \in Row /\ call[c].row[1] = call[c].space
      /\ call[c].space \in Space /\ PkOf[call[c].space] \in Pk
    BY PkAssumption DEF Fill, IInv, TypeOK, RowsInPlace
<1>2. /\ call' \in [Caller -> Call] /\ call'[c].pc = "idle"
      /\ \A d \in Caller \ {c} : call'[d] = call[d]
    BY EndsType DEF Fill, IInv
<1>3. [row |-> call[c].row, left |-> Timeout] \in Entry
    BY <1>1, NumbersAssumption DEF Entry
<1>4. /\ cache' \in [Pk -> Entry]
      /\ cache'[PkOf[call[c].space]].row = call[c].row
      /\ \A k \in Pk \ {PkOf[call[c].space]} : cache'[k] = cache[k]
    BY <1>1, <1>3 DEF Fill, SetCache, IInv, TypeOK, Entry
<1>5. TypeOK'
    BY <1>1, <1>2, <1>4 DEF Fill, IInv, TypeOK, Entry, Call
<1>6. RowsInPlace'
    BY <1>1, <1>2, <1>4 DEF Fill, IInv, RowsInPlace, At, Cached
<1>7. SavesFit'
    BY <1>2, NoSaveBegins DEF Fill, IInv
<1>8. QED
    BY <1>5, <1>6, <1>7 DEF IInv

LEMMA SaveBeginsStep ==
    ASSUME IInv, NEW c \in Caller, NEW s \in Space, SaveBegins(c, s)
    PROVE  IInv'
BY DropStep, SaveBeginsCounted DEF SaveBegins, IInv

LEMMA SaveEndsStep ==
    ASSUME IInv, NEW c \in Caller, SaveEnds(c)
    PROVE  IInv'
<1>1. saves[call[c].space] + 1 \in 1 .. MaxSaves /\ SavesFit' /\ call[c].space \in Space
    BY SaveEndsCounted DEF IInv, TypeOK
<1>2. <<call[c].space, saves[call[c].space] + 1>> \in Row
    BY <1>1 DEF Row
<1>3. /\ saves' \in [Space -> 1 .. MaxSaves] /\ table' \in [Space -> Row \cup {NoRow}]
      /\ \A s \in Space : table'[s] # NoRow => table'[s][1] = s
    BY <1>1, <1>2 DEF SaveEnds, IInv, TypeOK, RowsInPlace
<1>4. QED
    BY <1>1, <1>3, EndStep DEF SaveEnds, IInv, TypeOK

LEMMA DeleteStep ==
    ASSUME IInv, NEW c \in Caller,
           DeleteEnds(c) \/ \E s \in Space : DeleteBegins(c, s)
    PROVE  IInv'
<1>1. ASSUME NEW s \in Space, DeleteBegins(c, s)
      PROVE  IInv'
  <2>1. call'[c].pc = "delete" /\ \A d \in Caller \ {c} : call'[d] = call[d]
      BY <1>1, GoesType DEF DeleteBegins, IInv
  <2>2. QED
      BY <1>1, <2>1, DropStep, NoSaveBegins DEF DeleteBegins, IInv
<1>2. CASE DeleteEnds(c)
  <2>1. call'[c].pc = "idle" /\ \A d \in Caller \ {c} : call'[d] = call[d]
      BY <1>2, EndsType DEF DeleteEnds, IInv
  <2>2. /\ table' \in [Space -> Row \cup {NoRow}]
        /\ \A s \in Space : table'[s] # NoRow => table'[s][1] = s
      BY <1>2 DEF DeleteEnds, IInv, TypeOK, RowsInPlace
  <2>3. QED
      BY <1>2, <2>1, <2>2, EndStep, NoSaveBegins DEF DeleteEnds, IInv, TypeOK
<1>3. QED
    BY <1>1, <1>2

LEMMA FailsStep ==
    ASSUME IInv, NEW c \in Caller, Fails(c)
    PROVE  IInv'
<1>1. call'[c].pc = "idle" /\ \A d \in Caller \ {c} : call'[d] = call[d]
    BY EndsType DEF Fails, IInv
<1>2. faults' \in 0 .. MaxFaults
    BY NumbersAssumption DEF Fails, Fault, IInv, TypeOK
<1>3. QED
    BY <1>1, <1>2, EndStep, NoSaveBegins DEF Fails, IInv, TypeOK, RowsInPlace

\* A tick keeps the rows that stay where they are.
LEMMA TickEffect ==
    ASSUME TypeOK, Tick
    PROVE  /\ cache' \in [Pk -> Entry]
           /\ \A k \in Pk : cache'[k].row = cache[k].row \/ cache'[k].row = NoRow
<1> SUFFICES ASSUME NEW k \in Pk
             PROVE  /\ cache'[k] \in Entry
                    /\ cache'[k].row = cache[k].row \/ cache'[k].row = NoRow
    BY DEF Tick
<1>1. cache[k] \in Entry
    BY DEF TypeOK, Entry
<1>2. CASE cache[k].left > 1
  <2>1. cache'[k] = [cache[k] EXCEPT !.left = cache[k].left - 1]
      BY <1>2 DEF Tick
  <2>2. cache[k].left - 1 \in 0 .. Timeout
      BY <1>1, <1>2, NumbersAssumption DEF Entry
  <2>3. QED
      BY <1>1, <2>1, <2>2 DEF Entry
<1>3. CASE ~(cache[k].left > 1)
    BY <1>3, ConstantTypes DEF Tick
<1>4. QED
    BY <1>2, <1>3

LEMMA TickStep ==
    ASSUME IInv, Tick
    PROVE  IInv'
<1>1. TypeOK' /\ RowsInPlace'
    BY TickEffect DEF IInv, Tick, TypeOK, RowsInPlace, At, Cached, Entry
<1>2. SavesFit'
    BY DEF IInv, Tick, SavesFit, Saving, At
<1>3. QED
    BY <1>1, <1>2 DEF IInv

LEMMA StepInvariant == IInv /\ [Next]_vars => IInv'
<1> SUFFICES ASSUME IInv, [Next]_vars PROVE IInv'
    OBVIOUS
<1>1. CASE UNCHANGED vars
    BY <1>1 DEF vars, IInv, TypeOK, SavesFit, Saving, RowsInPlace, At, Cached
<1>2. CASE Next
    BY <1>2, TickStep, FetchStep, FillStep, SaveEndsStep, DeleteStep, FailsStep,
       HitStep, MissStep, SaveBeginsStep DEF Next
<1>3. QED
    BY <1>1, <1>2

LEMMA AlwaysInvariant == Spec => []IInv
BY InitInvariant, StepInvariant, PTL DEF Spec

(***************************************************************************)
(* Whatever callers, saves, deletions and faults interleave, and whichever *)
(* spaces share a key, the variables keep their types: no caller is        *)
(* answered with the None of a miss, and saves stay in their bound.        *)
(***************************************************************************)
THEOREM TypeCorrect == Spec => []TypeOK
<1>1. IInv => TypeOK
    BY DEF IInv
<1>2. QED
    BY <1>1, AlwaysInvariant, PTL

-----------------------------------------------------------------------------
(* The promise *)

LEMMA AliveRows ==
    ASSUME NEW row
    PROVE  row \in Alive <=>
             /\ row # NoRow
             /\ \/ \E s \in Space : row = table[s]
                \/ \E k \in Pk : row = cache[k].row
                \/ \E c \in Caller : At(c, "fill") /\ row = call[c].row
BY DEF Alive, Copies

LEMMA InitRefines == Init => Promise!Init
<1> SUFFICES ASSUME Init PROVE Promise!Init
    OBVIOUS
<1>1. \A row : row \in Alive <=> \E s \in Space : row = <<s, 1>>
    BY AliveRows, ConstantTypes, RowTypes DEF Init, At
<1>2. Alive = {<<s, 1>> : s \in Space}
    BY <1>1
<1>3. QED
    BY <1>2 DEF Init, Promise!Init

\* No step but the end of a save makes a row that was not alive.
LEMMA NothingRevives ==
    ASSUME IInv, Next, \A c \in Caller : ~SaveEnds(c)
    PROVE  Alive' \subseteq Alive /\ saves' = saves
<1>1. ASSUME NEW c \in Caller, NEW s \in Space, GetHit(c, s)
      PROVE  Alive' \subseteq Alive /\ saves' = saves
    BY <1>1 DEF GetHit, Alive, Copies, At
<1>2. ASSUME NEW c \in Caller, NEW s \in Space, GetMiss(c, s)
      PROVE  Alive' \subseteq Alive /\ saves' = saves
  <2>1. call'[c].pc = "fetch" /\ \A d \in Caller \ {c} : call'[d] = call[d]
      BY <1>2, GoesType DEF GetMiss, IInv
  <2>2. QED
      BY <1>2, <2>1 DEF GetMiss, Alive, Copies, At
<1>3. ASSUME NEW c \in Caller, Fetch(c)
      PROVE  Alive' \subseteq Alive /\ saves' = saves
  <2>1. CASE table[call[c].space] = NoRow
    <3>1. call'[c].pc = "idle" /\ \A d \in Caller \ {c} : call'[d] = call[d]
        BY <1>3, <2>1, EndsType DEF Fetch, IInv
    <3>2. QED
        BY <1>3, <3>1 DEF Fetch, Alive, Copies, At
  <2>2. CASE table[call[c].space] # NoRow
    <3>1. call[c].space \in Space /\ table[call[c].space] \in Row
        BY <2>2 DEF IInv, TypeOK
    <3>2. /\ call'[c].row = table[call[c].space]
          /\ \A d \in Caller \ {c} : call'[d] = call[d]
        BY <1>3, <2>2, <3>1, GoesType DEF Fetch, IInv
    <3>3. QED
        BY <1>3, <3>1, <3>2 DEF Fetch, Alive, Copies, At
  <2>3. QED
      BY <2>1, <2>2
<1>4. ASSUME NEW c \in Caller, Fill(c)
      PROVE  Alive' \subseteq Alive /\ saves' = saves
  <2>1. call'[c].pc = "idle" /\ \A d \in Caller \ {c} : call'[d] = call[d]
      BY <1>4, EndsType DEF Fill, IInv
  <2>2. At(c, "fill") /\ \A k \in Pk : cache'[k].row \in {cache[k].row, call[c].row}
      BY <1>4 DEF Fill, SetCache, IInv, TypeOK
  <2>3. QED
      BY <1>4, <2>1, <2>2 DEF Fill, Alive, Copies, At
<1>5. ASSUME NEW c \in Caller, NEW s \in Space, SaveBegins(c, s) \/ DeleteBegins(c, s)
      PROVE  Alive' \subseteq Alive /\ saves' = saves
  <2>1. call'[c].pc \in {"save", "delete"} /\ \A d \in Caller \ {c} : call'[d] = call[d]
      BY <1>5, GoesType DEF SaveBegins, DeleteBegins, IInv
  <2>2. \A k \in Pk : cache'[k].row \in {cache[k].row, NoRow}
      BY <1>5, ConstantTypes DEF SaveBegins, DeleteBegins, DeleteCache, IInv, TypeOK
  <2>3. QED
      BY <1>5, <2>1, <2>2 DEF SaveBegins, DeleteBegins, Alive, Copies, At
<1>6. ASSUME NEW c \in Caller, DeleteEnds(c) \/ Fails(c)
      PROVE  Alive' \subseteq Alive /\ saves' = saves
  <2>1. call'[c].pc = "idle" /\ \A d \in Caller \ {c} : call'[d] = call[d]
      BY <1>6, EndsType DEF DeleteEnds, Fails, IInv
  <2>2. \A s \in Space : table'[s] \in {table[s], NoRow}
      BY <1>6 DEF DeleteEnds, Fails, IInv, TypeOK
  <2>3. QED
      BY <1>6, <2>1, <2>2 DEF DeleteEnds, Fails, Alive, Copies, At
<1>7. CASE Tick
    BY <1>7, TickEffect DEF IInv, Tick, Alive, Copies, At
<1>8. QED
    BY <1>1, <1>2, <1>3, <1>4, <1>5, <1>6, <1>7 DEF Next

LEMMA SaveRefines ==
    ASSUME IInv, NEW c \in Caller, SaveEnds(c)
    PROVE  Promise!Save(call[c].space)
<1>1. call'[c].pc = "idle" /\ \A d \in Caller \ {c} : call'[d] = call[d]
    BY EndsType DEF SaveEnds, IInv
<1>2. call[c].space \in Space
    BY DEF IInv, TypeOK
<1>3. \A s \in Space : table'[s] \in {table[s], <<call[c].space, saves'[call[c].space]>>}
    BY <1>2 DEF SaveEnds, IInv, TypeOK
<1>4. Alive' \subseteq Alive \cup {<<call[c].space, saves'[call[c].space]>>}
    BY <1>1, <1>3 DEF SaveEnds, Alive, Copies, At
<1>5. QED
    BY <1>4 DEF SaveEnds, Promise!Save

\* What is stored under the key of a space is the row of a space that has the key.
LEMMA HitHasTheKey ==
    ASSUME IInv, NEW s \in Space, Cached(PkOf[s])
    PROVE  cache[PkOf[s]].row \in Alive /\ PkOf[cache[PkOf[s]].row[1]] = PkOf[s]
<1>1. PkOf[s] \in Pk
    BY PkAssumption
<1>2. QED
    BY <1>1, AliveRows DEF IInv, RowsInPlace, Cached

LEMMA StepRefines ==
    IInv /\ [Next]_vars => [Promise!Next]_(Promise!vars)
<1> SUFFICES ASSUME IInv, [Next]_vars
             PROVE  [Promise!Next]_(Promise!vars)
    OBVIOUS
<1>1. CASE UNCHANGED vars
    BY <1>1 DEF vars, Promise!vars, Alive, Copies, At
<1>2. ASSUME NEW c \in Caller, SaveEnds(c)
      PROVE  Promise!Next
    BY <1>2, SaveRefines DEF Promise!Next, IInv, TypeOK
<1>3. ASSUME NEW c \in Caller, NEW s \in Space, GetHit(c, s), \A d \in Caller : ~SaveEnds(d)
      PROVE  Promise!Next
  <2>1. Next
      BY <1>3 DEF Next
  <2>2. Alive' \subseteq Alive /\ saves' = saves
      BY <1>3, <2>1, NothingRevives
  <2>3. Promise!Answer(s)
      BY <1>3, <2>2, HitHasTheKey DEF GetHit, Promise!Answer
  <2>4. QED
      BY <2>3 DEF Promise!Next
<1>4. ASSUME NEW c \in Caller, Fill(c), \A d \in Caller : ~SaveEnds(d)
      PROVE  Promise!Next
  <2>1. Next
      BY <1>4 DEF Next
  <2>2. Alive' \subseteq Alive /\ saves' = saves
      BY <1>4, <2>1, NothingRevives
  <2>3. call[c].row \in Alive /\ call[c].row[1] = call[c].space /\ call[c].space \in Space
      BY <1>4, AliveRows DEF Fill, IInv, TypeOK, RowsInPlace
  <2>4. Promise!Answer(call[c].space)
      BY <1>4, <2>2, <2>3 DEF Fill, Promise!Answer
  <2>5. QED
      BY <2>3, <2>4 DEF Promise!Next
<1>5. ASSUME Next, \A d \in Caller : ~SaveEnds(d) /\ ~Fill(d) /\ \A s \in Space : ~GetHit(d, s)
      PROVE  Promise!Next
  <2>1. answered' = answered
      BY <1>5 DEF Next, Tick, Fetch, DeleteEnds, Fails, GetMiss, SaveBegins, DeleteBegins
  <2>2. Alive' \subseteq Alive /\ saves' = saves
      BY <1>5, NothingRevives
  <2>3. QED
      BY <2>1, <2>2 DEF Promise!Next, Promise!Forget
<1>6. QED
    BY <1>1, <1>2, <1>3, <1>4, <1>5

(***************************************************************************)
(* The cache implements RowPromise, for every assignment of primary keys   *)
(* to spaces: an answer is a row of a space that has the asking one's key, *)
(* and readers that fill late, saves, deletions, ticks and faults, of      *)
(* spaces that share an entry too, never bring back a row whose last copy  *)
(* is gone.                                                                *)
(***************************************************************************)
THEOREM PromiseIsKept == Spec => KeepsPromise
<1>1. Init => Promise!Init
    BY InitRefines
<1>2. IInv /\ [Next]_vars => [Promise!Next]_(Promise!vars)
    BY StepRefines
<1>3. QED
    BY <1>1, <1>2, AlwaysInvariant, PTL DEF Spec, KeepsPromise, Promise!Spec
=============================================================================
