--------------------------- MODULE EcosystemCache ---------------------------
(***************************************************************************)
(* The defaults of a space (EcosystemDefault) and the cache before them    *)
(* (poms/common/models.py, BaseCacheManager and CacheModel).               *)
(*                                                                         *)
(* All workers of all spaces share one Redis.  A caller that misses reads  *)
(* the row and stores a copy for cache_timeout; save and delete remove the *)
(* key and touch the row afterwards.  Nothing orders the two statements of *)
(* a reader and the two of a writer.  The key is made of the primary key   *)
(* of the master user, which every space counts for itself.                *)
(*                                                                         *)
(* A row is named by its space and the number of saves that made it.       *)
(***************************************************************************)
EXTENDS Naturals, FiniteSets

CONSTANTS
    Space,
    Pk,        \* primary keys of master users
    PkOf,      \* space -> the primary key of its master user
    Caller,    \* requests and tasks that run at the same time
    Timeout,   \* cache_timeout, in ticks
    MaxSaves,  \* saves of the row of one space (bound)
    MaxFaults  \* lost callers and unreachable Redis (bound)

ASSUME SpaceAssumption == Space # {}
ASSUME PkAssumption == PkOf \in [Space -> Pk]
ASSUME CallerAssumption == IsFiniteSet(Caller)
ASSUME NumbersAssumption ==
    Timeout \in Nat \ {0} /\ MaxSaves \in Nat \ {0} /\ MaxFaults \in Nat

Row == Space \X (1 .. MaxSaves)
NoRow == <<>>
NoEntry == [row |-> NoRow, left |-> 0]
Idle == [pc |-> "idle", space |-> CHOOSE s \in Space : TRUE, row |-> NoRow]

VARIABLES
    table,     \* space -> its row, NoRow when it was deleted
    saves,     \* space -> how often its row was saved
    cache,     \* primary key -> [row, left]: a copy and the ticks it has left
    call,      \* caller -> [pc, space, row]
    answered,  \* history: space -> the last row its callers were answered with
    faults

vars == <<table, saves, cache, call, answered, faults>>

Init ==
    /\ table = [s \in Space |-> <<s, 1>>]
    /\ saves = [s \in Space |-> 1]
    /\ cache = [k \in Pk |-> NoEntry]
    /\ call = [c \in Caller |-> Idle]
    /\ answered = [s \in Space |-> <<s, 1>>]
    /\ faults = 0

Cached(k) == cache[k].row # NoRow
At(c, pc) == call[c].pc = pc
Goes(c, pc, s, row) == call' = [call EXCEPT ![c] = [pc |-> pc, space |-> s, row |-> row]]
Ends(c) == call' = [call EXCEPT ![c] = Idle]
Fault == faults < MaxFaults /\ faults' = faults + 1

-----------------------------------------------------------------------------
(* get_cache *)

\* Mutant: a hit renews the timeout.
GetHitTouches(c, s) ==
    /\ At(c, "idle")
    /\ Cached(PkOf[s])
    /\ cache' = [cache EXCEPT ![PkOf[s]].left = Timeout]
    /\ answered' = [answered EXCEPT ![s] = cache[PkOf[s]].row]
    /\ UNCHANGED <<table, saves, call, faults>>

\* A hit does not renew the timeout.
GetHit(c, s) ==
    /\ At(c, "idle")
    /\ Cached(PkOf[s])
    /\ answered' = [answered EXCEPT ![s] = cache[PkOf[s]].row]
    /\ UNCHANGED <<table, saves, cache, call, faults>>

\* Every exception of the cache counts as a miss.
GetMiss(c, s) ==
    /\ At(c, "idle")
    /\ \/ ~Cached(PkOf[s]) /\ UNCHANGED faults
       \/ Cached(PkOf[s]) /\ Fault
    /\ Goes(c, "fetch", s, NoRow)
    /\ UNCHANGED <<table, saves, cache, answered>>

Fetch(c) ==
    /\ At(c, "fetch")
    /\ IF table[call[c].space] = NoRow
         THEN Ends(c)  \* DoesNotExist
         ELSE Goes(c, "fill", call[c].space, table[call[c].space])
    /\ UNCHANGED <<table, saves, cache, answered, faults>>

\* Mutant: one key for every space.
SetCacheOneKey(row) ==
    cache' = [cache EXCEPT ![CHOOSE k \in Pk : TRUE] = [row |-> row, left |-> Timeout]]

SetCache(row) == cache' = [cache EXCEPT ![PkOf[row[1]]] = [row |-> row, left |-> Timeout]]

Fill(c) ==
    /\ At(c, "fill")
    /\ SetCache(call[c].row)
    /\ answered' = [answered EXCEPT ![call[c].space] = call[c].row]
    /\ Ends(c)
    /\ UNCHANGED <<table, saves, faults>>

-----------------------------------------------------------------------------
(* CacheModel.save and CacheModel.delete *)

DeleteCache(s) == cache' = [cache EXCEPT ![PkOf[s]] = NoEntry]

Saving(s) == {c \in Caller : At(c, "save") /\ call[c].space = s}

\* Of a row that exists or of a new one.
SaveBegins(c, s) ==
    /\ At(c, "idle")
    /\ saves[s] + Cardinality(Saving(s)) < MaxSaves
    /\ DeleteCache(s)
    /\ Goes(c, "save", s, NoRow)
    /\ UNCHANGED <<table, saves, answered, faults>>

SaveEnds(c) ==
    LET s == call[c].space IN
    /\ At(c, "save")
    /\ saves' = [saves EXCEPT ![s] = @ + 1]
    /\ table' = [table EXCEPT ![s] = <<s, saves[s] + 1>>]
    /\ Ends(c)
    /\ UNCHANGED <<cache, answered, faults>>

DeleteBegins(c, s) ==
    /\ At(c, "idle")
    /\ table[s] # NoRow
    /\ DeleteCache(s)
    /\ Goes(c, "delete", s, NoRow)
    /\ UNCHANGED <<table, saves, answered, faults>>

DeleteEnds(c) ==
    /\ At(c, "delete")
    /\ table' = [table EXCEPT ![call[c].space] = NoRow]
    /\ Ends(c)
    /\ UNCHANGED <<saves, cache, answered, faults>>

-----------------------------------------------------------------------------
(* The world *)

\* Redis counts the ticks down and drops what has none left.
Tick ==
    /\ \E k \in Pk : Cached(k)
    /\ cache' = [k \in Pk |->
         IF cache[k].left > 1 THEN [cache[k] EXCEPT !.left = @ - 1] ELSE NoEntry]
    /\ UNCHANGED <<table, saves, call, answered, faults>>

\* A caller is lost, or Redis refuses its statement and the exception ends it.
Fails(c) ==
    /\ ~At(c, "idle")
    /\ Fault
    /\ Ends(c)
    /\ UNCHANGED <<table, saves, cache, answered>>

Next ==
    \/ Tick
    \/ \E c \in Caller :
         \/ Fetch(c) \/ Fill(c) \/ SaveEnds(c) \/ DeleteEnds(c) \/ Fails(c)
         \/ \E s \in Space :
              GetHit(c, s) \/ GetMiss(c, s) \/ SaveBegins(c, s) \/ DeleteBegins(c, s)

\* Time passes and a caller that has begun goes on; nobody has to ask or to save.
Fairness ==
    /\ WF_vars(Tick)
    /\ \A c \in Caller : WF_vars(Fetch(c)) /\ WF_vars(Fill(c))

Spec == Init /\ [][Next]_vars /\ Fairness

-----------------------------------------------------------------------------
(* Properties *)

\* Types: answers are rows, never the None of a miss.
TypeOK ==
    /\ saves \in [Space -> 1 .. MaxSaves]
    /\ table \in [Space -> Row \cup {NoRow}]
    /\ cache \in [Pk -> [row : Row \cup {NoRow}, left : 0 .. Timeout]]
    /\ call \in [Caller -> [pc : {"idle", "fetch", "fill", "save", "delete"},
                            space : Space, row : Row \cup {NoRow}]]
    /\ answered \in [Space -> Row]
    /\ faults \in 0 .. MaxFaults

(***************************************************************************)
(* A caller is answered with the defaults of its own space                 *)
(* (test__get_existing_cache: what get_cache returns equals the row of the *)
(* caller's master user).  With two spaces whose master users have the     *)
(* same primary key the code violates it.                                  *)
(***************************************************************************)
OwnRow == \A s \in Space : answered[s][1] = s

Copies ==
    {cache[k].row : k \in Pk} \cup {call[c].row : c \in {d \in Caller : At(d, "fill")}}

\* The rows that an answer may still show.
Alive == ({table[s] : s \in Space} \cup Copies) \ {NoRow}

(***************************************************************************)
(* The cache keeps the promise of RowPromise, whichever spaces share a     *)
(* primary key: an answer is a row of a space that has the key of the      *)
(* asking one, and an old row is never revived once the last copy of it    *)
(* is gone, whoever reads, fills, saves or fails meanwhile, spaces that    *)
(* overwrite and drop each other's entry included.                         *)
(***************************************************************************)
Promise == INSTANCE RowPromise WITH alive <- Alive

KeepsPromise == Promise!Spec

(***************************************************************************)
(* Copies of old rows go away: from some time on every copy shows the row, *)
(* as it is, of a space that has the key (the number of saves is bounded,  *)
(* they stop).  It rests on the timeout alone, since a hit does not renew  *)
(* it.                                                                     *)
(***************************************************************************)
OldRowsExpire ==
    \A k \in Pk :
        <>[](Cached(k) => \E s \in Space : PkOf[s] = k /\ cache[k].row = table[s])
=============================================================================
