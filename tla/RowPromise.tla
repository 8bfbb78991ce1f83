----------------------------- MODULE RowPromise -----------------------------
(***************************************************************************)
(* What a caller that asks the cache for the defaults of its space may     *)
(* rely on, whichever spaces have a key in common: it is answered with a   *)
(* row of a space that has its key (its own space, when no other has it),  *)
(* and a row that nobody can be answered with any more never comes back.   *)
(* Whether a row is read from the table or from a copy, and who keeps      *)
(* copies, is not said: alive is the set of rows that an answer may still  *)
(* show.                                                                   *)
(***************************************************************************)
EXTENDS Naturals

CONSTANTS
    Space,
    PkOf,     \* space -> its key
    MaxSaves  \* saves of the row of one space (bound)

Row == Space \X (1 .. MaxSaves)

VARIABLES
    saves,    \* space -> how often its row was saved
    alive,
    answered  \* space -> the last row its callers were answered with

vars == <<saves, alive, answered>>

Init ==
    /\ saves = [s \in Space |-> 1]
    /\ alive = {<<s, 1>> : s \in Space}
    /\ answered = [s \in Space |-> <<s, 1>>]

\* A row is saved.  Copies of older ones may go at any time.
Save(s) ==
    /\ saves' = [saves EXCEPT ![s] = @ + 1]
    /\ alive' \subseteq alive \cup {<<s, saves'[s]>>}
    /\ UNCHANGED answered

Answer(s) ==
    \E row \in alive :
        /\ PkOf[row[1]] = PkOf[s]
        /\ answered' = [answered EXCEPT ![s] = row]
        /\ alive' \subseteq alive
        /\ UNCHANGED saves

Forget ==
    /\ alive' \subseteq alive
    /\ UNCHANGED <<saves, answered>>

Next == Forget \/ \E s \in Space : Save(s) \/ Answer(s)

Spec == Init /\ [][Next]_vars
=============================================================================
