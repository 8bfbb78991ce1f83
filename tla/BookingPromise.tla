--------------------------- MODULE BookingPromise ---------------------------
(***************************************************************************)
(* What the owner of a space may rely on while a file is imported and      *)
(* nobody else books: a transaction appears with all that it books or not  *)
(* at all, no two have one unique code, and one that is there goes only    *)
(* when the scheme replaces the transaction of a code that comes again.    *)
(* How often the import is delivered, and where it was interrupted, is not *)
(* said.                                                                   *)
(***************************************************************************)
EXTENDS Naturals

CONSTANTS
    Code,
    MaxNum, \* numbers of transactions (bound)
    NoCode  \* of a transaction without a unique code

VARIABLES
    booked,  \* the transactions that are there: number and code
    settings \* what the scheme does with a code that comes again

vars == <<booked, settings>>

Init ==
    /\ booked = {}
    /\ settings \in {"skip", "without", "overwrite", "treat"}

Book(n, c) ==
    /\ \A b \in booked : b[1] # n /\ (c # NoCode => b[2] # c)
    /\ settings = "without" => c = NoCode
    /\ booked' = booked \cup {<<n, c>>}
    /\ UNCHANGED settings

Replace(c) ==
    /\ settings = "overwrite"
    /\ \E gone \in SUBSET {b \in booked : b[2] = c} : booked' = booked \ gone
    /\ UNCHANGED settings

Next ==
    \/ \E n \in 1 .. MaxNum, c \in Code \cup {NoCode} : Book(n, c)
    \/ \E c \in Code : Replace(c)

Spec == Init /\ [][Next]_vars
=============================================================================
