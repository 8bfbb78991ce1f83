------------------------ MODULE MCTransactionImport ------------------------
EXTENDS TransactionImport

CONSTANTS c1, v1

B(c, k) == [code |-> c, kind |-> k]
R(kind, bookings) == [kind |-> kind, bookings |-> bookings]

\* One code twice in a file, two scenarios for a row, a procedure, rows
\* without code, rows that are filtered out or take the default scenario.
SomeFiles ==
    {<<R("matched", <<B(c1, "plain"), B(c1, "plain")>>), R("default", <<B(c1, "plain")>>)>>,
     <<R("matched", <<B(c1, "procedure"), B(c1, "plain")>>), R("filtered", <<>>)>>,
     <<R("default", <<B(NoCode, "plain")>>), R("matched", <<B(c1, "plain")>>)>>}
=============================================================================
