---------------------------- MODULE MCRecycleBin ----------------------------
EXTENDS RecycleBin, TLC

CONSTANTS o1, o2, o3, c1, c2

\* o3 is created with the code of o1, once that is free.
SomeHome == (o1 :> c1) @@ (o2 :> c2) @@ (o3 :> c1)
=============================================================================
