-------------------------- MODULE MCPackageInstall --------------------------
EXTENDS PackageInstall, TLC

CONSTANTS j1, j2, w1, w2, c1, c2, p1, i1

O(package, deps, primary, actions) ==
    [package |-> package, deps |-> deps, primary |-> primary, actions |-> actions]

\* Two releases of a package with different primary modules; a package
\* and one of its dependencies alone.
SomeOrders ==
    {(j1 :> O(p1, <<c1>>, c1, FALSE) @@ j2 :> O(p1, <<c2>>, c2, FALSE)),
     (j1 :> O(p1, <<c1, c2>>, c1, TRUE) @@ j2 :> O(NoCode, <<c1>>, NoCode, FALSE))}
=============================================================================
