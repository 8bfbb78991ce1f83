-------------------------- MODULE MCDatabaseImport --------------------------
(* TLC instances of DatabaseImport: two imports of the same instrument, *)
(* one of a currency, one of prices.                                    *)
EXTENDS DatabaseImport, TLC

CONSTANTS i1, i2, c1, p1

TaskSymmetry == Permutations({i1, i2})
=============================================================================
