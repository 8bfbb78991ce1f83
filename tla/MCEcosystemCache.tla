------------------------- MODULE MCEcosystemCache --------------------------
(* TLC instances of EcosystemCache: two spaces that share a key, and a third that does not. *)
EXTENDS EcosystemCache, TLC

CONSTANTS s1, s2, s3, c1, c2

PkShared == (s1 :> 1) @@ (s2 :> 1) @@ (s3 :> 2)

=============================================================================
