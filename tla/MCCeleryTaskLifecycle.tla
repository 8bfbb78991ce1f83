----------------------- MODULE MCCeleryTaskLifecycle -----------------------
(* TLC instances of CeleryTaskLifecycle. *)
EXTENDS CeleryTaskLifecycle, TLC

WorkerSymmetry == Permutations(Worker)
=============================================================================
