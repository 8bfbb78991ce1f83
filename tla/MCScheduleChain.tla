--------------------------- MODULE MCScheduleChain ---------------------------
(* TLC instances of ScheduleChain. *)
EXTENDS ScheduleChain, TLC

CONSTANTS i1, w1, w2
=============================================================================
