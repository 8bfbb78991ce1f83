-------------------------- MODULE MCJournalArchive --------------------------
(* TLC instances of JournalArchive. *)
EXTENDS JournalArchive, TLC

CONSTANTS beat, user
=============================================================================
