--------------------------- MODULE MCEodScheduler ---------------------------
(* Values for the scheduler's constants are in the .cfg files. *)
EXTENDS EodScheduler
=============================================================================
