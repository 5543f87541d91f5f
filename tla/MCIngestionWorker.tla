------------------------- MODULE MCIngestionWorker -------------------------
(* IngestionWorker for TLC. *)
EXTENDS IngestionWorker

CONSTANTS worker, command
=============================================================================
