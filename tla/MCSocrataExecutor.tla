------------------------- MODULE MCSocrataExecutor -------------------------
(* SocrataExecutor for TLC. *)
EXTENDS SocrataExecutor

CONSTANTS c1, c2
=============================================================================
