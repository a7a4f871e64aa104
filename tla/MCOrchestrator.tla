--------------------------- MODULE MCOrchestrator ---------------------------
(* Instances of Orchestrator for TLC: two attempts. *)
EXTENDS Orchestrator

CONSTANTS a, b   \* attempts

MCAttempts == {a, b}
=============================================================================
