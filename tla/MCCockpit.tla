----------------------------- MODULE MCCockpit -----------------------------
(* An instance of Cockpit for TLC: two recover() calls in flight. *)
EXTENDS Cockpit

CONSTANTS f1, f2   \* recover() calls

MCFetches == {f1, f2}
=============================================================================
