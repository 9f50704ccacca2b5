------------------------------ MODULE MCGoClient ------------------------------
(* The instance of GoClient for TLC: two callers, a catalogue that changes    *)
(* once.                                                                      *)
EXTENDS GoClient
=============================================================================
