---------------------------- MODULE MCRequestGate ----------------------------
(***************************************************************************)
(* Instances of RequestGate for TLC: a slot every two units of time, a     *)
(* timer that may be one late, one retry.                                  *)
(***************************************************************************)
EXTENDS RequestGate

CONSTANTS a, b
=============================================================================
