----------------------------- MODULE MCMonitorLog -----------------------------
(***************************************************************************)
(* Instances of MonitorLog for TLC: two logs, one entry of one of them     *)
(* malformed.                                                              *)
(***************************************************************************)
EXTENDS MonitorLog, TLC

CONSTANTS a, b

\* Log a grows to two entries, the second malformed, log b to one.
OneMalformed == {<<a, 1>>}
TwoAndOne == (a :> 2) @@ (b :> 1)
=============================================================================
