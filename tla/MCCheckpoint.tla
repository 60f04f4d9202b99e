----------------------------- MODULE MCCheckpoint -----------------------------
(***************************************************************************)
(* Instances of Checkpoint for TLC: records of two pieces through a buffer *)
(* of three, so that every overflow cuts one, and a dedup map that is full *)
(* before the last of them.                                                *)
(***************************************************************************)
EXTENDS Checkpoint

ThreeRecords == 1 .. 3
=============================================================================
