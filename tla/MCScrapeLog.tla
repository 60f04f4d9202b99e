----------------------------- MODULE MCScrapeLog -----------------------------
(***************************************************************************)
(* Instances of ScrapeLog for TLC: a log of three entries, one of them     *)
(* malformed, and up to three process runs, each with options of its own.  *)
(***************************************************************************)
EXTENDS ScrapeLog

Everything == [start |-> -1, count |-> 0, fromEnd |-> FALSE]
Tail == [start |-> -1, count |-> 0, fromEnd |-> TRUE]

AllOptions == {Everything, Tail}
OneOption == {Everything}
=============================================================================
