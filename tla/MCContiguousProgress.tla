------------------------ MODULE MCContiguousProgress ------------------------
(***************************************************************************)
(* Instance of ContiguousProgress for TLC: a range that does not begin at  *)
(* zero, so that intervals below, across and above its start all occur.    *)
(***************************************************************************)
EXTENDS ContiguousProgress
=============================================================================
