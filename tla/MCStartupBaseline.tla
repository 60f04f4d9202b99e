-------------------------- MODULE MCStartupBaseline --------------------------
(* Two logs of at most three entries, any number of transactions.            *)
EXTENDS StartupBaseline, TLC

Symmetry == Permutations(Logs)
=============================================================================
