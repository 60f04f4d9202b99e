--------------------------- MODULE MCStaticClient ---------------------------
(* A log of at most three entries in tiles of two, that may show two views. *)
EXTENDS StaticClient, TLC

CONSTANTS a, b

OneView == {<<a, b, a>>}
TwoViews == {<<a, b, a>>, <<b, b>>}
TheLog == <<a, b, a>>
NoBody == {<<>>}
NoGarbling == {}

Symmetry == Permutations(Workers)
=============================================================================
