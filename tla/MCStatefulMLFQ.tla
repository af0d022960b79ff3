--------------------------- MODULE MCStatefulMLFQ ---------------------------
(* Token counts on both sides of a threshold and past the last one. *)
EXTENDS StatefulMLFQ

CONSTANTS j1, j2, j3

AnyOrder == Permutations(Jobs)

MCTokens == {64, 128, 700}
=============================================================================
