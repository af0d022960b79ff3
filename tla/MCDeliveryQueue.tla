-------------------------- MODULE MCDeliveryQueue --------------------------
(* A strict and a best-effort message, two overlapping recoveries. *)
EXTENDS DeliveryQueue, TLC

CONSTANTS r1, r2

Symmetry == Permutations(Recoveries)

=============================================================================
