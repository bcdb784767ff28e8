------------------------------ MODULE MCQueue ------------------------------
(* Instances of BasicQueue for TLC. *)
EXTENDS BasicQueue, TLC

CONSTANTS p1, p2, c1, c2, a, b

Symmetry == Permutations(Producers) \cup Permutations(Consumers) \cup Permutations(Value)
=============================================================================
