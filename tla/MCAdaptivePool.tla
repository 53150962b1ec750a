--------------------------- MODULE MCAdaptivePool ---------------------------
(* An instance of AdaptivePool for TLC. *)
EXTENDS AdaptivePool, TLC

CONSTANTS c1, c2, c3, k1, k2, k3

Symmetry == Permutations(Callers) \cup Permutations(Conns)
=============================================================================
