------------------------- MODULE MCAdaptiveBatcher --------------------------
(* Instances of AdaptiveBatcher for TLC. *)
EXTENDS AdaptiveBatcher, TLC

CONSTANTS i1, i2, i3

Symmetry == Permutations(Items \ Expiring)

(* Both functions, as NewMultiProcessorBatcher has them, no split function,*)
(* or neither.                                                             *)
SomeFunctions == {<<TRUE, TRUE>>, <<TRUE, FALSE>>, <<FALSE, FALSE>>}
BothFunctions == {<<TRUE, TRUE>>}
=============================================================================
