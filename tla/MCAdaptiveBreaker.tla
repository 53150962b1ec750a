------------------------- MODULE MCAdaptiveBreaker --------------------------
(* Instances of AdaptiveBreaker for TLC. *)
EXTENDS AdaptiveBreaker

CONSTANT c1

Option(threshold) ==
    [Threshold |-> threshold, Timeout |-> 0, HalfOpenMaxRequests |-> 1,
     Num |-> 2, Den |-> 1, MaxConcurrent |-> 0, WindowSize |-> 0,
     SuccessThreshold |-> 1]

LowOptions == {Option(1)}
=============================================================================
