-------------------------- MODULE MCCircuitBreaker --------------------------
(* Instances of CircuitBreaker for TLC. *)
EXTENDS CircuitBreaker

CONSTANTS c1, c2

Option(threshold, timeout, half, num, den, max, window, ok) ==
    [Threshold |-> threshold, Timeout |-> timeout, HalfOpenMaxRequests |-> half,
     Num |-> num, Den |-> den, MaxConcurrent |-> max, WindowSize |-> window,
     SuccessThreshold |-> ok]

(* The default ProgressiveFactor of 2 with small thresholds, and a second  *)
(* configuration without window that ApplyOptions may switch to.           *)
DefaultOptions == Option(2, 1, 1, 2, 1, 2, 2, 2)
OtherOptions   == Option(3, 0, 2, 3, 2, 0, 0, 3)

BothOptions == {DefaultOptions, OtherOptions}

(* HalfOpenMaxRequests * ProgressiveFactor truncates to zero. *)
TruncatedOptions == {Option(2, 1, 1, 1, 2, 0, 0, 3)}
=============================================================================
