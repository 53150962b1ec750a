-------------------------- MODULE AdaptiveBreaker ---------------------------
(***************************************************************************)
(* internal/circuitbreaker/adaptive_breaker.go: a CircuitBreaker with      *)
(* metrics and a loop that adapts its parameters.                          *)
(*                                                                         *)
(* Every state change starts a goroutine per listener, so the listener     *)
(* that maintains metrics.CurrentState runs later and in any order.        *)
(* Failure, Reset and the reset ticker update the metrics in steps of      *)
(* their own.  RequestCount5m is incremented just before the base Allow;   *)
(* the two are one step, since only the reset ticker could come between    *)
(* and it may as well come after.  Response times only matter as slow,     *)
(* normal or fast on average.                                              *)
(***************************************************************************)
EXTENDS CircuitBreaker, SequencesExt

CONSTANTS
    MinThreshold, MaxThreshold,         \* AdaptiveOptions
    MinTimeout, MaxTimeout,             \* in percent of the configured Timeout
    IncreaseRate, DecreaseRate,         \* in percent
    MaxPending,                         \* bound on listener goroutines
    CountCap                            \* bound on RequestCount5m

ASSUME AdaptiveAssumption ==
    /\ {MinThreshold, MaxThreshold, MinTimeout, MaxTimeout} \subseteq Nat
    /\ MinThreshold <= MaxThreshold /\ MinTimeout <= MaxTimeout
    /\ {IncreaseRate, DecreaseRate, MaxPending, CountCap} \subseteq Nat
    /\ CountCap > 0

VARIABLES
    CurrentState, CurrentThreshold, CurrentTimeout,     \* metrics
    RequestCount5m, FailureCount5m,                     \* metrics
    FailureRate,    \* metrics.FailureRate as the two counts it was computed from
    pending,        \* listener goroutines: the state each will store
    report,         \* what is left of each caller's Failure()
    resetting,      \* Reset() has reset the base breaker, not yet the metrics
    loop,           \* adaptiveAdjustmentLoop
    read,           \* the metrics adjustParameters has read
    inOrder         \* history: CurrentState was never stored out of order

metricVars == <<CurrentState, CurrentThreshold, CurrentTimeout, RequestCount5m,
                FailureCount5m, FailureRate>>
avars == <<vars, metricVars, pending, report, resetting, loop, read, inOrder>>

Rates == [f : 0 .. 2 * CountCap + Cardinality(Callers), r : 0 .. CountCap]

ATypeOK ==
    /\ TypeOK
    /\ CurrentState \in States /\ CurrentThreshold \in Nat /\ CurrentTimeout \in Nat
    /\ RequestCount5m \in 0 .. CountCap
    /\ FailureCount5m \in 0 .. 2 * CountCap + Cardinality(Callers)
    /\ FailureRate \in Rates
    /\ pending \in Seq(States) /\ Len(pending) <= MaxPending
    /\ report \in [Callers -> {"none", "count", "rate"}]
    /\ resetting \in BOOLEAN /\ inOrder \in BOOLEAN
    /\ loop \in {"tick", "adjust", "zero", "stopped"}
    /\ read \in [rate : Rates, threshold : Nat, timeout : Nat]

NothingRead == [rate |-> [f |-> 0, r |-> 0], threshold |-> 0, timeout |-> 0]

AInit ==
    /\ Init
    /\ CurrentState = "Closed"
    /\ CurrentThreshold = cb.opts.Threshold /\ CurrentTimeout = 100
    /\ RequestCount5m = 0 /\ FailureCount5m = 0
    /\ FailureRate = [f |-> 0, r |-> 1]
    /\ pending = <<>> /\ report = [c \in Callers |-> "none"]
    /\ resetting = FALSE /\ loop = "tick" /\ inOrder = TRUE
    /\ read = NothingRead

-----------------------------------------------------------------------------
(* changeState starts a goroutine for the listener if the state changes. *)
Notify ==
    IF cb'.state = cb.state THEN pending' = pending
    ELSE Len(pending) < MaxPending /\ pending' = Append(pending, cb'.state)

(* Mutant of Listener: the half-open state is not stored. *)
ListenerSkips(n) ==
    /\ pending' = RemoveAt(pending, n)
    /\ CurrentState' = IF pending[n] = "HalfOpen" THEN CurrentState ELSE pending[n]

(* The listener's goroutine stores its state, whatever has happened since. *)
Listener(n) ==
    /\ pending' = RemoveAt(pending, n)
    /\ CurrentState' = pending[n]

RunListener ==
    /\ \E n \in DOMAIN pending :
         Listener(n) /\ inOrder' = (inOrder /\ n = 1 /\ ~resetting)
    /\ UNCHANGED <<vars, CurrentThreshold, CurrentTimeout, RequestCount5m,
                   FailureCount5m, FailureRate, report, resetting, loop, read>>

-----------------------------------------------------------------------------
(* The methods of AdaptiveCircuitBreaker *)
AAllow(c) ==
    /\ report[c] = "none" /\ RequestCount5m < CountCap
    /\ Allow(c) /\ Notify
    /\ RequestCount5m' = RequestCount5m + 1
    /\ UNCHANGED <<CurrentState, CurrentThreshold, CurrentTimeout, FailureCount5m,
                   FailureRate, report, resetting, loop, read, inOrder>>

ASuccess(c) ==
    /\ Success(c) /\ Notify
    /\ UNCHANGED <<metricVars, report, resetting, loop, read, inOrder>>

AFailure(c) ==
    /\ Failure(c) /\ Notify
    /\ report' = [report EXCEPT ![c] = "count"]
    /\ UNCHANGED <<metricVars, resetting, loop, read, inOrder>>

CountFailure(c) ==
    /\ report[c] = "count"
    /\ FailureCount5m' = FailureCount5m + 1
    /\ report' = [report EXCEPT ![c] = "rate"]
    /\ UNCHANGED <<vars, CurrentState, CurrentThreshold, CurrentTimeout,
                   RequestCount5m, FailureRate, pending, resetting, loop, read, inOrder>>

UpdateRate(c) ==
    /\ report[c] = "rate"
    /\ FailureRate' = [f |-> FailureCount5m, r |-> RequestCount5m]
    /\ report' = [report EXCEPT ![c] = "none"]
    /\ UNCHANGED <<vars, CurrentState, CurrentThreshold, CurrentTimeout,
                   RequestCount5m, FailureCount5m, pending, resetting, loop, read, inOrder>>

AReset ==
    /\ ~resetting
    /\ Reset /\ Notify
    /\ resetting' = TRUE
    /\ UNCHANGED <<metricVars, report, loop, read, inOrder>>

(* The metrics' half of Reset().  It is out of order if the base breaker   *)
(* has moved on, or if a listener started before will still store.         *)
ResetMetrics ==
    /\ resetting
    /\ resetting' = FALSE
    /\ CurrentState' = "Closed"
    /\ inOrder' = (inOrder /\ pending = <<>> /\ cb.state = "Closed")
    /\ UNCHANGED <<vars, CurrentThreshold, CurrentTimeout, RequestCount5m,
                   FailureCount5m, FailureRate, pending, report, loop, read>>

(* Methods of the embedded breaker, and the environment *)
BaseStep ==
    /\ \/ ForceOpen \/ ForceClosed \/ InjectFailure
       \/ \E o \in Options : ApplyOptions(o)
       \/ Tick \/ ServiceRecovers
    /\ Notify
    /\ UNCHANGED <<metricVars, report, resetting, loop, read, inOrder>>

-----------------------------------------------------------------------------
(* adaptiveAdjustmentLoop() *)
ResetTickRequests ==
    /\ loop = "tick"
    /\ loop' = "zero"
    /\ RequestCount5m' = 0
    /\ UNCHANGED <<vars, CurrentState, CurrentThreshold, CurrentTimeout,
                   FailureCount5m, FailureRate, pending, report, resetting, read, inOrder>>

ResetTickFailures ==
    /\ loop = "zero"
    /\ loop' = "tick"
    /\ FailureCount5m' = 0
    /\ UNCHANGED <<vars, CurrentState, CurrentThreshold, CurrentTimeout,
                   RequestCount5m, FailureRate, pending, report, resetting, read, inOrder>>

ReadMetrics ==
    /\ loop = "tick"
    /\ loop' = "adjust"
    /\ read' = [rate |-> FailureRate, threshold |-> CurrentThreshold,
                timeout |-> CurrentTimeout]
    /\ UNCHANGED <<vars, metricVars, pending, report, resetting, inOrder>>

(* f/r as a float: Inf if only r is 0, and not a number if both are. *)
RateHigh == read.rate.f * 10 > read.rate.r
RateLow == read.rate.f * 100 < read.rate.r

Bounded(n, lo, hi) == IF n < lo THEN lo ELSE IF n > hi THEN hi ELSE n

NewThreshold ==
    Bounded(IF RateHigh THEN (read.threshold * IncreaseRate) \div 100
            ELSE IF RateLow THEN (read.threshold * DecreaseRate) \div 100
            ELSE read.threshold,
            MinThreshold, MaxThreshold)

NewTimeout(avg) ==
    Bounded(CASE avg = "slow" -> (read.timeout * 11) \div 10
              [] avg = "fast" -> (read.timeout * 9) \div 10
              [] OTHER -> read.timeout,
            MinTimeout, MaxTimeout)

(* adjustParameters() under the base breaker's mutex.  It writes to its    *)
(* own copy of the options and to the metrics, not to cb.opts.             *)
Adjust ==
    /\ loop = "adjust"
    /\ loop' = "tick" /\ read' = NothingRead
    /\ IF cb.state = "Closed"
       THEN /\ CurrentThreshold' = NewThreshold
            /\ \E avg \in {"slow", "normal", "fast"} : CurrentTimeout' = NewTimeout(avg)
       ELSE UNCHANGED <<CurrentThreshold, CurrentTimeout>>
    /\ UNCHANGED <<vars, CurrentState, RequestCount5m, FailureCount5m, FailureRate,
                   pending, report, resetting, inOrder>>

(* Close() *)
StopLoop ==
    /\ loop = "tick"
    /\ loop' = "stopped"
    /\ UNCHANGED <<vars, metricVars, pending, report, resetting, read, inOrder>>

-----------------------------------------------------------------------------
ANext ==
    \/ \E c \in Callers :
         AAllow(c) \/ ASuccess(c) \/ AFailure(c) \/ CountFailure(c) \/ UpdateRate(c)
    \/ AReset \/ ResetMetrics \/ BaseStep
    \/ RunListener
    \/ ResetTickRequests \/ ResetTickFailures \/ ReadMetrics \/ Adjust \/ StopLoop

ASpec == AInit /\ [][ANext]_avars

-----------------------------------------------------------------------------
(* Properties *)

(* Listeners that run in the order of the state changes leave the state of *)
(* the breaker in the metrics, and none is lost: with nothing under way    *)
(* CurrentState is the breaker's.                                          *)
MetricsCatchUp == inOrder /\ pending = <<>> /\ ~resetting => CurrentState = cb.state

(* The threshold and the timeout the loop has settled on are within their  *)
(* bounds, whatever the failure rate (infinite or undefined included) and  *)
(* however often it adapts; before, they are the configured ones.          *)
AdaptedInRange ==
    /\ \/ CurrentThreshold \in MinThreshold .. MaxThreshold
       \/ \E o \in Options : CurrentThreshold = o.Threshold
    /\ CurrentTimeout \in MinTimeout .. MaxTimeout \/ CurrentTimeout = 100

(* The metrics: they have their types, show the breaker's state once the   *)
(* listeners that were started in order have run, and the adapted          *)
(* threshold and timeout stay in their ranges (metricsListener,            *)
(* adjustParameters, resetStats).                                          *)
MetricsRight == ATypeOK /\ MetricsCatchUp /\ AdaptedInRange
=============================================================================
