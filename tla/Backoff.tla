------------------------------ MODULE Backoff ------------------------------
(***************************************************************************)
(* The back-off strategies and retriers of internal/retry/backoff.go, and  *)
(* the delays of RetryInterceptor.calculateDelay (retry.go).  One retrier  *)
(* runs; an AdaptiveBackoffStrategy may be shared with others that record  *)
(* their results in it or reset it.  Durations are whole numbers and the   *)
(* factors are in percent, the fraction of a product being dropped.        *)
(***************************************************************************)
EXTENDS Integers

CONSTANTS
    InitialBackoff, MaxBackoff,           \* initialBackoff / BaseDelay, maxBackoff / MaxDelay
    JitterPct, SmoothPct,   \* jitterFactor and smoothingFactor, in percent
    Tries,                  \* maxAttempts
    Latencies,              \* how long a successful call may take
    MaxOthers,              \* bound on the records and resets of others
    MaxDuration             \* the largest time.Duration

(* math.Pow(2, n): the factor of an ExponentialBackoffStrategy is its      *)
(* default, 2, as that of the others always is.                            *)
Pow2[n \in Nat] == IF n = 0 THEN 1 ELSE 2 * Pow2[n - 1]

(* The products of the exponential strategies fit in a Duration: with the  *)
(* default of 100 ms they do for 36 attempts.                              *)
ASSUME BackoffAssumption ==
    /\ InitialBackoff \in Nat /\ MaxBackoff \in Nat /\ InitialBackoff <= MaxBackoff /\ Tries \in Nat
    /\ JitterPct \in 0 .. 100 /\ SmoothPct \in 0 .. 100
    /\ Latencies \subseteq 0 .. MaxDuration /\ MaxOthers \in Nat
    /\ MaxDuration \in Nat /\ 2 * InitialBackoff * Pow2[Tries] <= MaxDuration /\ 2 * MaxBackoff <= MaxDuration

VARIABLES
    method, strategy, shared,               \* what is running, which never changes
    avgLatency, failureCount, successCount, \* of the AdaptiveBackoffStrategy
    others,                                 \* records and resets of others so far
    step, tries,                            \* where the retrier is, and its attempt
    ctxEnded,                                   \* the context is done
    fnCalls, failures, before, after,       \* history: calls of fn and of the callbacks
    wait                                    \* the last back-off, -1 before the first

backoffVars == <<method, strategy, shared, avgLatency, failureCount, successCount, others, step, tries,
                 ctxEnded, fnCalls, failures, before, after, wait>>

Retriers == {"Do", "DoWithContext", "ListenableDo", "RetryWithAdaptiveBackoff", "Interceptor"}
StrategiesOf(mt) ==
    CASE mt = "Interceptor" -> {"FixedDelay", "ExponentialBackoff", "RandomizedBackoff"}
      [] mt = "RetryWithAdaptiveBackoff" -> {"Adaptive"}
      [] OTHER -> {"Exponential", "Jittered", "Adaptive"}

BackoffTypeOK ==
    /\ method \in Retriers /\ strategy \in StrategiesOf(method) /\ shared \in BOOLEAN
    /\ avgLatency \in 0 .. MaxDuration /\ failureCount \in Nat /\ successCount \in Nat
    /\ step \in {"idle", "check", "call", "judge", "sleep", "done"}
    /\ tries \in 0 .. Tries /\ ctxEnded \in BOOLEAN
    /\ wait \in -1 .. MaxDuration

NewRetrier(mt, st, sh) ==
    /\ method = mt /\ strategy = st /\ shared = sh
    /\ avgLatency = InitialBackoff /\ failureCount = 0 /\ successCount = 0 /\ others = 0
    /\ step = "idle" /\ tries = 0 /\ ctxEnded = FALSE
    /\ fnCalls = 0 /\ failures = 0 /\ before = 0 /\ after = 0 /\ wait = -1

------------------------------------------------------------------------------
(* The strategies: the back-offs NextBackoff or calculateDelay may return. *)
AtMost(x, m) == IF x > m THEN m ELSE x
AtLeast(x, m) == IF x < m THEN m ELSE x
Jitter(d) == {d + (d * j) \div 100 : j \in 0 .. JitterPct}
Exponential(n) == AtMost(InitialBackoff * Pow2[n], MaxBackoff)
AdaptiveUnbounded(n) == (avgLatency * (10 + AtMost(failureCount, 10)) * Pow2[n]) \div 10
Adaptive(n) ==
    AtMost(AtLeast((avgLatency * (10 + AtMost(failureCount, 10)) * Pow2[n]) \div 10, InitialBackoff), MaxBackoff)
NextBackoff(n) ==
    CASE strategy = "Exponential" -> {Exponential(n)}
      [] strategy = "Jittered" -> Jitter(Exponential(n))
      [] strategy = "Adaptive" -> {Adaptive(n)}
      [] strategy = "FixedDelay" -> {AtMost(InitialBackoff, MaxBackoff)}
      [] strategy = "ExponentialBackoff" -> {AtMost(InitialBackoff * Pow2[n - 1], MaxBackoff)}
      [] strategy = "RandomizedBackoff" -> {AtMost(d, MaxBackoff) : d \in Jitter(InitialBackoff * Pow2[n - 1])}

(* RecordSuccess, RecordFailure and Reset of AdaptiveBackoffStrategy.      *)
RecordSuccess(latency) ==
    /\ successCount' = successCount + 1 /\ failureCount' = 0
    /\ avgLatency' = IF avgLatency = 0 THEN latency
                     ELSE (avgLatency * (100 - SmoothPct) + latency * SmoothPct) \div 100
RecordFailure ==
    /\ failureCount' = failureCount + 1 /\ successCount' = 0
    /\ avgLatency' = AtMost((avgLatency * 11) \div 10, MaxBackoff)
Reset == failureCount' = 0 /\ successCount' = 0 /\ avgLatency' = InitialBackoff
Unrecorded == UNCHANGED <<avgLatency, failureCount, successCount>>

------------------------------------------------------------------------------
(* The loop.  DoWithContext looks at the context before every call of fn;  *)
(* ListenableRetrier reports a retry before it and a failure after it.     *)
HeedsContext == method \in {"DoWithContext", "RetryWithAdaptiveBackoff"}
Start ==
    /\ step = "idle"
    /\ step' = IF HeedsContext THEN "check" ELSE "call"
    /\ UNCHANGED <<method, strategy, shared, avgLatency, failureCount, successCount, others, tries,
                   ctxEnded, fnCalls, failures, before, after, wait>>
CheckContext ==
    /\ step = "check"
    /\ step' = IF ctxEnded THEN "done" ELSE "call"
    /\ UNCHANGED <<method, strategy, shared, avgLatency, failureCount, successCount, others, tries,
                   ctxEnded, fnCalls, failures, before, after, wait>>

Reports == method = "ListenableDo" /\ tries > 0
CallSucceeds ==
    /\ step = "call"
    /\ fnCalls' = fnCalls + 1
    /\ before' = IF Reports THEN before + 1 ELSE before
    /\ IF method = "RetryWithAdaptiveBackoff"
       THEN \E l \in Latencies : RecordSuccess(l)
       ELSE Unrecorded
    /\ step' = "done"
    /\ UNCHANGED <<method, strategy, shared, others, tries, ctxEnded, failures, after, wait>>
CallFails ==
    /\ step = "call"
    /\ fnCalls' = fnCalls + 1 /\ failures' = failures + 1
    /\ before' = IF Reports THEN before + 1 ELSE before
    /\ after' = IF method = "ListenableDo" THEN after + 1 ELSE after
    /\ IF method = "RetryWithAdaptiveBackoff" THEN RecordFailure ELSE Unrecorded
    /\ step' = "judge"
    /\ UNCHANGED <<method, strategy, shared, others, tries, ctxEnded, wait>>
(* An error the condition does not retry, which RetryWithAdaptiveBackoff   *)
(* does not record.                                                        *)
CallFailsForGood ==
    /\ step = "call"
    /\ fnCalls' = fnCalls + 1 /\ failures' = failures + 1
    /\ before' = IF Reports THEN before + 1 ELSE before
    /\ after' = IF method = "ListenableDo" THEN after + 1 ELSE after
    /\ step' = "done"
    /\ UNCHANGED <<method, strategy, shared, avgLatency, failureCount, successCount, others, tries,
                   ctxEnded, wait>>

(* The attempts are used up, or the next back-off is computed.  The        *)
(* interceptor makes MaxAttempts retries, the others maxAttempts calls.    *)
UsedUp(n) == IF method = "Interceptor" THEN n > Tries ELSE n >= Tries
Judge ==
    /\ step = "judge"
    /\ IF UsedUp(tries + 1)
       THEN step' = "done" /\ UNCHANGED <<tries, wait>>
       ELSE /\ tries' = tries + 1
            /\ wait' \in NextBackoff(tries + 1)
            /\ step' = "sleep"
    /\ UNCHANGED <<method, strategy, shared, avgLatency, failureCount, successCount, others, ctxEnded,
                   fnCalls, failures, before, after>>

(* The sleep ends, or the context does, for those that wait for both.      *)
Wake ==
    /\ step = "sleep"
    /\ step' = IF HeedsContext THEN "check" ELSE "call"
    /\ UNCHANGED <<method, strategy, shared, avgLatency, failureCount, successCount, others, tries,
                   ctxEnded, fnCalls, failures, before, after, wait>>
Interrupted ==
    /\ step = "sleep" /\ ctxEnded /\ (HeedsContext \/ method = "Interceptor")
    /\ step' = "done"
    /\ UNCHANGED <<method, strategy, shared, avgLatency, failureCount, successCount, others, tries,
                   ctxEnded, fnCalls, failures, before, after, wait>>

ContextEnds ==
    /\ ~ctxEnded /\ step # "done"
    /\ ctxEnded' = TRUE
    /\ UNCHANGED <<method, strategy, shared, avgLatency, failureCount, successCount, others, step,
                   tries, fnCalls, failures, before, after, wait>>
OthersRecord ==
    /\ shared /\ others < MaxOthers
    /\ others' = others + 1
    /\ RecordFailure \/ Reset \/ \E l \in Latencies : RecordSuccess(l)
    /\ UNCHANGED <<method, strategy, shared, step, tries, ctxEnded, fnCalls, failures, before, after, wait>>

BackoffInit ==
    \E mt \in Retriers : \E st \in StrategiesOf(mt) :
        \E sh \in (IF st = "Adaptive" /\ mt # "RetryWithAdaptiveBackoff" THEN BOOLEAN ELSE {FALSE}) :
            NewRetrier(mt, st, sh)
Loop == \/ Start \/ CheckContext \/ CallSucceeds \/ CallFails \/ CallFailsForGood
        \/ Judge \/ Wake \/ Interrupted
BackoffNext == Loop \/ ContextEnds \/ OthersRecord
BackoffSpec == BackoffInit /\ [][BackoffNext]_backoffVars /\ WF_backoffVars(Loop)

(* fn is called at most maxAttempts times (the interceptor's invoker once  *)
(* more), and a retrier of 0 attempts still calls it once.                 *)
FnCallsBounded ==
    fnCalls <= IF method = "Interceptor" THEN Tries + 1 ELSE AtLeast(Tries, 1)

(* A back-off is at most Max, of the jittered strategy Max and the jitter, *)
(* and of the adaptive strategy at least Initial, whatever latencies and   *)
(* failures it has been told of, also by others.                           *)
BackoffInRange ==
    /\ wait <= IF strategy = "Jittered" THEN MaxBackoff + (MaxBackoff * JitterPct) \div 100 ELSE MaxBackoff
    /\ (strategy = "Adaptive" /\ wait # -1) => wait >= InitialBackoff

(* The callbacks of a ListenableRetrier are told of every retry before it  *)
(* and of every failure after it.                                          *)
CallbacksMatch ==
    method = "ListenableDo" =>
        /\ after = failures
        /\ before = IF fnCalls = 0 THEN 0 ELSE fnCalls - 1

(* Retriers call the function a bounded number of times, wait within the   *)
(* bounds of the strategy, also one that others feed, and tell their       *)
(* listeners of each attempt (backoff.go, calculateDelay).                 *)
BackoffRight == BackoffTypeOK /\ FnCallsBounded /\ BackoffInRange /\ CallbacksMatch
=============================================================================
