------------------------------- MODULE Retry -------------------------------
(***************************************************************************)
(* RetryInterceptor and its Budget (internal/retry/retry.go).  The unary   *)
(* and the stream interceptor run the same loop.  The budget is asked in   *)
(* two reads and spent, after the delay, in two writes, so other calls get *)
(* in between; every retry keeps its slot until the call returns, when the *)
(* deferred ReleaseRetry calls run one after the other.                    *)
(***************************************************************************)
EXTENDS Integers, FiniteSets

CONSTANTS
    Calls,                      \* calls through the interceptor, each made once
    MaxAttempts,                \* Policy.MaxAttempts
    MaxConcurrentRetries,       \* of the Budget
    RetryRatios,                \* the values MaxRetryRatio may have, in percent
    Modes                       \* the values Policy.Enabled may have

ASSUME RetryAssumption ==
    /\ IsFiniteSet(Calls) /\ MaxAttempts \in Nat
    /\ MaxConcurrentRetries \in Nat \ {0}
    /\ RetryRatios \subseteq Nat /\ Modes \subseteq BOOLEAN

VARIABLES
    Enabled, MaxRetryRatio,     \* options, which never change
    currentRetries, totalRequests, retriedRequests,     \* of the Budget
    retryAt,                         \* where each call is
    attempt,                    \* the attempt each call is at
    slotsHeld,                       \* the slots each call has to release
    cancelled,                  \* calls whose context is done
    result                      \* what each call returns

retryVars == <<Enabled, MaxRetryRatio, currentRetries, totalRequests, retriedRequests, retryAt, attempt,
               slotsHeld, cancelled, result>>

Results == {"none", "ok", "error", "cancelled"}

RetryTypeOK ==
    /\ Enabled \in Modes /\ MaxRetryRatio \in RetryRatios
    /\ currentRetries \in Nat
    /\ totalRequests \in 0 .. Cardinality(Calls)
    /\ retriedRequests \in 0 .. Cardinality(Calls) * MaxAttempts
    /\ retryAt \in [Calls -> {"new", "invoke", "slots", "ratio", "delay", "take", "count", "return", "done"}]
    /\ attempt \in [Calls -> 0 .. MaxAttempts] /\ slotsHeld \in [Calls -> 0 .. MaxAttempts]
    /\ cancelled \subseteq Calls /\ result \in [Calls -> Results]

NewRetryInterceptor ==
    /\ Enabled \in Modes /\ MaxRetryRatio \in RetryRatios
    /\ currentRetries = 0 /\ totalRequests = 0 /\ retriedRequests = 0
    /\ retryAt = [c \in Calls |-> "new"] /\ attempt = [c \in Calls |-> 0] /\ slotsHeld = [c \in Calls |-> 0]
    /\ cancelled = {} /\ result = [c \in Calls |-> "none"]

GoTo(c, place) == retryAt' = [retryAt EXCEPT ![c] = place]
Returns(c, r) == GoTo(c, "return") /\ result' = [result EXCEPT ![c] = r]

(* Policy.Enabled decides whether the call is registered at all.           *)
CallDirectly(c) ==
    /\ retryAt[c] = "new" /\ ~Enabled
    /\ \E r \in {"ok", "error"} : Returns(c, r)
    /\ UNCHANGED <<Enabled, MaxRetryRatio, currentRetries, totalRequests, retriedRequests, attempt,
                   slotsHeld, cancelled>>
RegisterRequest(c) ==
    /\ retryAt[c] = "new" /\ Enabled
    /\ totalRequests' = totalRequests + 1
    /\ GoTo(c, "invoke")
    /\ UNCHANGED <<Enabled, MaxRetryRatio, currentRetries, retriedRequests, attempt, slotsHeld,
                   cancelled, result>>

(* The invoker (or streamer) answers: nil, an error that isRetryable       *)
(* refuses, or one it accepts, which is final at the last attempt.  The    *)
(* context a retry gets is a child of the call's, so it ends no later.     *)
LastAttempt(c) == attempt[c] = MaxAttempts
Invoke(c) ==
    /\ retryAt[c] = "invoke"
    /\ \/ Returns(c, "ok") /\ UNCHANGED attempt
       \/ Returns(c, "error") /\ UNCHANGED attempt
       \/ /\ ~LastAttempt(c)
          /\ attempt' = [attempt EXCEPT ![c] = @ + 1]
          /\ GoTo(c, "slots") /\ UNCHANGED result
    /\ UNCHANGED <<Enabled, MaxRetryRatio, currentRetries, totalRequests, retriedRequests, slotsHeld, cancelled>>

(* CanRetry: the atomic load of currentRetries, then the two counters      *)
(* under the read lock.  A refusal returns the last error.                 *)
SlotFree == currentRetries < MaxConcurrentRetries
RatioFree == totalRequests > 0 => retriedRequests * 100 < MaxRetryRatio * totalRequests
CheckSlots(c) ==
    /\ retryAt[c] = "slots"
    /\ IF SlotFree THEN GoTo(c, "ratio") /\ UNCHANGED result ELSE Returns(c, "error")
    /\ UNCHANGED <<Enabled, MaxRetryRatio, currentRetries, totalRequests, retriedRequests, attempt,
                   slotsHeld, cancelled>>
CheckRatio(c) ==
    /\ retryAt[c] = "ratio"
    /\ IF RatioFree THEN GoTo(c, "delay") /\ UNCHANGED result ELSE Returns(c, "error")
    /\ UNCHANGED <<Enabled, MaxRetryRatio, currentRetries, totalRequests, retriedRequests, attempt,
                   slotsHeld, cancelled>>

(* The select: the context ends, or the delay of calculateDelay is over.   *)
Cancelled(c) ==
    /\ retryAt[c] = "delay" /\ c \in cancelled
    /\ Returns(c, "cancelled")
    /\ UNCHANGED <<Enabled, MaxRetryRatio, currentRetries, totalRequests, retriedRequests, attempt,
                   slotsHeld, cancelled>>
DelayOver(c) ==
    /\ retryAt[c] = "delay"
    /\ GoTo(c, "take")
    /\ UNCHANGED <<Enabled, MaxRetryRatio, currentRetries, totalRequests, retriedRequests, attempt,
                   slotsHeld, cancelled, result>>

(* RegisterRetry: the atomic add, then retriedRequests under the lock.     *)
TakeSlot(c) ==
    /\ retryAt[c] = "take"
    /\ currentRetries' = currentRetries + 1
    /\ slotsHeld' = [slotsHeld EXCEPT ![c] = @ + 1]
    /\ GoTo(c, "count")
    /\ UNCHANGED <<Enabled, MaxRetryRatio, totalRequests, retriedRequests, attempt, cancelled, result>>
CountRetry(c) ==
    /\ retryAt[c] = "count"
    /\ retriedRequests' = retriedRequests + 1
    /\ GoTo(c, "invoke")
    /\ UNCHANGED <<Enabled, MaxRetryRatio, currentRetries, totalRequests, attempt, slotsHeld, cancelled, result>>

(* The deferred calls of ReleaseRetry, and the return.                     *)
ReleasedOnce(c) ==
    /\ retryAt[c] = "return" /\ slotsHeld[c] > 0
    /\ currentRetries' = currentRetries - 1
    /\ slotsHeld' = [slotsHeld EXCEPT ![c] = 0]
    /\ UNCHANGED <<Enabled, MaxRetryRatio, totalRequests, retriedRequests, retryAt, attempt, cancelled, result>>
ReleaseRetry(c) ==
    /\ retryAt[c] = "return" /\ slotsHeld[c] > 0
    /\ currentRetries' = currentRetries - 1
    /\ slotsHeld' = [slotsHeld EXCEPT ![c] = @ - 1]
    /\ UNCHANGED <<Enabled, MaxRetryRatio, totalRequests, retriedRequests, retryAt, attempt, cancelled, result>>
ReturnCall(c) ==
    /\ retryAt[c] = "return" /\ slotsHeld[c] = 0
    /\ GoTo(c, "done")
    /\ UNCHANGED <<Enabled, MaxRetryRatio, currentRetries, totalRequests, retriedRequests, attempt,
                   slotsHeld, cancelled, result>>

(* The context of a call that waits ends.                                  *)
Cancel(c) ==
    /\ retryAt[c] = "delay" /\ c \notin cancelled
    /\ cancelled' = cancelled \cup {c}
    /\ UNCHANGED <<Enabled, MaxRetryRatio, currentRetries, totalRequests, retriedRequests, retryAt,
                   attempt, slotsHeld, result>>

Proceed(c) ==
    \/ CallDirectly(c) \/ RegisterRequest(c) \/ Invoke(c) \/ CheckSlots(c) \/ CheckRatio(c)
    \/ Cancelled(c) \/ DelayOver(c) \/ TakeSlot(c) \/ CountRetry(c) \/ ReleaseRetry(c) \/ ReturnCall(c)
RetryNext == \E c \in Calls : Proceed(c) \/ Cancel(c)
RetrySpec == NewRetryInterceptor /\ [][RetryNext]_retryVars /\ \A c \in Calls : WF_retryVars(Proceed(c))

(* currentRetries is exactly the slots the calls hold, so nothing is left  *)
(* of it when they have returned, however their releases interleave.       *)
UpTo(n) == {p \in Calls \X (1 .. MaxAttempts) : p[2] <= n[p[1]]}
SlotsExact == currentRetries = Cardinality(UpTo(slotsHeld))

(* The budget is checked before the delay and spent after it, so the calls *)
(* in between overshoot it, but by no more than one slot each.             *)
SlotOvershootBounded == currentRetries < MaxConcurrentRetries + Cardinality(Calls)

(* The same for the ratio of retries to requests.                          *)
RatioOvershootBounded ==
    retriedRequests > 0 =>
        retriedRequests * 100 < MaxRetryRatio * totalRequests + 100 * Cardinality(Calls)

(* Every call returns, and after at most MaxAttempts retries.              *)
EveryCallReturns == \A c \in Calls : retryAt[c] = "invoke" ~> (retryAt[c] = "done" /\ attempt[c] <= MaxAttempts)

(* The budget: slots are those of the retries whose calls have not         *)
(* returned, and slots and ratio are exceeded by less than the calls that  *)
(* passed the check together (CanRetry, RegisterRetry, ReleaseRetry).      *)
BudgetHolds == RetryTypeOK /\ SlotsExact /\ SlotOvershootBounded /\ RatioOvershootBounded
=============================================================================
