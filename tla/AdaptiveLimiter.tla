--------------------------- MODULE AdaptiveLimiter ---------------------------
(***************************************************************************)
(* AdaptiveLimiter of ratelimit/adaptive_limiter.go and the TokenBucket of *)
(* ratelimit/token_bucket.go it is built on.  Tokens and rates are whole   *)
(* numbers here: a rate is tokens per unit of time, and a factor is in     *)
(* percent, the fraction of the product being dropped.                     *)
(***************************************************************************)
EXTENDS LimitedCall

CONSTANTS
    MinRate, MaxRate, InitialRate,      \* options
    DecreaseFactor, IncreaseFactor,     \* options, in percent
    BucketSize,                         \* InitialRate / 10 in the code's units
    Thresholds                          \* the pairs <<Low, High>> of load thresholds, in percent

ASSUME AdaptiveLimiterAssumption ==
    /\ MinRate \in Nat /\ MaxRate \in Nat /\ MinRate <= MaxRate
    /\ InitialRate \in MinRate .. MaxRate
    /\ DecreaseFactor \in 0 .. 100 /\ IncreaseFactor \in Nat /\ IncreaseFactor >= 100
    /\ BucketSize \in Nat

VARIABLES
    thresholds, RejectOnOverload,       \* options, which never change
    rate, bucket, elapsed,              \* TokenBucket: rate, tokens, time since lastRefill
    currentRate,                        \* AdaptiveLimiter.currentRate
    stats,                              \* stats and consecutiveRejects
    allowed,                            \* local: what the bucket said to a call
    control,                            \* the goroutine: "ticker", "update", "done"
    stopCh,                             \* stopCh is closed
    supply                              \* history: what the rate in force has supplied

adaptiveVars == <<thresholds, RejectOnOverload, rate, bucket, elapsed, currentRate, stats,
                  allowed, control, stopCh, supply>>

AdaptiveTypeOK ==
    /\ thresholds \in Thresholds /\ RejectOnOverload \in BOOLEAN
    /\ bucket \in 0 .. BucketSize
    /\ elapsed \in 0 .. MaxTime
    /\ stats \in [AllowedRequests : Nat, RejectedRequests : Nat, consecutiveRejects : Nat]
    /\ allowed \in [Calls -> BOOLEAN]
    /\ pc \in [Calls -> {"idle", "record", "wait", "again", "recordAgain", "done"}]
    /\ control \in {"ticker", "update", "done"} /\ stopCh \in BOOLEAN

NewAdaptiveLimiter(th, reject) ==
    /\ thresholds = th /\ RejectOnOverload = reject
    /\ rate = InitialRate /\ currentRate = InitialRate
    /\ bucket = BucketSize /\ elapsed = 0
    /\ stats = [AllowedRequests |-> 0, RejectedRequests |-> 0, consecutiveRejects |-> 0]
    /\ allowed = [c \in Calls |-> FALSE]
    /\ control = "ticker" /\ stopCh = FALSE
    /\ supply = 0

Smaller(a, b) == IF a < b THEN a ELSE b

(* TokenBucket.refill: the bucket after the time since the last refill.    *)
Refilled == Smaller(BucketSize, bucket + elapsed * rate)

(* TokenBucket.Allow, under its mutex; the statistics come later.          *)
Takes(c) ==
    /\ elapsed' = 0
    /\ IF Refilled >= 1
       THEN bucket' = Refilled - 1 /\ allowed' = [allowed EXCEPT ![c] = TRUE]
       ELSE bucket' = Refilled /\ allowed' = [allowed EXCEPT ![c] = FALSE]
Allow(c) ==
    /\ pc[c] \in {"idle", "again"}
    /\ Takes(c)
    /\ Goto(c, IF pc[c] = "idle" THEN "record" ELSE "recordAgain")
    /\ UNCHANGED <<now, ended, onReject, outcome, thresholds, RejectOnOverload, rate, currentRate,
                   stats, control, stopCh, supply>>

(* The rest of Allow, and what AllowWithContext makes of its answer.       *)
Record(c) ==
    /\ pc[c] \in {"record", "recordAgain"}
    /\ IF allowed[c]
       THEN /\ stats' = [stats EXCEPT !.AllowedRequests = @ + 1]
            /\ Return(c, "handled")
       ELSE /\ stats' = [stats EXCEPT !.RejectedRequests = @ + 1, !.consecutiveRejects = @ + 1]
            /\ IF RejectOnOverload \/ pc[c] = "recordAgain"
               THEN Return(c, "limited")
               ELSE Goto(c, "wait") /\ UNCHANGED outcome
    /\ UNCHANGED <<now, ended, onReject, thresholds, RejectOnOverload, rate, bucket, elapsed,
                   currentRate, allowed, control, stopCh, supply>>

(* A call that waits: its context ends, or the second is over and it asks  *)
(* the bucket once more.                                                   *)
GiveUp(c) ==
    /\ pc[c] = "wait" /\ c \in ended
    /\ Return(c, "error")
    /\ UNCHANGED <<now, ended, onReject, adaptiveVars>>
WaitOver(c) ==
    /\ pc[c] = "wait"
    /\ Goto(c, "again")
    /\ UNCHANGED <<now, ended, onReject, outcome, adaptiveVars>>

(* adjustRate.  getCPUUsage is a constant, and RecordMetrics never finds a *)
(* start time (AllowWithContext sets it in a context of its own), so the   *)
(* average response time is always 0.                                      *)
getCPUUsage == 50
Adjusted ==
    IF getCPUUsage > thresholds[2] THEN (currentRate * DecreaseFactor) \div 100
    ELSE IF getCPUUsage < thresholds[1] THEN (currentRate * IncreaseFactor) \div 100
    ELSE currentRate
Clamped(r) == IF r < MinRate THEN MinRate ELSE IF r > MaxRate THEN MaxRate ELSE r
SetCurrentRate ==
    /\ control = "ticker" /\ ~stopCh
    /\ currentRate' = Clamped(Adjusted)
    /\ control' = "update"
    /\ UNCHANGED <<callVars, thresholds, RejectOnOverload, rate, bucket, elapsed, stats, allowed,
                   stopCh, supply>>

(* TokenBucket.UpdateRate refills at the old rate before it takes the new. *)
RefillFirstNot == UNCHANGED <<bucket, elapsed>>
RefillFirst == bucket' = Refilled /\ elapsed' = 0
UpdateRate ==
    /\ control = "update"
    /\ RefillFirst
    /\ rate' = currentRate
    /\ stats' = [stats EXCEPT !.consecutiveRejects = 0]
    /\ control' = "ticker"
    /\ UNCHANGED <<callVars, thresholds, RejectOnOverload, currentRate, allowed, stopCh, supply>>

(* Close, and the goroutine that sees it.                                  *)
CloseAdaptive ==
    /\ ~stopCh
    /\ stopCh' = TRUE
    /\ UNCHANGED <<callVars, thresholds, RejectOnOverload, rate, bucket, elapsed, currentRate,
                   stats, allowed, control, supply>>
StopControl ==
    /\ control = "ticker" /\ stopCh
    /\ control' = "done"
    /\ UNCHANGED <<callVars, thresholds, RejectOnOverload, rate, bucket, elapsed, currentRate,
                   stats, allowed, stopCh, supply>>

(* Time passes; the history adds what the rate in force supplies.          *)
PassSupplying ==
    /\ Pass
    /\ supply' = supply + rate
    /\ elapsed' = elapsed + 1
    /\ UNCHANGED <<thresholds, RejectOnOverload, rate, bucket, currentRate, stats, allowed,
                   control, stopCh>>

AdaptiveInit ==
    /\ CallInit
    /\ \E th \in Thresholds, reject \in BOOLEAN : NewAdaptiveLimiter(th, reject)
AdaptiveNext ==
    \/ PassSupplying \/ SetCurrentRate \/ UpdateRate \/ CloseAdaptive \/ StopControl
    \/ \E c \in Calls : \/ Allow(c) \/ Record(c) \/ GiveUp(c) \/ WaitOver(c)
                        \/ EndContext(c) /\ UNCHANGED adaptiveVars
AdaptiveSpec == AdaptiveInit /\ [][AdaptiveNext]_<<callVars, adaptiveVars>>

(* Calls the bucket has said yes to, recorded or not.                      *)
Granted == {c \in Calls : allowed[c]}

(* Whatever the rate is changed to, and when, the calls let through and    *)
(* the tokens left never exceed the initial burst plus what each rate      *)
(* supplied while it was in force.                                         *)
GrantedWithinSupply ==
    Cardinality(Granted) + bucket + elapsed * rate <= BucketSize + supply

(* The rate stays within its configured bounds, in the limiter and in the  *)
(* bucket, which agree except between the two assignments of adjustRate.   *)
RateInRange ==
    /\ {rate, currentRate} \subseteq MinRate .. MaxRate
    /\ control # "update" => rate = currentRate
=============================================================================
