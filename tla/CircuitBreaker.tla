--------------------------- MODULE CircuitBreaker ---------------------------
(***************************************************************************)
(* The circuit breaker of internal/circuitbreaker/circuitbreaker.go and    *)
(* the goroutines that call it.  Every method of the type runs under       *)
(* cb.mutex from beginning to end, so each is one action; what interleaves *)
(* is the calls themselves, which are admitted in one state of the breaker *)
(* and report their result in another.                                     *)
(*                                                                         *)
(* Time is kept as ages (time since lastStateChange, age of each failure   *)
(* in failures_window), the only way the code looks at it.                 *)
(***************************************************************************)
EXTENDS Integers, Sequences, FiniteSets

CONSTANTS
    Callers,    \* goroutines that send requests through the breaker
    Options,    \* the configurations New and ApplyOptions may be given
    UintMod,    \* 2^32 in the code: the counters are uint32 and wrap
    AgeCap,     \* ages saturate here, above every Timeout and WindowSize
    RunCap,     \* history counters saturate here, above every threshold
    MaxAdmin    \* bound on ForceOpen/ForceClosed/Reset/ApplyOptions/InjectFailure

States == {"Closed", "HalfOpen", "Open"}
UInt == 0 .. UintMod - 1

ASSUME CallersAssumption == IsFiniteSet(Callers)

ASSUME BoundsAssumption ==
    /\ UintMod \in Nat /\ AgeCap \in Nat /\ RunCap \in Nat /\ MaxAdmin \in Nat
    /\ UintMod > 1 /\ RunCap < UintMod

(* ProgressiveFactor is the fraction Num/Den; the code truncates           *)
(* HalfOpenMaxRequests * ProgressiveFactor to a uint32.                    *)
OptionsType ==
    [Threshold : UInt \ {0}, Timeout : 0 .. AgeCap - 1,
     HalfOpenMaxRequests : UInt, Num : Nat, Den : Nat \ {0},
     MaxConcurrent : UInt, WindowSize : 0 .. AgeCap, SuccessThreshold : UInt]

ASSUME OptionsAssumption ==
    /\ Options # {} /\ Options \subseteq OptionsType
    /\ \A o \in Options : o.Threshold <= RunCap /\ o.SuccessThreshold <= RunCap

VARIABLES
    cb,         \* the CircuitBreaker struct
    call,       \* what each caller's last Allow returned, or that it is running
    flaky,      \* environment: requests admitted now may fail
    mayFail,    \* environment: callers whose running request may fail
    admin,      \* operator interventions so far
    hist        \* history of the reports since the last state change

vars == <<cb, call, flaky, mayFail, admin, hist>>

(* "probe" is a running request admitted since the breaker last entered    *)
(* HalfOpen, "running" one admitted before; the code cannot tell the two.  *)
Running == {c \in Callers : call[c] \in {"running", "probe"}}
Probing == {c \in Callers : call[c] = "probe"}

CircuitBreakerType ==
    [opts : Options, state : States, failures : UInt, successes : UInt,
     since : 0 .. AgeCap, halfOpenAllowed : UInt, halfOpenOriginal : UInt,
     concurrent : UInt, failures_window : Seq(0 .. AgeCap),
     consecutiveFailures : UInt]

CallType ==
    [Callers -> {"idle", "running", "probe", "ErrOpenState", "ErrTooManyConcurrent"}]

HistType ==
    [fails : 0 .. RunCap, oks : 0 .. RunCap, probeOks : 0 .. RunCap, grants : Nat]

(* The fields of CircuitBreaker and of the environment have their types.   *)
TypeOK ==
    /\ cb \in CircuitBreakerType
    /\ call \in CallType
    /\ flaky \in BOOLEAN
    /\ mayFail \subseteq Callers
    /\ admin \in 0 .. MaxAdmin
    /\ hist \in HistType

-----------------------------------------------------------------------------
Inc(n) == IF n + 1 = UintMod THEN 0 ELSE n + 1    \* n++ on a uint32
DecUnguarded(n) == (n + UintMod - 1) % UintMod    \* mutant of Dec: wraps below zero
DecSigned(n) == n - 1                             \* mutant of Dec: an int without guard
Dec(n) == IF n > 0 THEN n - 1 ELSE 0              \* if n > 0 { n-- }
Older(age) == IF age < AgeCap THEN age + 1 ELSE AgeCap
Count(n) == IF n < RunCap THEN n + 1 ELSE RunCap  \* history only

(* Mutant of changeState: entering HalfOpen resets neither counter. *)
changeStateKeepsProbes(b, new) ==
    IF new = "Closed" THEN
        [b EXCEPT !.state = new, !.since = 0, !.failures = 0,
                  !.failures_window = <<>>, !.consecutiveFailures = 0]
    ELSE [b EXCEPT !.state = new, !.since = 0]

(* cb.changeState(newState, now) *)
changeState(b, new) ==
    IF new = "Closed" THEN
        [b EXCEPT !.state = new, !.since = 0, !.failures = 0,
                  !.failures_window = <<>>, !.consecutiveFailures = 0]
    ELSE IF new = "HalfOpen" THEN
        [b EXCEPT !.state = new, !.since = 0, !.successes = 0,
                  !.halfOpenAllowed = b.halfOpenOriginal]
    ELSE [b EXCEPT !.state = new, !.since = 0]

New(o) ==
    [opts |-> o, state |-> "Closed", failures |-> 0, successes |-> 0, since |-> 0,
     halfOpenAllowed |-> o.HalfOpenMaxRequests,
     halfOpenOriginal |-> o.HalfOpenMaxRequests, concurrent |-> 0,
     failures_window |-> <<>>, consecutiveFailures |-> 0]

NoHistory == [fails |-> 0, oks |-> 0, probeOks |-> 0, grants |-> 0]

(* The environment and the history after the breaker became b: a change of *)
(* state ends the history, and what was a probe is now an old request.     *)
Observe(b, calls, h) ==
    /\ cb' = b
    /\ IF b.state # cb.state
       THEN /\ call' = [c \in Callers |->
                          IF calls[c] = "probe" THEN "running" ELSE calls[c]]
            /\ hist' = NoHistory
       ELSE call' = calls /\ hist' = h

Init ==
    /\ \E o \in Options : cb = New(o)
    /\ call = [c \in Callers |-> "idle"]
    /\ flaky = TRUE
    /\ mayFail = {}
    /\ admin = 0
    /\ hist = NoHistory

-----------------------------------------------------------------------------
(* Allow() *)
Full == cb.opts.MaxConcurrent > 0 /\ cb.concurrent >= cb.opts.MaxConcurrent

Admit(c) ==
    /\ c \notin Running
    /\ mayFail' = IF flaky THEN mayFail \cup {c} ELSE mayFail \ {c}
    /\ UNCHANGED <<flaky, admin>>

AllowClosed(c) ==
    /\ ~Full /\ cb.state = "Closed"
    /\ Admit(c)
    /\ Observe([cb EXCEPT !.concurrent = Inc(@)], [call EXCEPT ![c] = "running"], hist)

(* The first request after Timeout turns the breaker HalfOpen and goes     *)
(* through without touching halfOpenAllowed.                               *)
AllowAfterTimeout(c) ==
    /\ ~Full /\ cb.state = "Open" /\ cb.since > cb.opts.Timeout
    /\ Admit(c)
    /\ cb' = [changeState(cb, "HalfOpen") EXCEPT !.concurrent = Inc(@)]
    /\ call' = [call EXCEPT ![c] = "probe"]
    /\ hist' = [NoHistory EXCEPT !.grants = cb.halfOpenOriginal + 1]

AllowHalfOpen(c) ==
    /\ ~Full /\ cb.state = "HalfOpen" /\ cb.halfOpenAllowed > 0
    /\ Admit(c)
    /\ Observe([cb EXCEPT !.halfOpenAllowed = @ - 1, !.concurrent = Inc(@)],
               [call EXCEPT ![c] = "probe"], hist)

AllowRejected(c) ==
    /\ c \notin Running
    /\ \/ /\ Full
          /\ call' = [call EXCEPT ![c] = "ErrTooManyConcurrent"]
       \/ /\ ~Full
          /\ \/ cb.state = "Open" /\ cb.since <= cb.opts.Timeout
             \/ cb.state = "HalfOpen" /\ cb.halfOpenAllowed = 0
          /\ call' = [call EXCEPT ![c] = "ErrOpenState"]
    /\ UNCHANGED <<cb, flaky, mayFail, admin, hist>>

Allow(c) ==
    \/ AllowClosed(c) \/ AllowAfterTimeout(c) \/ AllowHalfOpen(c) \/ AllowRejected(c)

-----------------------------------------------------------------------------
(* Success() *)
newAllowedNone == 0    \* mutant of newAllowed: no progressive recovery
newAllowed == (cb.halfOpenOriginal * cb.opts.Num) \div cb.opts.Den

(* Mutant of AfterSuccess: a success leaves failures_window as it is. *)
AfterSuccessKeepsWindow ==
    LET b == [cb EXCEPT !.concurrent = Dec(@), !.consecutiveFailures = 0]
        n == Inc(cb.successes)
    IN  IF cb.state # "HalfOpen" THEN b
        ELSE IF n >= cb.opts.SuccessThreshold
             THEN changeState([b EXCEPT !.successes = n], "Closed")
             ELSE [b EXCEPT !.successes = n,
                            !.halfOpenAllowed = (@ + newAllowed) % UintMod]

AfterSuccess ==
    LET b == [cb EXCEPT !.concurrent = Dec(@), !.consecutiveFailures = 0]
        n == Inc(cb.successes)
    IN  IF cb.state # "HalfOpen" THEN [b EXCEPT !.failures = 0, !.failures_window = <<>>]
        ELSE IF n >= cb.opts.SuccessThreshold
             THEN changeState([b EXCEPT !.successes = n], "Closed")
             ELSE [b EXCEPT !.successes = n,
                            !.halfOpenAllowed = (@ + newAllowed) % UintMod]

Success(c) ==
    /\ c \in Running
    /\ Observe(AfterSuccess, [call EXCEPT ![c] = "idle"],
               [fails |-> 0, oks |-> Count(hist.oks),
                probeOks |-> IF c \in Probing THEN Count(hist.probeOks) ELSE hist.probeOks,
                grants |-> IF cb.state = "HalfOpen" THEN hist.grants + newAllowed
                                                    ELSE hist.grants])
    /\ mayFail' = mayFail \ {c}
    /\ UNCHANGED <<flaky, admin>>

(* Failure() *)
(* The window is in time order, so dropping the failures that are no       *)
(* longer after the cutoff keeps a suffix.                                 *)
Recent(w) ==
    SubSeq(w, 1 + Cardinality({i \in DOMAIN w : w[i] >= cb.opts.WindowSize}), Len(w))

AfterFailure ==
    LET w == IF cb.opts.WindowSize > 0 THEN Recent(Append(cb.failures_window, 0))
                                       ELSE cb.failures_window
        f == IF cb.opts.WindowSize > 0 THEN Len(w) % UintMod ELSE Inc(cb.failures)
        n == Inc(cb.consecutiveFailures)
        b == [cb EXCEPT !.concurrent = Dec(@), !.consecutiveFailures = n,
                        !.failures_window = w, !.failures = f]
    IN  IF \/ cb.state = "HalfOpen"
           \/ cb.state = "Closed" /\ (f >= cb.opts.Threshold \/ n >= cb.opts.Threshold)
        THEN changeState(b, "Open")
        ELSE b

RecordFailure(calls) ==
    Observe(AfterFailure, calls, [hist EXCEPT !.fails = Count(@), !.oks = 0, !.probeOks = 0])

Failure(c) ==
    /\ c \in Running /\ c \in mayFail
    /\ RecordFailure([call EXCEPT ![c] = "idle"])
    /\ mayFail' = mayFail \ {c}
    /\ UNCHANGED <<flaky, admin>>

-----------------------------------------------------------------------------
(* Operator interventions *)
Intervene ==
    /\ admin < MaxAdmin
    /\ admin' = admin + 1
    /\ UNCHANGED <<flaky, mayFail>>

ForceOpen == Intervene /\ Observe(changeState(cb, "Open"), call, hist)

ForceClosed == Intervene /\ Observe(changeState(cb, "Closed"), call, NoHistory)

Reset ==
    /\ Intervene
    /\ Observe([changeState(cb, "Closed") EXCEPT
                  !.failures = 0, !.successes = 0, !.failures_window = <<>>,
                  !.halfOpenAllowed = cb.halfOpenOriginal, !.concurrent = 0,
                  !.consecutiveFailures = 0],
               call, NoHistory)

ApplyOptions(o) ==
    /\ Intervene
    /\ Observe([cb EXCEPT !.opts = o, !.halfOpenOriginal = o.HalfOpenMaxRequests],
               call, hist)

InjectFailure == Intervene /\ RecordFailure(call)

-----------------------------------------------------------------------------
(* Environment *)
Tick ==
    /\ cb' = [cb EXCEPT !.since = Older(@),
                        !.failures_window = [i \in DOMAIN @ |-> Older(@[i])]]
    /\ UNCHANGED <<call, flaky, mayFail, admin, hist>>

ServiceRecovers ==
    /\ flaky
    /\ flaky' = FALSE
    /\ UNCHANGED <<cb, call, mayFail, admin, hist>>

Next ==
    \/ \E c \in Callers : Allow(c) \/ Success(c) \/ Failure(c)
    \/ ForceOpen \/ ForceClosed \/ Reset \/ InjectFailure
    \/ \E o \in Options : ApplyOptions(o)
    \/ Tick
    \/ ServiceRecovers

Spec == Init /\ [][Next]_vars

(* Requests keep arriving, an admitted request reports its result, and     *)
(* time passes.                                                            *)
Fairness ==
    /\ WF_vars(Tick)
    /\ \A c \in Callers : WF_vars(Allow(c)) /\ WF_vars(Success(c) \/ Failure(c))

FairSpec == Spec /\ Fairness

-----------------------------------------------------------------------------
(* Properties *)

(* cb.concurrent never counts more requests than are really in flight, so  *)
(* Allow never answers ErrTooManyConcurrent while fewer than MaxConcurrent *)
(* requests run (Reset and InjectFailure may make it count fewer).         *)
ConcurrencyNeverOvercounts == cb.concurrent <= Cardinality(Running)

(* In HalfOpen every request let through and every one that may still be   *)
(* let through was granted: one for the request that ended Open, the       *)
(* configured HalfOpenMaxRequests, and newAllowed for each success.        *)
ProbeBudget ==
    IF cb.state = "HalfOpen"
    THEN Cardinality(Probing) + hist.probeOks + cb.halfOpenAllowed <= hist.grants
    ELSE Probing = {}

(* A failure reported while Closed opens the breaker exactly when it is    *)
(* the Threshold-th since the last success or the last closing, whatever   *)
(* failures_window has pruned and whatever options were applied meanwhile. *)
TripsExactlyAtThreshold ==
    [][ cb.state = "Closed" /\ (InjectFailure \/ \E c \in Callers : Failure(c))
        => (cb'.state = "Open" <=> hist.fails + 1 >= cb.opts.Threshold) ]_vars

(* A success reported while HalfOpen closes the breaker exactly when it is *)
(* the SuccessThreshold-th since the breaker became HalfOpen.              *)
ClosesExactlyAtSuccessThreshold ==
    [][ cb.state = "HalfOpen" /\ (\E c \in Callers : Success(c))
        => (cb'.state = "Closed" <=> hist.oks + 1 >= cb.opts.SuccessThreshold) ]_vars

(* Once requests stop failing the breaker closes and stays closed, from    *)
(* any state and with any old requests still to report: no lost probe      *)
(* leaves it HalfOpen for good.                                            *)
Recovers == (<>[]~flaky) => <>[](cb.state = "Closed")

(* What the two action properties rest on: the breaker's own counters are  *)
(* the history's while they matter.                                        *)
CountersTrackHistory ==
    /\ cb.state = "Closed" =>
          /\ cb.consecutiveFailures = hist.fails /\ hist.fails < RunCap
          /\ cb.failures <= hist.fails
          /\ Len(cb.failures_window) <= hist.fails
    /\ cb.state = "HalfOpen" => cb.successes = hist.oks /\ hist.oks < RunCap
=============================================================================
