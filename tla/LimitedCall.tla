----------------------------- MODULE LimitedCall -----------------------------
(***************************************************************************)
(* What the limiters of ratelimit/ share: the calls of their unary         *)
(* interceptor, the contexts of these calls, the two reject strategies of  *)
(* token_bucket.go and a clock that advances at any time.                  *)
(***************************************************************************)
EXTENDS Integers, FiniteSets

CONSTANTS
    Calls,          \* the requests, each made once
    Interval, Rate, \* options of the limiters
    MaxTime         \* bound of the clock

ASSUME LimitedCallAssumption ==
    /\ IsFiniteSet(Calls)
    /\ Interval \in Nat \ {0} /\ Rate \in Nat /\ MaxTime \in Nat

VARIABLES
    now,            \* time.Now()
    pc,             \* where each call is in the interceptor
    ended,          \* the calls whose context is done
    onReject,       \* the reject strategy, which never changes
    outcome         \* what each call has come to

callVars == <<now, pc, ended, onReject, outcome>>

rejectStrategy == {"default", "markFailed"}
Outcomes == {"none", "handled", "marked", "limited", "error"}

CallInit ==
    /\ now = 0
    /\ pc = [c \in Calls |-> "idle"]
    /\ ended = {}
    /\ onReject \in rejectStrategy
    /\ outcome = [c \in Calls |-> "none"]

(* defaultRejectStrategy answers with an error; markFailedStrategy runs the *)
(* handler all the same, with a mark in its context.                       *)
Rejected == IF onReject = "default" THEN "limited" ELSE "marked"

Goto(c, place) == pc' = [pc EXCEPT ![c] = place]
Return(c, o) == Goto(c, "done") /\ outcome' = [outcome EXCEPT ![c] = o]

(* The environment: time passes, and a context is cancelled or expires,    *)
(* which only matters to a call that looks at it.                          *)
Pass ==
    /\ now < MaxTime
    /\ now' = now + 1
    /\ UNCHANGED <<pc, ended, onReject, outcome>>
EndContext(c) ==
    /\ c \notin ended /\ pc[c] \in {"select", "wait"}
    /\ ended' = ended \cup {c}
    /\ UNCHANGED <<now, pc, onReject, outcome>>
=============================================================================
