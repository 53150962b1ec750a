----------------------------- MODULE SlideWindow -----------------------------
(***************************************************************************)
(* SlideWindowLimiter of ratelimit/slide_window.go.  The time is read      *)
(* before the mutex is taken, and the mutex is held until the handler (or  *)
(* the reject strategy) has returned, so the calls that wait for it use an *)
(* old time.                                                               *)
(***************************************************************************)
EXTENDS LimitedCall

VARIABLES
    queue,          \* the calls whose time stamp is in the queue
    mutex,          \* the calls holding the mutex: none or one
    stamp,          \* the time each call has read
    boundary,       \* history: the latest boundary entries were removed by
    passed          \* history: the calls let through

slideVars == <<queue, mutex, stamp, boundary, passed>>

SlideTypeOK ==
    /\ queue \subseteq Calls /\ mutex \subseteq Calls
    /\ stamp \in [Calls -> 0 .. MaxTime]
    /\ boundary \in -Interval .. MaxTime
    /\ pc \in [Calls -> {"idle", "lock", "handler", "reject", "done"}]

NewSlideWindowLimiter ==
    /\ queue = {} /\ mutex = {}
    /\ stamp = [c \in Calls |-> 0]
    /\ boundary = -Interval /\ passed = {}

ReadNow(c) ==
    /\ pc[c] = "idle"
    /\ stamp' = [stamp EXCEPT ![c] = now]
    /\ Goto(c, "lock")
    /\ UNCHANGED <<now, ended, onReject, outcome, queue, mutex, boundary, passed>>

Outside(c, t) == stamp[c] < t
Kept(t) == {c \in queue : ~Outside(c, t)}

Lock(c) ==
    LET b == stamp[c] - Interval IN
    /\ pc[c] = "lock" /\ mutex = {}
    /\ mutex' = {c}
    /\ boundary' = IF b > boundary THEN b ELSE boundary
    /\ IF Cardinality(Kept(b)) < Rate
       THEN queue' = Kept(b) \cup {c} /\ passed' = passed \cup {c} /\ Goto(c, "handler")
       ELSE queue' = Kept(b) /\ Goto(c, "reject") /\ UNCHANGED passed
    /\ UNCHANGED <<now, ended, onReject, outcome, stamp>>

(* The handler or the reject strategy returns; the deferred Unlock.        *)
Unlock(c) ==
    /\ pc[c] \in {"handler", "reject"}
    /\ mutex' = {}
    /\ Return(c, IF pc[c] = "handler" THEN "handled" ELSE Rejected)
    /\ UNCHANGED <<now, ended, onReject, queue, stamp, boundary, passed>>

SlideInit == CallInit /\ NewSlideWindowLimiter
SlideNext ==
    \/ Pass /\ UNCHANGED slideVars
    \/ \E c \in Calls : ReadNow(c) \/ Lock(c) \/ Unlock(c)
SlideSpec == SlideInit /\ [][SlideNext]_<<callVars, slideVars>>

(* Of the calls let through, those stamped within the newest window any    *)
(* call has looked at are at most Rate, although calls reach the mutex out *)
(* of the order of their stamps: an entry younger than every boundary used *)
(* so far is never removed.                                                *)
NewestWindowWithinRate == Cardinality({c \in passed : stamp[c] >= boundary}) <= Rate
=============================================================================
