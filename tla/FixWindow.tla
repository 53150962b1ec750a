------------------------------ MODULE FixWindow ------------------------------
(***************************************************************************)
(* FixWindowLimiter of ratelimit/fix_window.go.  The interceptor uses      *)
(* atomic operations and no lock, so each of them is a step: reading the   *)
(* clock, loading timestamp, the CompareAndSwap that opens a window, the   *)
(* Store that clears cnt and the Add that counts the call.  (The load of   *)
(* cnt before them is never used.)                                         *)
(***************************************************************************)
EXTENDS LimitedCall

VARIABLES
    timestamp, cnt,     \* fields of FixWindowLimiter
    current, seen,      \* locals: the time and the timestamp a call has read
    inWindow, stores    \* history: calls admitted and resets done in the window

fixVars == <<timestamp, cnt, current, seen, inWindow, stores>>

FixTypeOK ==
    /\ timestamp \in 0 .. MaxTime
    /\ cnt \in 0 .. Cardinality(Calls)
    /\ current \in [Calls -> 0 .. MaxTime] /\ seen \in [Calls -> 0 .. MaxTime]
    /\ pc \in [Calls -> {"idle", "load", "test", "reset", "count", "done"}]
    /\ outcome \in [Calls -> Outcomes]

NewFixWindowLimiter ==
    /\ timestamp = 0 /\ cnt = 0
    /\ current = [c \in Calls |-> 0] /\ seen = [c \in Calls |-> 0]
    /\ inWindow = 0 /\ stores = 0

ReadClock(c) ==
    /\ pc[c] = "idle"
    /\ current' = [current EXCEPT ![c] = now]
    /\ Goto(c, "load")
    /\ UNCHANGED <<now, ended, onReject, outcome, timestamp, cnt, seen, inWindow, stores>>

LoadTimestamp(c) ==
    /\ pc[c] = "load"
    /\ seen' = [seen EXCEPT ![c] = timestamp]
    /\ Goto(c, "test")
    /\ UNCHANGED <<now, ended, onReject, outcome, timestamp, cnt, current, inWindow, stores>>

(* The window is over, and the CompareAndSwap succeeds or not.             *)
Expired(c) == current[c] - seen[c] >= Interval
Swaps(c) == timestamp = seen[c]
Test(c) ==
    /\ pc[c] = "test"
    /\ IF Expired(c) /\ Swaps(c)
       THEN /\ timestamp' = current[c]
            /\ inWindow' = 0 /\ stores' = 0
            /\ Goto(c, "reset")
       ELSE /\ Goto(c, "count")
            /\ UNCHANGED <<timestamp, inWindow, stores>>
    /\ UNCHANGED <<now, ended, onReject, outcome, cnt, current, seen>>

ResetCount(c) ==
    /\ pc[c] = "reset"
    /\ cnt' = 0
    /\ stores' = stores + 1
    /\ Goto(c, "count")
    /\ UNCHANGED <<now, ended, onReject, outcome, timestamp, current, seen, inWindow>>

WithinRateAfter(n) == n <= Rate + 1
WithinRate(n) == n <= Rate
Count(c) ==
    /\ pc[c] = "count"
    /\ cnt' = cnt + 1
    /\ IF WithinRate(cnt + 1)
       THEN Return(c, "handled") /\ inWindow' = inWindow + 1
       ELSE Return(c, Rejected) /\ UNCHANGED inWindow
    /\ UNCHANGED <<now, ended, onReject, timestamp, current, seen, stores>>

FixInit == CallInit /\ NewFixWindowLimiter
FixNext ==
    \/ Pass /\ UNCHANGED fixVars
    \/ \E c \in Calls : \/ ReadClock(c) \/ LoadTimestamp(c) \/ Test(c)
                        \/ ResetCount(c) \/ Count(c)
FixSpec == FixInit /\ [][FixNext]_<<callVars, fixVars>>

(* A window admits at most Rate calls, and once more Rate for every reset  *)
(* that is done while it is current: a reset comes after the              *)
(* CompareAndSwap, so it forgets the calls counted in between, and a late  *)
(* one, of a window that is already over, clears the count of the next.    *)
WindowAdmitsRatePerReset == inWindow <= Rate * (1 + stores)

=============================================================================
