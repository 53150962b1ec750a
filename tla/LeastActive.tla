---------------------------- MODULE LeastActive ----------------------------
(***************************************************************************)
(* loadbalance/leastactive: Pick loads the count of every connection one   *)
(* after the other and then adds to the least one, with nothing locked in  *)
(* between; Done takes one away by adding the largest unsigned integer.    *)
(***************************************************************************)
EXTENDS Integers, FiniteSets

CONSTANTS
    Pool,           \* the connections of Build, 1 .. their number
    Callers,        \* the callers of Pick
    Mod             \* the counts are modulo Mod (2^32 in the code)

ASSUME LeastActiveAssumption ==
    /\ IsFiniteSet(Pool) /\ Pool = 1 .. Cardinality(Pool) /\ IsFiniteSet(Callers)
    /\ Mod \in Nat /\ Mod > Cardinality(Callers) + 1

VARIABLES
    allowed,        \* the connections the filter lets through
    active,         \* the count of every connection
    stage,           \* where every caller is: "idle", "scan", "add", "call"
    pos,            \* the connection it looks at next
    least,          \* the connection and count it has found so far
    disturbed       \* history: another caller has changed a count since it began to pick

leastVars == <<allowed, active, stage, pos, least, disturbed>>

None == [conn |-> 0, count |-> Mod - 1]

LeastActiveTypeOK ==
    /\ allowed \subseteq Pool /\ active \in [Pool -> 0 .. Mod - 1]
    /\ stage \in [Callers -> {"idle", "scan", "add", "call"}]
    /\ pos \in [Callers -> 1 .. Cardinality(Pool) + 1]
    /\ least \in [Callers -> [conn : Pool \cup {0}, count : 0 .. Mod - 1]]
    /\ disturbed \in [Callers -> BOOLEAN]

BuildLeastActive(a) ==
    /\ allowed = a
    /\ active = [c \in Pool |-> 0]
    /\ stage = [p \in Callers |-> "idle"] /\ pos = [p \in Callers |-> 1]
    /\ least = [p \in Callers |-> None]
    /\ disturbed = [p \in Callers |-> FALSE]

BeginPick(p) ==
    /\ stage[p] = "idle"
    /\ stage' = [stage EXCEPT ![p] = "scan"]
    /\ pos' = [pos EXCEPT ![p] = 1] /\ least' = [least EXCEPT ![p] = None]
    /\ disturbed' = [disturbed EXCEPT ![p] = FALSE]
    /\ UNCHANGED <<allowed, active>>

(* One turn of the loop: the filter, the load and the comparison.          *)
BetterLast(p, c) == c \in allowed
Better(p, c) == c \in allowed /\ active[c] < least[p].count
Scan(p) ==
    /\ stage[p] = "scan" /\ pos[p] \in Pool
    /\ least' = IF Better(p, pos[p])
                THEN [least EXCEPT ![p] = [conn |-> pos[p], count |-> active[pos[p]]]] ELSE least
    /\ pos' = [pos EXCEPT ![p] = @ + 1]
    /\ UNCHANGED <<allowed, active, stage, disturbed>>
EndScan(p) ==
    /\ stage[p] = "scan" /\ pos[p] \notin Pool
    /\ stage' = [stage EXCEPT ![p] = IF least[p].conn = 0 THEN "idle" ELSE "add"]
    /\ UNCHANGED <<allowed, active, pos, least, disturbed>>

(* Both additions are atomic.                                              *)
Add(p, n) == active' = [active EXCEPT ![least[p].conn] = (@ + n) % Mod]
Disturb(p) == disturbed' = [q \in Callers |-> q # p \/ disturbed[q]]
AddOne(p) ==
    /\ stage[p] = "add"
    /\ Add(p, 1) /\ Disturb(p)
    /\ stage' = [stage EXCEPT ![p] = "call"]
    /\ UNCHANGED <<allowed, pos, least>>
Done(p) ==
    /\ stage[p] = "call"
    /\ Add(p, Mod - 1) /\ Disturb(p)
    /\ stage' = [stage EXCEPT ![p] = "idle"]
    /\ UNCHANGED <<allowed, pos, least>>

LeastActiveInit == \E a \in SUBSET Pool : BuildLeastActive(a)
LeastActiveNext == \E p \in Callers : BeginPick(p) \/ Scan(p) \/ EndScan(p) \/ AddOne(p) \/ Done(p)
LeastActiveSpec == LeastActiveInit /\ [][LeastActiveNext]_leastVars

(* The count of a connection is the number of calls in progress on it, in  *)
(* whatever order picks and calls overlap: it never stays too high, which  *)
(* would starve the connection, nor wraps below zero.                      *)
ActiveIsCallsInProgress ==
    \A c \in Pool : active[c] = Cardinality({p \in Callers : stage[p] = "call" /\ least[p].conn = c})

(* A pick during which no other call begins or ends takes a connection     *)
(* with the least number of calls of those the filter allows.              *)
LeastUnlessDisturbed ==
    \A p \in Callers : (stage[p] = "add" /\ ~disturbed[p]) =>
        /\ least[p].conn \in allowed
        /\ \A d \in allowed : active[least[p].conn] <= active[d]

(* The counts are the calls in progress, and a pick that no other          *)
(* disturbed takes a connection with the least (Pick, Done).               *)
LeastRight == LeastActiveTypeOK /\ ActiveIsCallsInProgress /\ LeastUnlessDisturbed
=============================================================================
