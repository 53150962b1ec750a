------------------------- MODULE WeightRoundRobin --------------------------
(***************************************************************************)
(* loadbalance/round_robin's WeightBalancer.  Pick holds the mutex while   *)
(* it adds every connection's efficient weight to its current weight and   *)
(* takes the total from the largest; Done changes efficient weights with   *)
(* CompareAndSwap and without the mutex, so it comes between the two reads *)
(* Pick makes of one.  All weights are unsigned integers modulo Width.     *)
(***************************************************************************)
EXTENDS Integers, FiniteSets, Functions

CONSTANTS
    Backends,       \* the connections of Build, 1 .. their number
    Users,          \* the callers of Pick
    Filters,        \* the sets of connections a filter may let through
    Attributes,     \* the values of the weight attribute Build may find
    Width,          \* the weights are modulo Width (2^32 in the code)
    MaxChosen,      \* bound on the picks
    MaxDones        \* bound on the calls that end

ASSUME WeightRoundRobinAssumption ==
    /\ IsFiniteSet(Backends) /\ Backends = 1 .. Cardinality(Backends) /\ Backends # {}
    /\ Filters \subseteq SUBSET Backends /\ Width \in Nat \ {0} /\ MaxChosen \in Nat /\ MaxDones \in Nat
    /\ Attributes \subseteq 0 .. Width - 1

VARIABLES
    weight, currentWeight, efficientWeight,
    mutex,          \* the caller in Pick, or NoUser
    scan,           \* where Pick is: the connection, and what it reads next
    eligible,       \* the connections the filter lets through in this Pick
    totalWeight, res,
    user,           \* where every caller is: "idle", "pick", "call", "load", "swap"
    heldConn,       \* the connection of its call
    failed,         \* the call has ended with an error
    loaded,         \* the weight Done has loaded
    shift,          \* history: the changes of each efficient weight
    races,          \* history: changes between the two reads of Pick
    chosen, dones   \* history: the picks of each connection, the calls ended

wrrVars == <<weight, currentWeight, efficientWeight, mutex, scan, eligible, totalWeight, res, user, heldConn, failed,
             loaded, shift, races, chosen, dones>>

NoUser == 0
NoBackend == 0
Uint == 0 .. Width - 1

WrrTypeOK ==
    /\ currentWeight \in [Backends -> Uint] /\ efficientWeight \in [Backends -> Uint]
    /\ mutex \in Users \cup {NoUser} /\ totalWeight \in Uint /\ res \in Backends \cup {NoBackend}
    /\ eligible \subseteq Backends
    /\ scan.conn \in Backends \cup {Cardinality(Backends) + 1} /\ scan.read \in {"total", "current"}
    /\ user \in [Users -> {"idle", "pick", "call", "load", "swap"}]
    /\ heldConn \in [Users -> Backends \cup {NoBackend}] /\ loaded \in [Users -> Uint]

WeightBalancerBuild(w) ==
    /\ weight = w /\ efficientWeight = w /\ currentWeight = [c \in Backends |-> 0]
    /\ eligible = {}
    /\ mutex = NoUser /\ scan = [conn |-> 1, read |-> "total"] /\ totalWeight = 0 /\ res = NoBackend
    /\ user = [u \in Users |-> "idle"] /\ heldConn = [u \in Users |-> NoBackend]
    /\ failed = [u \in Users |-> FALSE] /\ loaded = [u \in Users |-> 0]
    /\ shift = [c \in Backends |-> 0] /\ races = 0
    /\ chosen = [c \in Backends |-> 0] /\ dones = 0

(* The local variables of Pick.                                            *)
Locals(S) == /\ scan' = [conn |-> 1, read |-> "total"] /\ eligible' = S
             /\ totalWeight' = 0 /\ res' = NoBackend
Lock(u) ==
    /\ user[u] = "idle" /\ mutex = NoUser /\ SumFunction(chosen) < MaxChosen
    /\ user' = [user EXCEPT ![u] = "pick"] /\ mutex' = u
    /\ \E S \in Filters : Locals(S)
    /\ UNCHANGED <<weight, currentWeight, efficientWeight, heldConn, failed, loaded, shift, races, chosen, dones>>

(* The loop of Pick: the filter, the total, then the current weight.       *)
Reads(r) == mutex # NoUser /\ scan.conn \in Backends /\ scan.read = r
SkipFiltered ==
    /\ Reads("total") /\ scan.conn \notin eligible
    /\ scan' = [scan EXCEPT !.conn = @ + 1]
    /\ UNCHANGED <<weight, currentWeight, efficientWeight, mutex, eligible, totalWeight, res, user,
                   heldConn, failed, loaded, shift, races, chosen, dones>>
AddTotal ==
    /\ Reads("total") /\ scan.conn \in eligible
    /\ totalWeight' = (totalWeight + efficientWeight[scan.conn]) % Width
    /\ scan' = [scan EXCEPT !.read = "current"]
    /\ UNCHANGED <<weight, currentWeight, efficientWeight, mutex, eligible, res, user, heldConn, failed,
                   loaded, shift, races, chosen, dones>>
AddCurrent ==
    /\ Reads("current")
    /\ currentWeight' = [currentWeight EXCEPT ![scan.conn] = (@ + efficientWeight[scan.conn]) % Width]
    /\ res' = IF res = NoBackend \/ currentWeight'[res] < currentWeight'[scan.conn] THEN scan.conn ELSE res
    /\ scan' = [conn |-> scan.conn + 1, read |-> "total"]
    /\ UNCHANGED <<weight, efficientWeight, mutex, eligible, totalWeight, user, heldConn, failed, loaded,
                   shift, races, chosen, dones>>
(* The total is taken from the connection picked, and the mutex released.  *)
TakeTotal == currentWeight' = [currentWeight EXCEPT ![res] = (@ - totalWeight + Width) % Width]
Unlock ==
    /\ mutex # NoUser /\ scan.conn \notin Backends
    /\ IF res = NoBackend
       THEN /\ user' = [user EXCEPT ![mutex] = "idle"]
            /\ UNCHANGED <<currentWeight, heldConn, chosen>>
       ELSE /\ TakeTotal
            /\ user' = [user EXCEPT ![mutex] = "call"] /\ heldConn' = [heldConn EXCEPT ![mutex] = res]
            /\ chosen' = [chosen EXCEPT ![res] = @ + 1]
    /\ mutex' = NoUser /\ Locals({})
    /\ UNCHANGED <<weight, efficientWeight, failed, loaded, shift,
                   races, dones>>

(* Done: nothing below zero and above the largest integer, and again from  *)
(* the start if the weight has changed since it was loaded.                *)
EndCall(u) ==
    /\ user[u] = "call" /\ dones < MaxDones
    /\ user' = [user EXCEPT ![u] = "load"] /\ dones' = dones + 1
    /\ \E f \in BOOLEAN : failed' = [failed EXCEPT ![u] = f]
    /\ UNCHANGED <<weight, currentWeight, efficientWeight, mutex, scan, eligible, totalWeight, res, heldConn,
                   loaded, shift, races, chosen>>
AtBound(u) == efficientWeight[heldConn[u]] = IF failed[u] THEN 0 ELSE Width - 1
LoadWeight(u) ==
    /\ user[u] = "load"
    /\ IF AtBound(u)
       THEN user' = [user EXCEPT ![u] = "idle"] /\ UNCHANGED loaded
       ELSE /\ user' = [user EXCEPT ![u] = "swap"]
            /\ loaded' = [loaded EXCEPT ![u] = efficientWeight[heldConn[u]]]
    /\ UNCHANGED <<weight, currentWeight, efficientWeight, mutex, scan, eligible, totalWeight, res, heldConn,
                   failed, shift, races, chosen, dones>>
SwapsBlindly(u) == TRUE
Swaps(u) == efficientWeight[heldConn[u]] = loaded[u]
SwapWeight(u) ==
    /\ user[u] = "swap"
    /\ LET n == IF failed[u] THEN -1 ELSE 1
       IN  IF Swaps(u)
           THEN /\ efficientWeight' = [efficientWeight EXCEPT ![heldConn[u]] = (loaded[u] + n) % Width]
                /\ shift' = [shift EXCEPT ![heldConn[u]] = @ + n]
                /\ races' = IF Reads("current") /\ scan.conn = heldConn[u] THEN races + 1 ELSE races
                /\ user' = [user EXCEPT ![u] = "idle"]
           ELSE /\ user' = [user EXCEPT ![u] = "load"]
                /\ UNCHANGED <<efficientWeight, shift, races>>
    /\ UNCHANGED <<weight, currentWeight, mutex, scan, eligible, totalWeight, res, heldConn, failed, loaded,
                   chosen, dones>>

WrrInit == \E w \in [Backends -> Attributes] : WeightBalancerBuild(w)
WrrNext ==
    \/ SkipFiltered \/ AddTotal \/ AddCurrent \/ Unlock
    \/ \E u \in Users : Lock(u) \/ EndCall(u) \/ LoadWeight(u) \/ SwapWeight(u)
WrrSpec == WrrInit /\ [][WrrNext]_wrrVars

(* No success or failure is lost and none takes a weight below zero or     *)
(* around the largest integer: the efficient weight is the weight and      *)
(* every change made to it.                                                *)
EfficientExact == \A c \in Backends : efficientWeight[c] = weight[c] + shift[c]

(* What Pick adds to the current weights it takes from the picked one, so  *)
(* between picks they sum to zero, but for the changes of an efficient     *)
(* weight that came between the two reads of it.                           *)
CurrentWeightsBalance ==
    mutex = NoUser =>
        LET sum == SumFunction(currentWeight) % Width
        IN  sum <= races \/ Width - sum <= races

(* A weighted round-robin strategy: with no call ended, and so with        *)
(* constant weights, and every connection let through, as many picks as    *)
(* the total weight pick each connection as often as its weight says.      *)
WeightedShare ==
    LET total == SumFunction(weight)
        n     == SumFunction(chosen)
    IN  (mutex = NoUser /\ dones = 0 /\ Filters = {Backends} /\ total > 0 /\ n % total = 0) =>
            \A c \in Backends : chosen[c] = (n \div total) * weight[c]

(* Efficient weights count results exactly although they are swapped       *)
(* without the lock, and current weights balance to zero but for the       *)
(* results that came during a pick (Pick, Done).                           *)
WeightsRight == WrrTypeOK /\ EfficientExact /\ CurrentWeightsBalance
=============================================================================
