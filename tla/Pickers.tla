------------------------------ MODULE Pickers ------------------------------
(***************************************************************************)
(* The pickers of loadbalance/ that decide in one step: round_robin,       *)
(* random and its weighted form, fastest, hash and consistent hash, each   *)
(* with or without the group filter.  What Build collects is the list of   *)
(* ready connections; the calls share the index of round_robin, the        *)
(* response times of fastest and the ring of consistent hash.              *)
(***************************************************************************)
EXTENDS Integers, Sequences, FiniteSets, Functions

CONSTANTS
    Conns,          \* the connections, 1 .. their number, in the order of Build
    Groups,         \* the values of the group attribute
    Weights,        \* the values of the weight attribute
    Hashes,         \* the hash values of calls
    Times,          \* the response times the metrics server reports
    IndexLimit,     \* round_robin's index is in -IndexLimit .. IndexLimit - 1 (2^31 in the code)
    MaxPicks        \* bound on the picks of round_robin

ASSUME PickersAssumption ==
    /\ Conns # {} /\ IsFiniteSet(Conns) /\ Conns = 1 .. Cardinality(Conns)
    /\ Weights # {} /\ Weights \subseteq Nat /\ Hashes \subseteq Nat /\ Times \subseteq Nat
    /\ IndexLimit \in Nat \ {0} /\ MaxPicks \in Nat

VARIABLES
    picker,         \* which picker: one of PickerKinds
    filtered,       \* the picker has the group filter
    groupOf,        \* the group attribute of every connection
    weightOf,       \* the weight attribute of every connection
    index,          \* round_robin: the last index used
    response,       \* fastest: the response time of every connection
    ring,           \* consistent hash: the addresses in the ring
    ready,          \* consistent hash: the addresses with a SubConn
    lastPick,       \* the last pick: the group asked for and the connection
    asked,          \* history: the groups asked for
    picks           \* history: how often round_robin has picked every connection

pickerVars == <<picker, filtered, groupOf, weightOf, index, response, ring, ready, lastPick, asked, picks>>

PickerKinds == {"round_robin", "random", "weight_random", "fastest", "hash", "consistent"}
NoConn == 0         \* ErrNoSubConnAvailable
Panics == -1        \* the index or the bound of the random number is out of range
NilConn == -2       \* a result without a SubConn

PickersTypeOK ==
    /\ picker \in PickerKinds /\ filtered \in BOOLEAN
    /\ groupOf \in [Conns -> Groups] /\ weightOf \in [Conns -> Weights]
    /\ index \in -IndexLimit .. IndexLimit - 1
    /\ response \in [Conns -> Nat] /\ ring \subseteq Conns /\ ready \subseteq Conns
    /\ lastPick.conn \in Conns \cup {NoConn, Panics, NilConn}
    /\ asked \subseteq Groups /\ picks \in [Conns -> Nat]

(* Build; only the weighted picker reads the weights, and grpc builds a    *)
(* new picker whenever the set of ready connections changes.               *)
DefaultResponse == 100
FirstIndex == -1
Build(k, f, g, w) ==
    /\ picker = k /\ filtered = f /\ groupOf = g /\ weightOf = w
    /\ index = FirstIndex
    /\ response = [c \in Conns |-> DefaultResponse]
    /\ ring = Conns /\ ready = Conns
    /\ lastPick = [group |-> CHOOSE x \in Groups : TRUE, conn |-> NoConn]
    /\ asked = {} /\ picks = [c \in Conns |-> 0]

(* A set of connections as a slice, in the order of Build.                 *)
InOrder(S) == CHOOSE s \in [1 .. Cardinality(S) -> S] : \A i, j \in DOMAIN s : i < j => s[i] < s[j]

(* GroupFilterBuilder's filter.                                            *)
Filter(g, c) == groupOf[c] = g
Passes(g, c) == ~filtered \/ Filter(g, c)
Candidates(g) == InOrder({c \in Conns : Passes(g, c)})

Picked(g, c) ==
    /\ lastPick' = [group |-> g, conn |-> c]
    /\ asked' = asked \cup {g}
    /\ picks' = IF picker = "round_robin" /\ c \in Conns THEN [picks EXCEPT ![c] = @ + 1] ELSE picks
    /\ UNCHANGED <<picker, filtered, groupOf, weightOf, response, ring, ready>>

(* The calls end with the process when a picker panics.                    *)
MayPick == lastPick.conn # Panics /\ SumFunction(picks) < MaxPicks

(* round_robin: a signed index that is added to atomically; the remainder  *)
(* has its sign.                                                           *)
NextIndexTwo(i) == IF i + 2 >= IndexLimit THEN i + 2 - 2 * IndexLimit ELSE i + 2
NextIndex(i) == IF i = IndexLimit - 1 THEN -IndexLimit ELSE i + 1
AtIndex(cs, i) == IF i >= 0 THEN cs[(i % Len(cs)) + 1]
                  ELSE IF (-i) % Len(cs) = 0 THEN cs[1] ELSE Panics
PickRoundRobin(g) ==
    /\ picker = "round_robin" /\ MayPick
    /\ IF Candidates(g) = <<>>
       THEN Picked(g, NoConn) /\ UNCHANGED index
       ELSE index' = NextIndex(index) /\ Picked(g, AtIndex(Candidates(g), index'))

PickRandom(g) ==
    /\ picker = "random" /\ MayPick
    /\ IF Candidates(g) = <<>> THEN Picked(g, NoConn)
       ELSE \E c \in Range(Candidates(g)) : Picked(g, c)
    /\ UNCHANGED index

(* random, weighted: the connection whose share of the total weight holds  *)
(* the random number.                                                      *)
WeightUpTo(cs, n) == SumFunction([k \in 1 .. n |-> weightOf[cs[k]]])
Target(cs, tgt) == LET hit == {n \in DOMAIN cs : tgt < WeightUpTo(cs, n)}
                   IN  IF hit = {} THEN NoConn ELSE cs[CHOOSE n \in hit : \A k \in hit : n <= k]
Draws(cs) == 0 .. WeightUpTo(cs, Len(cs)) - 1
PickWeighted(g) ==
    /\ picker = "weight_random" /\ MayPick
    /\ LET cs == Candidates(g)
       IN  IF cs = <<>> THEN Picked(g, NoConn)
           ELSE IF Draws(cs) = {} THEN Picked(g, Panics)
           ELSE \E tgt \in Draws(cs) : Picked(g, Target(cs, tgt))
    /\ UNCHANGED index

(* fastest: the first of the connections with the least response time.     *)
PickFastest(g) ==
    /\ picker = "fastest" /\ MayPick
    /\ LET cs == Candidates(g)
       IN  IF cs = <<>> THEN Picked(g, NoConn)
           ELSE Picked(g, cs[CHOOSE n \in DOMAIN cs :
                               /\ \A k \in DOMAIN cs : response[cs[n]] <= response[cs[k]]
                               /\ \A k \in 1 .. n - 1 : response[cs[n]] < response[cs[k]]])
    /\ UNCHANGED index

(* The ticker queries the metrics server; a failed query, an answer it     *)
(* cannot read or an address it does not know leaves the times alone.      *)
updateRespTime ==
    /\ picker = "fastest" /\ MayPick
    /\ \E known \in SUBSET Conns : \E t \in [known -> Times] :
          response' = [c \in Conns |-> IF c \in known THEN t[c] ELSE response[c]]
    /\ UNCHANGED <<picker, filtered, groupOf, weightOf, index, ring, ready, lastPick, asked, picks>>

(* hash and consistent hash look at the filter after they have chosen.     *)
At(S, h) == InOrder(S)[(h % Cardinality(S)) + 1]
IfPasses(g, c) == IF Passes(g, c) THEN c ELSE NoConn
PickHash(g, h) ==
    /\ picker = "hash" /\ MayPick
    /\ Picked(g, IfPasses(g, At(Conns, h)))
    /\ UNCHANGED index
PickConsistent(g, h) ==
    /\ picker = "consistent" /\ MayPick
    /\ LET c == IF ring = {} THEN NoConn ELSE IfPasses(g, At(ring, h))
       IN  Picked(g, IF c \in Conns \ ready THEN NilConn ELSE c)
    /\ UNCHANGED index
(* UpdateState replaces ring and connections, which then have no SubConn.  *)
UpdateState(addrs) ==
    /\ picker = "consistent" /\ MayPick
    /\ ring' = addrs /\ ready' = {}
    /\ UNCHANGED <<picker, filtered, groupOf, weightOf, index, response, lastPick, asked, picks>>

SomeWeights(k) == IF k = "weight_random" THEN [Conns -> Weights]
                  ELSE {[c \in Conns |-> CHOOSE w \in Weights : TRUE]}
PickersInit == \E k \in PickerKinds, f \in BOOLEAN, g \in [Conns -> Groups] :
                  \E w \in SomeWeights(k) : Build(k, f, g, w)
PickersNext ==
    \/ \E g \in Groups : \/ PickRoundRobin(g) \/ PickRandom(g) \/ PickWeighted(g) \/ PickFastest(g)
                         \/ \E h \in Hashes : PickHash(g, h) \/ PickConsistent(g, h)
    \/ updateRespTime
    \/ \E addrs \in SUBSET Conns : UpdateState(addrs)
PickersSpec == PickersInit /\ [][PickersNext]_pickerVars

(* Every pick has the group of its call, and a call is refused only if no  *)
(* connection has it; the hash pickers, which filter after choosing, also  *)
(* refuse when the connection of that hash is another group's, and         *)
(* consistent hash when UpdateState has emptied the ring.                  *)
PickFollowsFilter ==
    LET fits == {c \in Conns : ~filtered \/ groupOf[c] = lastPick.group}
        late == picker \in {"hash", "consistent"}
    IN  asked # {} =>
          /\ lastPick.conn \in Conns => lastPick.conn \in fits
          /\ lastPick.conn = NoConn =>
                fits = {} \/ (late /\ fits # Conns) \/ (picker = "consistent" /\ ready # Conns)

(* round_robin shares calls evenly among the connections of a group as     *)
(* long as no other group's calls move the shared index.                   *)
RoundRobinEven ==
    (picker = "round_robin" /\ (~filtered \/ Cardinality(asked) = 1)) =>
        \A g \in asked : \A c, d \in {x \in Conns : Passes(g, x)} : picks[c] <= picks[d] + 1

(* A picker panics only at its numeric edge: round_robin not before its    *)
(* index has wrapped, the weighted one only if no candidate has a weight.  *)
PanicsOnlyAtEdge ==
    lastPick.conn = Panics =>
        \/ picker = "round_robin" /\ SumFunction(picks) >= IndexLimit
        \/ picker = "weight_random" /\ \A c \in Conns : Passes(lastPick.group, c) => weightOf[c] = 0

(* As many random numbers lead to a connection as its weight says, so its  *)
(* share of the calls is its share of the weight.                          *)
WeightShares ==
    picker = "weight_random" =>
        \A g \in Groups : LET cs == Candidates(g)
                          IN  \A c \in Range(cs) :
                                Cardinality({t \in Draws(cs) : Target(cs, t) = c}) = weightOf[c]

(* A pick passes the filter, takes turns, draws by weight and panics only  *)
(* where the index wraps or no weight is left (Pick of round_robin,        *)
(* random, weight_random, hash, fastest).                                  *)
PicksRight == PickersTypeOK /\ PickFollowsFilter /\ RoundRobinEven /\ PanicsOnlyAtEdge /\ WeightShares
=============================================================================
