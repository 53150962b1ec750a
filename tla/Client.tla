------------------------------- MODULE Client -------------------------------
(***************************************************************************)
(* client.go: Dial, with its map of connection pools, its map of circuit   *)
(* breakers and Close.  Both maps are looked up under the read lock and    *)
(* looked up again under the write lock before an entry is made; a pool is *)
(* asked for its first connection, and a connection is made in its place,  *)
(* with the write lock held.                                               *)
(***************************************************************************)
EXTENDS Integers, FiniteSets

CONSTANTS
    Dialers,        \* the callers of Dial
    Targets,        \* the services they dial
    MaxActive,      \* the connections a pool lends
    MaxCloses       \* bound on the calls of Close

ASSUME ClientAssumption ==
    IsFiniteSet(Dialers) /\ IsFiniteSet(Targets) /\ Targets # {} /\ MaxActive \in Nat /\ MaxCloses \in Nat

VARIABLES
    enablePool, enableCircuitBreaker,   \* the options of the client
    poolWaits,      \* the pool's Wait option: a caller waits for a connection
    pools,          \* the pool of every target, or 0
    poolsMu,        \* the caller that holds the write lock, or NoDialer
    circuitBreakers,\* the breaker of every target, or 0
    made,           \* the number of pools and of breakers made so far
    shut,           \* the pools that are closed
    lent,           \* the connections each pool has lent; nobody gives one back
    dial,           \* where every caller is
    target,         \* the target it dials
    ctxOver,        \* its context has ended
    pool,           \* the pool it has found
    breaker,        \* the breaker that allowed it
    outcome,        \* "none", "pooled", "direct", "failed", "rejected"
    closing,        \* Close: "no", "breakers"
    closes,         \* history: the calls of Close that have returned
    seenCloses,     \* history: how many there had been when the caller was allowed
    misplaced       \* history: callers whose outcome went to another breaker though no Close intervened

clientVars == <<enablePool, enableCircuitBreaker, poolWaits, pools, poolsMu, circuitBreakers, made, shut,
                lent, dial, target, ctxOver, pool, breaker, outcome, closing, closes, seenCloses, misplaced>>

NoDialer == "none"
DialSteps == {"new", "allow", "makeBreaker", "lookup", "lock", "get", "direct", "report", "makeAgain", "done"}

ClientTypeOK ==
    /\ pools \in [Targets -> 0 .. made.pools] /\ poolsMu \in Dialers \cup {NoDialer}
    /\ circuitBreakers \in [Targets -> 0 .. made.breakers]
    /\ shut \subseteq 1 .. made.pools /\ \A p \in DOMAIN lent : lent[p] \in 0 .. MaxActive
    /\ dial \in [Dialers -> DialSteps] /\ target \in [Dialers -> Targets]
    /\ ctxOver \subseteq Dialers /\ misplaced \subseteq Dialers
    /\ outcome \in [Dialers -> {"none", "pooled", "direct", "failed", "rejected"}]
    /\ closing \in {"no", "breakers"} /\ closes \in 0 .. MaxCloses

NewClient(p, b, w) ==
    /\ enablePool = p /\ enableCircuitBreaker = b /\ poolWaits = w
    /\ pools = [t \in Targets |-> 0] /\ circuitBreakers = [t \in Targets |-> 0]
    /\ poolsMu = NoDialer /\ made = [pools |-> 0, breakers |-> 0] /\ shut = {} /\ lent = <<>>
    /\ dial = [d \in Dialers |-> "new"] /\ target \in [Dialers -> Targets]
    /\ ctxOver = {} /\ pool = [d \in Dialers |-> 0] /\ breaker = [d \in Dialers |-> 0]
    /\ outcome = [d \in Dialers |-> "none"]
    /\ closing = "no" /\ closes = 0 /\ seenCloses = [d \in Dialers |-> 0] /\ misplaced = {}

options == <<enablePool, enableCircuitBreaker, poolWaits, target>>
poolVars == <<pools, poolsMu, shut, lent, pool>>
breakerVars == <<circuitBreakers, breaker, seenCloses, misplaced>>
closeVars == <<closing, closes>>
DialAt(d, s) == dial' = [dial EXCEPT ![d] = s]

StartDial(d) ==
    /\ dial[d] = "new"
    /\ DialAt(d, IF enableCircuitBreaker THEN "allow" ELSE "lookup")
    /\ UNCHANGED <<options, poolVars, breakerVars, closeVars, made, ctxOver, outcome>>

(* getCircuitBreaker: if there is none it is made, unless another caller   *)
(* has made one meanwhile.                                                 *)
MakeNeeded(t) == circuitBreakers[t] = 0
MakeBreaker(t) ==
    IF MakeNeeded(t)
    THEN /\ circuitBreakers' = [circuitBreakers EXCEPT ![t] = made.breakers + 1]
         /\ made' = [made EXCEPT !.breakers = @ + 1]
    ELSE UNCHANGED <<circuitBreakers, made>>

(* Allow, by the breaker found.                                            *)
Allowed(d) ==
    /\ breaker' = [breaker EXCEPT ![d] = circuitBreakers'[target[d]]]
    /\ seenCloses' = [seenCloses EXCEPT ![d] = closes]
    /\ \E ok \in BOOLEAN : /\ DialAt(d, IF ok THEN "lookup" ELSE "done")
                           /\ outcome' = [outcome EXCEPT ![d] = IF ok THEN @ ELSE "rejected"]
    /\ UNCHANGED misplaced
FindBreaker(d) ==
    /\ dial[d] = "allow"
    /\ IF circuitBreakers[target[d]] = 0
       THEN DialAt(d, "makeBreaker") /\ UNCHANGED <<breakerVars, outcome>>
       ELSE UNCHANGED circuitBreakers /\ Allowed(d)
    /\ UNCHANGED <<options, poolVars, closeVars, made, ctxOver>>
MakeFirstBreaker(d) ==
    /\ dial[d] = "makeBreaker"
    /\ MakeBreaker(target[d]) /\ Allowed(d)
    /\ UNCHANGED <<options, poolVars, closeVars, ctxOver>>

(* createConnection: the pool, under the read lock.                        *)
LookupPool(d) ==
    /\ dial[d] = "lookup" /\ (enablePool => poolsMu = NoDialer)
    /\ pool' = [pool EXCEPT ![d] = pools[target[d]]]
    /\ DialAt(d, IF ~enablePool THEN "direct" ELSE IF pools[target[d]] # 0 THEN "get" ELSE "lock")
    /\ UNCHANGED <<options, pools, poolsMu, shut, lent, breakerVars, closeVars, made, ctxOver, outcome>>
(* The write lock, which the caller keeps until it has a connection, and   *)
(* the second look.                                                        *)
SecondLookNot(t) == TRUE
SecondLook(t) == pools[t] = 0
LockPools(d) ==
    /\ dial[d] = "lock" /\ poolsMu = NoDialer
    /\ poolsMu' = d
    /\ IF SecondLook(target[d])
       THEN /\ made' = [made EXCEPT !.pools = @ + 1]
            /\ pools' = [pools EXCEPT ![target[d]] = made.pools + 1]
            /\ lent' = [p \in 1 .. made.pools + 1 |-> IF p \in DOMAIN lent THEN lent[p] ELSE 0]
       ELSE UNCHANGED <<made, pools, lent>>
    /\ pool' = [pool EXCEPT ![d] = pools'[target[d]]]
    /\ DialAt(d, "get")
    /\ UNCHANGED <<options, shut, breakerVars, closeVars, ctxOver, outcome>>

(* Get: a closed pool refuses; a pool that has lent all its connections    *)
(* refuses too, or makes the caller wait until its context ends.           *)
Unlocks(d) == IF poolsMu = d THEN NoDialer ELSE poolsMu
Connected(d, how) ==
    /\ outcome' = [outcome EXCEPT ![d] = how]
    /\ poolsMu' = Unlocks(d)
    /\ DialAt(d, IF enableCircuitBreaker THEN "report" ELSE "done")
GetConn(d) ==
    /\ dial[d] = "get" /\ pool[d] \notin shut /\ lent[pool[d]] < MaxActive
    /\ lent' = [lent EXCEPT ![pool[d]] = @ + 1]
    /\ Connected(d, "pooled")
    /\ UNCHANGED <<options, pools, shut, pool, breakerVars, closeVars, made, ctxOver>>
GivesUpNever(d) == FALSE
GivesUp(d) == d \in ctxOver
GetFails(d) ==
    /\ dial[d] = "get"
    /\ (poolWaits /\ pool[d] \notin shut /\ lent[pool[d]] = MaxActive) => GivesUp(d)
    /\ DialAt(d, "direct")
    /\ UNCHANGED <<options, poolVars, breakerVars, closeVars, made, ctxOver, outcome>>

(* createRealConnection blocks until there is a connection or the context  *)
(* ends.                                                                   *)
DialTarget(d) ==
    /\ dial[d] = "direct"
    /\ \E how \in {"direct", "failed"} : (d \in ctxOver => how = "failed") /\ Connected(d, how)
    /\ UNCHANGED <<options, pools, shut, lent, pool, breakerVars, closeVars, made, ctxOver>>

(* Success or Failure, on the breaker the map has now.                     *)
Reported(d) ==
    /\ misplaced' = IF circuitBreakers'[target[d]] # breaker[d] /\ closes = seenCloses[d]
                    THEN misplaced \cup {d} ELSE misplaced
    /\ DialAt(d, "done")
Report(d) ==
    /\ dial[d] = "report"
    /\ IF circuitBreakers[target[d]] = 0
       THEN DialAt(d, "makeAgain") /\ UNCHANGED <<circuitBreakers, misplaced>>
       ELSE UNCHANGED circuitBreakers /\ Reported(d)
    /\ UNCHANGED <<options, poolVars, breaker, seenCloses, closeVars, made, ctxOver, outcome>>
MakeAndReport(d) ==
    /\ dial[d] = "makeAgain"
    /\ MakeBreaker(target[d]) /\ Reported(d)
    /\ UNCHANGED <<options, poolVars, breaker, seenCloses, closeVars, ctxOver, outcome>>

(* Close: the pools, then the breakers.                                    *)
InMap == {pools[t] : t \in Targets} \ {0}
ClosePools ==
    /\ closing = "no" /\ poolsMu = NoDialer /\ closes < MaxCloses
    /\ shut' = shut \cup InMap /\ pools' = [t \in Targets |-> 0]
    /\ closing' = "breakers" /\ closes' = closes
    /\ UNCHANGED <<options, poolsMu, lent, pool, breakerVars, made, dial, ctxOver, outcome>>
CloseBreakers ==
    /\ closing = "breakers"
    /\ circuitBreakers' = [t \in Targets |-> 0]
    /\ closing' = "no" /\ closes' = closes + 1
    /\ UNCHANGED <<options, poolVars, breaker, seenCloses, misplaced, made, dial, ctxOver, outcome>>

ContextOver(d) ==
    /\ dial[d] # "new" /\ d \notin ctxOver
    /\ ctxOver' = ctxOver \cup {d}
    /\ UNCHANGED <<options, poolVars, breakerVars, closeVars, made, dial, outcome>>

ClientInit == \E p, b, w \in BOOLEAN : NewClient(p, b, w)
DialStep(d) ==
    \/ FindBreaker(d) \/ MakeFirstBreaker(d) \/ LookupPool(d) \/ LockPools(d) \/ GetConn(d) \/ GetFails(d)
    \/ DialTarget(d) \/ Report(d) \/ MakeAndReport(d)
ClientNext ==
    \/ \E d \in Dialers : StartDial(d) \/ DialStep(d) \/ ContextOver(d)
    \/ ClosePools \/ CloseBreakers
(* Callers run and contexts end.                                           *)
ClientFair == \A d \in Dialers : WF_clientVars(DialStep(d)) /\ WF_clientVars(ContextOver(d))
ClientSpec == ClientInit /\ [][ClientNext]_clientVars /\ ClientFair

(* No pool is made and then lost: every one is in the map, where Close     *)
(* finds it, or closed.                                                    *)
NoOrphanPool == 1 .. made.pools \subseteq shut \cup InMap

(* The outcome of a dial is reported to the breaker that allowed it, or    *)
(* Close has emptied the map since: a breaker that is half open waits for  *)
(* that report.                                                            *)
OutcomeReachesBreaker == misplaced = {}

(* Dial returns, although it may wait for a connection nobody gives back   *)
(* and make others wait for the lock it holds.                             *)
DialReturns == \A d \in Dialers : dial[d] # "new" ~> dial[d] = "done"

(* Dials that run together share their pool and their breaker: no pool is  *)
(* made that Close will not find, and no outcome goes to a breaker that    *)
(* has been replaced (createConnection, getCircuitBreaker, Close).         *)
DialsShare == ClientTypeOK /\ NoOrphanPool /\ OutcomeReachesBreaker
=============================================================================
