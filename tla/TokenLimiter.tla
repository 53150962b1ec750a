---------------------------- MODULE TokenLimiter ----------------------------
(***************************************************************************)
(* LeakyBucketLimiter of ratelimit/leaky_bucket.go and TokenBucketLimiter  *)
(* of ratelimit/token_bucket.go: both let a call through when it receives  *)
(* from a channel, the ticker's own or the channel of tokens a goroutine   *)
(* fills at every tick.                                                    *)
(***************************************************************************)
EXTENDS LimitedCall

CONSTANT Capacity       \* of the channel of tokens

ASSUME CapacityAssumption == Capacity \in Nat

VARIABLES
    kind,           \* "leaky" or "token": which limiter this is
    tick,           \* the ticker's channel holds a tick
    stopped,        \* the ticker is stopped
    tokens,         \* tokens in the channel
    close,          \* TokenBucketLimiter.close: the channel, or nil after Close
    closeCh,        \* the channel itself: "open" or "closed"
    reads,          \* per call: the value of l.close its select evaluated
    produced        \* history: tokens offered to the calls

tokenVars == <<kind, tick, stopped, tokens, close, closeCh, reads, produced>>

TokenTypeOK ==
    /\ kind \in {"leaky", "token"}
    /\ tick \in BOOLEAN /\ stopped \in BOOLEAN
    /\ tokens \in 0 .. Capacity
    /\ close \in {"channel", "nil"} /\ closeCh \in {"open", "closed"}
    /\ reads \in [Calls -> {"none", "channel", "nil"}]
    /\ produced \in 0 .. MaxTime
    /\ pc \in [Calls -> {"idle", "select", "done"}]

NewLimiter(k) ==
    /\ kind = k
    /\ tick = FALSE /\ stopped = FALSE
    /\ tokens = 0
    /\ close = "channel" /\ closeCh = "open"
    /\ reads = [c \in Calls |-> "none"]
    /\ produced = 0

(* The ticker: a tick that finds the channel full is dropped.              *)
Ticker ==
    /\ Pass
    /\ ~stopped
    /\ tick' = TRUE
    /\ produced' = IF kind = "leaky" /\ ~tick THEN produced + 1 ELSE produced
    /\ UNCHANGED <<kind, stopped, tokens, close, closeCh, reads>>

(* The goroutine of NewTokenBucketLimiter: a token, or none when full.     *)
Produce ==
    /\ kind = "token" /\ ~stopped /\ tick
    /\ tick' = FALSE
    /\ IF tokens < Capacity
       THEN tokens' = tokens + 1 /\ produced' = produced + 1
       ELSE UNCHANGED <<tokens, produced>>
    /\ UNCHANGED <<callVars, kind, stopped, close, closeCh, reads>>

(* It sees closeCh; the deferred producer.Stop() also discards a tick.     *)
ProducerExit ==
    /\ kind = "token" /\ ~stopped /\ closeCh = "closed"
    /\ stopped' = TRUE /\ tick' = FALSE
    /\ UNCHANGED <<callVars, kind, tokens, close, closeCh, reads, produced>>

(* LimitUnary: the select evaluates l.close once, then waits.              *)
Enter(c) ==
    /\ pc[c] = "idle"
    /\ Goto(c, "select")
    /\ reads' = [reads EXCEPT ![c] = close]
    /\ UNCHANGED <<now, ended, onReject, outcome, kind, tick, stopped, tokens, close, closeCh, produced>>

TakeToken ==
    /\ IF kind = "leaky" THEN tick ELSE tokens > 0
    /\ IF kind = "leaky" THEN tick' = FALSE /\ UNCHANGED tokens
                         ELSE tokens' = tokens - 1 /\ UNCHANGED tick
SelectToken(c) ==
    /\ pc[c] = "select" /\ TakeToken
    /\ Return(c, "handled")
    /\ UNCHANGED <<now, ended, onReject, kind, stopped, close, closeCh, reads, produced>>
SelectContext(c) ==
    /\ pc[c] = "select" /\ c \in ended
    /\ Return(c, Rejected)
    /\ UNCHANGED <<now, ended, onReject, tokenVars>>
SelectClose(c) ==
    /\ kind = "token" /\ pc[c] = "select"
    /\ reads[c] = "channel" /\ closeCh = "closed"
    /\ Return(c, "limited")
    /\ UNCHANGED <<now, ended, onReject, tokenVars>>

(* Close: once, under the mutex; LeakyBucketLimiter only stops the ticker. *)
ClosedChannelNot == closeCh
ClosedChannel == "closed"
CloseToken ==
    /\ kind = "token" /\ close # "nil"
    /\ closeCh' = ClosedChannel
    /\ close' = "nil"
    /\ UNCHANGED <<callVars, kind, tick, stopped, tokens, reads, produced>>
CloseLeaky ==
    /\ kind = "leaky" /\ ~stopped
    /\ stopped' = TRUE /\ tick' = FALSE
    /\ UNCHANGED <<callVars, kind, tokens, close, closeCh, reads, produced>>

TokenInit == CallInit /\ \E k \in {"leaky", "token"} : NewLimiter(k)
TokenSelect(c) == SelectToken(c) \/ SelectContext(c) \/ SelectClose(c)
TokenNext ==
    \/ Ticker \/ Produce \/ ProducerExit \/ CloseToken \/ CloseLeaky
    \/ \E c \in Calls : \/ Enter(c) \/ TokenSelect(c)
                        \/ EndContext(c) /\ UNCHANGED tokenVars
TokenSpec == TokenInit /\ [][TokenNext]_<<callVars, tokenVars>>

LetThrough == {c \in Calls : reads[c] # "none" /\ outcome[c] = "handled"}

(* A call is let through once for every tick (leaky) or token produced,    *)
(* and the tokens left in the channel are the ones nobody has taken, while *)
(* ticks, calls and Close come in any order.                               *)
AdmittedByTokens ==
    /\ Cardinality(LetThrough) <= produced
    /\ kind = "token" => Cardinality(LetThrough) + tokens = produced

(* Close releases the calls that wait for a token when it is called.  (A   *)
(* call that comes later reads nil, and only its context can release it.)  *)
CloseReleasesWaiters ==
    \A c \in Calls : (kind = "token" /\ close = "nil" /\ pc[c] = "select" /\ reads[c] = "channel")
                         ~> pc[c] = "done"

(* A call whose context ends returns, also one that came after Close.      *)
ContextReleases == \A c \in Calls : (pc[c] = "select" /\ c \in ended) ~> pc[c] = "done"
=============================================================================
