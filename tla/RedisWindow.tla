----------------------------- MODULE RedisWindow -----------------------------
(***************************************************************************)
(* RedisFixWindowLimiter and RedisSlideWindowLimiter of ratelimit/.  Both  *)
(* evaluate lua/fix_window.lua: redis_slide_window.go embeds it as well,   *)
(* and lua/slide_window.lua is used by nobody.  A script is atomic in      *)
(* redis; its answer may be lost, which the interceptor returns as an      *)
(* error.                                                                  *)
(***************************************************************************)
EXTENDS LimitedCall

VARIABLES
    val,            \* the counter under the service's key; 0 when there is no key
    expiry,         \* when redis drops the key
    admittedAt      \* history: when each call was let through

redisVars == <<val, expiry, admittedAt>>

RedisTypeOK ==
    /\ val \in 0 .. Rate
    /\ expiry \in 0 .. MaxTime + Interval
    /\ admittedAt \in [Calls -> -1 .. MaxTime]

NewRedisLimiter ==
    /\ val = 0 /\ expiry = 0
    /\ admittedAt = [c \in Calls |-> -1]

(* redis drops the key when its time has come.                             *)
Exists == val > 0 /\ now < expiry

(* fix_window.lua: the new counter and expiry, and whether over the limit. *)
Below(v) == v < Rate
Script ==
    IF ~Exists
    THEN IF Rate < 1 THEN [val |-> 0, expiry |-> expiry, over |-> TRUE]
                     ELSE [val |-> 1, expiry |-> now + Interval, over |-> FALSE]
    ELSE IF Below(val) THEN [val |-> val + 1, expiry |-> expiry, over |-> FALSE]
                       ELSE [val |-> val, expiry |-> expiry, over |-> TRUE]

(* limit and LimitUnary, with an answer.                                   *)
Limit(c) ==
    /\ pc[c] = "idle"
    /\ val' = Script.val /\ expiry' = Script.expiry
    /\ IF Script.over
       THEN Return(c, Rejected) /\ UNCHANGED admittedAt
       ELSE Return(c, "handled") /\ admittedAt' = [admittedAt EXCEPT ![c] = now]
    /\ UNCHANGED <<now, ended, onReject>>

(* Eval fails: the script may have run, and the call gets the error.       *)
LimitFails(c) ==
    /\ pc[c] = "idle"
    /\ \/ UNCHANGED <<val, expiry>>
       \/ val' = Script.val /\ expiry' = Script.expiry
    /\ Return(c, "error")
    /\ UNCHANGED <<now, ended, onReject, admittedAt>>

RedisInit == CallInit /\ NewRedisLimiter
RedisNext ==
    \/ Pass /\ UNCHANGED redisVars
    \/ \E c \in Calls : Limit(c) \/ LimitFails(c)
RedisSpec == RedisInit /\ [][RedisNext]_<<callVars, redisVars>>

(* In any Interval, wherever it begins, at most twice Rate calls are let   *)
(* through: it meets at most two lives of the key.  (The fixed-window      *)
(* script cannot promise Rate, which is what a sliding window stands for.) *)
AnyIntervalWithinTwiceRate ==
    \A t \in 0 .. MaxTime :
        Cardinality({c \in Calls : admittedAt[c] \in t .. t + Interval - 1}) <= 2 * Rate
=============================================================================
