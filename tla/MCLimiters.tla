----------------------------- MODULE MCLimiters -----------------------------
(***************************************************************************)
(* The limiters for TLC, one at a time: subject says which one is in use,  *)
(* and the state of the others stays as it was made.                       *)
(***************************************************************************)
EXTENDS FixWindow, SlideWindow, TokenLimiter, RedisWindow, AdaptiveLimiter

CONSTANTS c1, c2, c3

ThresholdPairs == {<<60, 80>>, <<50, 75>>, <<20, 40>>}

VARIABLE subject

vars == <<subject, callVars, fixVars, slideVars, tokenVars, redisVars, adaptiveVars>>

Init ==
    /\ subject \in {"fix", "slide", "leaky", "token", "redis", "adaptive"}
    /\ CallInit /\ NewFixWindowLimiter /\ NewSlideWindowLimiter /\ NewRedisLimiter
    /\ NewLimiter(IF subject = "leaky" THEN "leaky" ELSE "token")
    /\ \E th \in Thresholds, reject \in BOOLEAN :
          /\ subject # "adaptive" => th = <<50, 75>> /\ reject
          /\ subject \in {"fix", "adaptive"} => onReject = "default"
          /\ NewAdaptiveLimiter(th, reject)

Fix == subject = "fix" /\ FixNext /\ UNCHANGED <<subject, slideVars, tokenVars, redisVars, adaptiveVars>>
Slide == subject = "slide" /\ SlideNext /\ UNCHANGED <<subject, fixVars, tokenVars, redisVars, adaptiveVars>>
Token ==
    /\ subject \in {"leaky", "token"} /\ TokenNext
    /\ UNCHANGED <<subject, fixVars, slideVars, redisVars, adaptiveVars>>
Redis == subject = "redis" /\ RedisNext /\ UNCHANGED <<subject, fixVars, slideVars, tokenVars, adaptiveVars>>
Adaptive ==
    /\ subject = "adaptive" /\ AdaptiveNext
    /\ UNCHANGED <<subject, fixVars, slideVars, tokenVars, redisVars>>
Next == Fix \/ Slide \/ Token \/ Redis \/ Adaptive

(* A call that can leave its select does: goroutines are scheduled.        *)
Leave(c) ==
    /\ subject \in {"leaky", "token"} /\ TokenSelect(c)
    /\ UNCHANGED <<subject, fixVars, slideVars, redisVars, adaptiveVars>>
Spec == Init /\ [][Next]_vars /\ \A c \in Calls : WF_vars(Leave(c))

(* The state of the limiter in use has its type.                           *)
TypeOK ==
    /\ ended \subseteq Calls /\ outcome \in [Calls -> Outcomes]
    /\ subject = "fix" => FixTypeOK
    /\ subject = "slide" => SlideTypeOK
    /\ subject \in {"leaky", "token"} => TokenTypeOK
    /\ subject = "redis" => RedisTypeOK
    /\ subject = "adaptive" => AdaptiveTypeOK

(* The window limiters: calls counted in a window are at most the rate for *)
(* each time the counter was cleared, the newest sliding window holds at   *)
(* most the rate, and redis admits at most twice the rate in any interval, *)
(* also when answers are lost (fix_window.go, slide_window.go,             *)
(* fix_window.lua).                                                        *)
WindowsWithinRate ==
    TypeOK /\ WindowAdmitsRatePerReset /\ NewestWindowWithinRate /\ AnyIntervalWithinTwiceRate

(* The token limiters: each call let through has taken a token that was    *)
(* produced, and the adaptive bucket never grants more than its size and   *)
(* what the rates of the time supplied, while the rate moves within its    *)
(* bounds (leaky_bucket.go, token_bucket.go, adaptive_limiter.go).         *)
TokensWithinSupply == AdmittedByTokens /\ GrantedWithinSupply /\ RateInRange

(* Close, and the end of its context, release a call that waits for a      *)
(* token (LimitUnary, Close).                                              *)
WaitersReleased == CloseReleasesWaiters /\ ContextReleases
=============================================================================
