------------------------------ MODULE TokenLife ------------------------------
(***************************************************************************)
(* What auth/token promises the services that use it, whatever the store:  *)
(* a token is issued once, lives, and ends for good (by a logout, by the   *)
(* refresh that replaces it, by time); a request to validate or to refresh *)
(* a token is granted only if the token was alive when the request began.  *)
(***************************************************************************)
EXTENDS Naturals

CONSTANTS LifeTokens, LifeCallers

VARIABLES
    life,           \* every token: "none", "live", "ended"
    asked           \* every caller: "idle", "alive" or "late" (what its token was when it asked), "granted"

lifeVars == <<life, asked>>

LifeInit ==
    /\ life = [t \in LifeTokens |-> "none"]
    /\ asked = [c \in LifeCallers |-> "idle"]

Issue(t) ==
    /\ life[t] = "none"
    /\ life' = [life EXCEPT ![t] = "live"]
End(ended) ==
    /\ ended # {} /\ \A t \in ended : life[t] = "live"
    /\ life' = [t \in LifeTokens |-> IF t \in ended THEN "ended" ELSE life[t]]

Ask(c, t) ==
    /\ asked[c] = "idle" /\ life[t] # "none"
    /\ asked' = [asked EXCEPT ![c] = IF life[t] = "live" THEN "alive" ELSE "late"]
Grant(c) == asked[c] = "alive" /\ asked' = [asked EXCEPT ![c] = "granted"]
Refuse(c) == asked[c] \in {"alive", "late"} /\ asked' = [asked EXCEPT ![c] = "idle"]
Leave(c) == asked[c] = "granted" /\ asked' = [asked EXCEPT ![c] = "idle"]

(* A refresh is granted in the step that issues the new token.             *)
LifeNext ==
    \/ UNCHANGED asked /\ \E t \in LifeTokens : Issue(t)
    \/ UNCHANGED asked /\ \E ended \in SUBSET LifeTokens : End(ended)
    \/ \E c \in LifeCallers :
          \/ UNCHANGED life /\ \E t \in LifeTokens : Ask(c, t)
          \/ UNCHANGED life /\ (Grant(c) \/ Refuse(c) \/ Leave(c))
          \/ Grant(c) /\ \E t \in LifeTokens : Issue(t)

LifeSpec == LifeInit /\ [][LifeNext]_lifeVars
=============================================================================
