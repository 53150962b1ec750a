------------------------------- MODULE Tokens -------------------------------
(***************************************************************************)
(* auth/token: CustomTokenManager with its store and its blacklist, in     *)
(* memory or in redis, used by several requests at once through            *)
(* TokenService.  Every call of the store or of the blacklist is a step:   *)
(* in memory it is one critical section, in redis one command, which may   *)
(* fail.  A token is the number of its random id, and stands for its       *)
(* refresh token too; a second is a unit of the clock.                     *)
(***************************************************************************)
EXTENDS Integers, FiniteSets

CONSTANTS
    Stores,         \* the stores: a subset of {"memory", "redis"}
    Requests,       \* the requests that run at the same time
    MaxTokens,      \* bound: tokens issued
    AccessTokenDuration,
    LastSecond,     \* bound: the clock
    MaxRedisErrors  \* bound: redis commands that fail

ASSUME TokensAssumption ==
    /\ Stores \subseteq {"memory", "redis"} /\ IsFiniteSet(Requests)
    /\ MaxTokens \in Nat /\ LastSecond \in Nat /\ MaxRedisErrors \in Nat
    /\ AccessTokenDuration \in Nat \ {0}

VARIABLES
    store,
    clock,
    issued,         \* tokens 1..issued have been generated
    expiresAt,      \* the claim of every token
    tokens,         \* TokenData of every token: "absent", "valid", "revoked"
    refreshTokens,  \* the tokens their refresh token is mapped to
    blacklist,      \* the last second of every token's entry, NoEntry without one
    userStored,     \* GetUserByID finds the user
    redisErrors,
    request,        \* every request: where it is, the token it is about
    handed          \* history: the tokens returned to a client

tokenVars == <<store, clock, issued, expiresAt, tokens, refreshTokens, blacklist, userStored, redisErrors,
               request, handed>>

Token == 1..MaxTokens
NoEntry == -1
Forever == LastSecond + 1
Day == LastSecond + 1        \* 24 hours, longer than the clock runs
NoRequest == [op |-> "none", at |-> "idle", token |-> 0, remaining |-> 0, asked |-> "idle"]
Steps == {"idle", "blacklisted", "valid", "getToken", "revoke", "delete", "deleteRefresh", "ban", "getUser",
          "generate", "storeRefresh", "cleanBlacklist", "granted"}

TokensTypeOK ==
    /\ store \in Stores /\ clock \in 0..LastSecond /\ issued \in 0..MaxTokens
    /\ tokens \in [Token -> {"absent", "valid", "revoked"}] /\ refreshTokens \subseteq 1..issued
    /\ handed \subseteq 1..issued
    /\ \A r \in Requests : request[r].at \in Steps /\ request[r].token \in 0..issued /\ request[r].remaining >= 0
    /\ store = "redis" => \A t \in Token : tokens[t] # "revoked"

NewCustomTokenManager ==
    /\ store \in Stores /\ clock = 0 /\ issued = 0
    /\ expiresAt = [t \in Token |-> 0] /\ tokens = [t \in Token |-> "absent"]
    /\ refreshTokens = {} /\ blacklist = [t \in Token |-> NoEntry]
    /\ userStored \in BOOLEAN /\ redisErrors = 0
    /\ request = [r \in Requests |-> NoRequest] /\ handed = {}

(* A redis key is gone when its time to live is over, in memory nothing is *)
(* gone before CleanupExpiredTokens.                                       *)
Stored(t) == tokens[t] # "absent" /\ (store = "redis" => clock < expiresAt[t])
Mapped(t) == t \in refreshTokens /\ (store = "redis" => clock < expiresAt[t])
Alive(t) == Stored(t) /\ tokens[t] = "valid" /\ clock <= expiresAt[t]

IsExpired(t) == expiresAt[t] < clock
IsTokenValidStored(t) == Stored(t) /\ ~IsExpired(t)
IsTokenValid(t) == Stored(t) /\ tokens[t] # "revoked" /\ ~IsExpired(t)
IsBlacklisted(t) == blacklist[t] >= clock

GoTo(r, step) == request' = [request EXCEPT ![r].at = step]
GoToWith(r, step, left) ==
    request' = [request EXCEPT ![r] = [op |-> request[r].op, at |-> step, token |-> request[r].token,
                                       remaining |-> left, asked |-> request[r].asked]]
Return(r) == request' = [request EXCEPT ![r] = NoRequest]
Granted(r) ==
    request' = [request EXCEPT ![r] = [op |-> "none", at |-> "granted", token |-> 0, remaining |-> 0, asked |-> "granted"]]

AskedOf(t) == IF Alive(t) THEN "alive" ELSE "late"
Begin(r, t, op, step, left, was) ==
    /\ request[r].at = "idle"
    /\ request' = [request EXCEPT ![r] = [op |-> op, at |-> step, token |-> t, remaining |-> left, asked |-> was]]

(* Login: the authenticator has accepted the user.                         *)
Login(r) ==
    /\ issued < MaxTokens /\ Begin(r, 0, "login", "generate", 0, "idle")
    /\ UNCHANGED <<store, clock, issued, expiresAt, tokens, refreshTokens, blacklist, userStored, redisErrors, handed>>

(* GenerateToken and StoreToken: in redis the refresh token is another     *)
(* command, and the user's list of tokens two more.                        *)
GenerateToken(r) ==
    /\ request[r].at = "generate" /\ issued < MaxTokens
    /\ LET t == issued + 1 IN
       /\ issued' = t
       /\ expiresAt' = [expiresAt EXCEPT ![t] = clock + AccessTokenDuration]
       /\ tokens' = [tokens EXCEPT ![t] = "valid"]
       /\ IF store = "memory"
          THEN /\ refreshTokens' = refreshTokens \cup {t} /\ handed' = handed \cup {t}
               /\ IF request[r].op = "refresh" THEN Granted(r) ELSE Return(r)
          ELSE /\ GoToWith(r, "storeRefresh", t)
               /\ UNCHANGED <<refreshTokens, handed>>
    /\ UNCHANGED <<store, clock, blacklist, userStored, redisErrors>>
StoreRefreshToken(r) ==
    /\ request[r].at = "storeRefresh"
    /\ refreshTokens' = refreshTokens \cup {request[r].remaining}
    /\ \/ /\ handed' = handed \cup {request[r].remaining}
          /\ IF request[r].op = "refresh" THEN Granted(r) ELSE Return(r)
          /\ UNCHANGED redisErrors
       \/ /\ redisErrors < MaxRedisErrors /\ redisErrors' = redisErrors + 1
          /\ Return(r) /\ UNCHANGED handed
    /\ UNCHANGED <<store, clock, issued, expiresAt, tokens, blacklist, userStored>>

(* Validate                                                                *)
ValidateToken(r, t) ==
    /\ Begin(r, t, "validate", "blacklisted", 0, AskedOf(t)) /\ ~IsExpired(t)
    /\ UNCHANGED <<store, clock, issued, expiresAt, tokens, refreshTokens, blacklist, userStored, redisErrors, handed>>
CheckBlacklist(r) ==
    /\ request[r].at = "blacklisted"
    /\ IF IsBlacklisted(request[r].token) THEN Return(r)
       ELSE GoTo(r, IF request[r].op = "validate" THEN "valid" ELSE "revoke")
    /\ UNCHANGED <<store, clock, issued, expiresAt, tokens, refreshTokens, blacklist, userStored, redisErrors, handed>>
CheckStore(r) ==
    /\ request[r].at = "valid"
    /\ IF IsTokenValid(request[r].token) THEN Granted(r) ELSE Return(r)
    /\ UNCHANGED <<store, clock, issued, expiresAt, tokens, refreshTokens, blacklist, userStored, redisErrors, handed>>

(* RefreshToken: GetTokenByRefresh is one critical section in memory, two  *)
(* commands in redis; then the expiry is checked, and the time left kept   *)
(* for the blacklist.                                                      *)
RefreshToken(r, t) ==
    /\ Mapped(t)
    /\ IF store = "redis" THEN Begin(r, t, "refresh", "getToken", 0, AskedOf(t))
       ELSE ~IsExpired(t) /\ Begin(r, t, "refresh", "blacklisted", expiresAt[t] - clock, AskedOf(t))
    /\ UNCHANGED <<store, clock, issued, expiresAt, tokens, refreshTokens, blacklist, userStored, redisErrors, handed>>
GetToken(r) ==
    /\ request[r].at = "getToken"
    /\ LET t == request[r].token IN
       IF Stored(t) /\ ~IsExpired(t)
       THEN GoToWith(r, "blacklisted", expiresAt[t] - clock)
       ELSE Return(r)
    /\ UNCHANGED <<store, clock, issued, expiresAt, tokens, refreshTokens, blacklist, userStored, redisErrors, handed>>

(* Logout, where revocation is enabled: RevokeToken of the manager.        *)
Logout(r, t) ==
    /\ Begin(r, t, "logout", "revoke", 0, "idle")
    /\ UNCHANGED <<store, clock, issued, expiresAt, tokens, refreshTokens, blacklist, userStored, redisErrors, handed>>

(* RevokeToken of the store.                                               *)
Unmapped(t) == refreshTokens \ {t}
RevokeToken(r) ==
    /\ request[r].at = "revoke"
    /\ LET t == request[r].token IN
       IF ~Stored(t) THEN Return(r) /\ UNCHANGED <<tokens, refreshTokens>>
       ELSE IF store = "memory"
            THEN /\ tokens' = [tokens EXCEPT ![t] = "revoked"] /\ refreshTokens' = Unmapped(t)
                 /\ GoTo(r, "ban")
            ELSE GoTo(r, "delete") /\ UNCHANGED <<tokens, refreshTokens>>
    /\ UNCHANGED <<store, clock, issued, expiresAt, blacklist, userStored, redisErrors, handed>>
DeleteToken(r) ==
    /\ request[r].at = "delete"
    /\ tokens' = [tokens EXCEPT ![request[r].token] = "absent"] /\ GoTo(r, "deleteRefresh")
    /\ UNCHANGED <<store, clock, issued, expiresAt, refreshTokens, blacklist, userStored, redisErrors, handed>>
DeleteRefresh(r) ==
    /\ request[r].at = "deleteRefresh"
    /\ refreshTokens' = Unmapped(request[r].token) /\ GoTo(r, "ban")
    /\ UNCHANGED <<store, clock, issued, expiresAt, tokens, blacklist, userStored, redisErrors, handed>>

(* AddToBlacklist.  A refresh uses the time left it read before; a logout  *)
(* reads it here, and keeps the entry a day when the token has expired.    *)
(* Redis keeps a key that is set with a time to live of 0 for ever.        *)
TimeLeftRounded(r) == request[r].remaining \div 2
TimeLeft(r) ==
    LET t == request[r].token IN
    IF request[r].op = "refresh" THEN request[r].remaining
    ELSE IF expiresAt[t] - clock <= 0 THEN Day ELSE expiresAt[t] - clock
AddToBlacklist(r) ==
    /\ request[r].at = "ban"
    /\ blacklist' = [blacklist EXCEPT ![request[r].token] =
                        IF store = "redis" /\ TimeLeft(r) = 0 THEN Forever ELSE clock + TimeLeft(r)]
    /\ IF request[r].op = "refresh" THEN GoTo(r, "getUser") ELSE Return(r)
    /\ UNCHANGED <<store, clock, issued, expiresAt, tokens, refreshTokens, userStored, redisErrors, handed>>
GetUserByID(r) ==
    /\ request[r].at = "getUser"
    /\ IF userStored THEN GoTo(r, "generate") ELSE Return(r)
    /\ UNCHANGED <<store, clock, issued, expiresAt, tokens, refreshTokens, blacklist, userStored, redisErrors, handed>>

(* Any redis command may fail: the call returns its error.                 *)
RedisFails(r) ==
    /\ store = "redis" /\ redisErrors < MaxRedisErrors
    /\ request[r].at \notin {"idle", "granted", "cleanBlacklist"}
    /\ redisErrors' = redisErrors + 1 /\ Return(r)
    /\ UNCHANGED <<store, clock, issued, expiresAt, tokens, refreshTokens, blacklist, userStored, handed>>

(* CleanupExpired: redis does both by itself.                              *)
CleanupExpiredTokens(r) ==
    /\ request[r].at = "idle" /\ store = "memory"
    /\ tokens' = [t \in Token |-> IF tokens[t] = "revoked" \/ IsExpired(t) THEN "absent" ELSE tokens[t]]
    /\ refreshTokens' = {t \in refreshTokens : tokens[t] # "revoked" /\ ~IsExpired(t)}
    /\ GoTo(r, "cleanBlacklist")
    /\ UNCHANGED <<store, clock, issued, expiresAt, blacklist, userStored, redisErrors, handed>>
CleanupBlacklist(r) ==
    /\ request[r].at = "cleanBlacklist"
    /\ blacklist' = [t \in Token |-> IF blacklist[t] < clock THEN NoEntry ELSE blacklist[t]]
    /\ Return(r)
    /\ UNCHANGED <<store, clock, issued, expiresAt, tokens, refreshTokens, userStored, redisErrors, handed>>

ClientLeaves(r) ==
    /\ request[r].at = "granted" /\ Return(r)
    /\ UNCHANGED <<store, clock, issued, expiresAt, tokens, refreshTokens, blacklist, userStored, redisErrors, handed>>
Second ==
    /\ clock < LastSecond /\ clock' = clock + 1
    /\ UNCHANGED <<store, issued, expiresAt, tokens, refreshTokens, blacklist, userStored, redisErrors, request, handed>>

TokensNext ==
    \/ Second
    \/ \E r \in Requests :
          \/ Login(r) \/ GenerateToken(r) \/ StoreRefreshToken(r)
          \/ CheckBlacklist(r) \/ CheckStore(r) \/ GetToken(r)
          \/ RevokeToken(r) \/ DeleteToken(r) \/ DeleteRefresh(r) \/ AddToBlacklist(r) \/ GetUserByID(r)
          \/ RedisFails(r) \/ CleanupExpiredTokens(r) \/ CleanupBlacklist(r) \/ ClientLeaves(r)
          \/ \E t \in handed : ValidateToken(r, t) \/ RefreshToken(r, t) \/ Logout(r, t)

TokensSpec == NewCustomTokenManager /\ [][TokensNext]_tokenVars

-----------------------------------------------------------------------------
(* An entry of the blacklist lasts at least as long as the claims of the   *)
(* token would be accepted, however long the request was held up between   *)
(* reading the time left and writing the entry.                            *)
BlacklistOutlivesToken ==
    \A t \in Token : blacklist[t] # NoEntry => blacklist[t] >= expiresAt[t]

(* Whatever refreshes, logouts and cleanups overlap, a refresh token that  *)
(* is mapped belongs to a token that is not revoked; in redis, to one that *)
(* is there or whose deletion a request is carrying out or has given up.   *)
MappedIsNotRevoked ==
    \A t \in refreshTokens :
        \/ tokens[t] = "valid"
        \/ /\ store = "redis"
           /\ redisErrors > 0 \/ \E r \in Requests : request[r].token = t /\ request[r].at = "deleteRefresh"

(* The manager and its store keep the promise of TokenLife: dead tokens    *)
(* stay dead whatever the order of refreshes, logouts, cleanups, errors    *)
(* and time, and no request that began after a token's end is granted.     *)
LifeOf(t) == IF t > issued THEN "none" ELSE IF Alive(t) THEN "live" ELSE "ended"
Life == INSTANCE TokenLife WITH LifeTokens <- Token, LifeCallers <- Requests,
            life <- [t \in Token |-> LifeOf(t)],
            asked <- [r \in Requests |-> request[r].asked]
KeepsTokenLife == Life!LifeSpec

(* A revoked token stays blacklisted as long as it would live, and no      *)
(* refresh token leads to a revoked token but for one whose deletion is    *)
(* under way or has failed (AddToBlacklist, RevokeToken).                  *)
RevokedStaysRevoked == TokensTypeOK /\ BlacklistOutlivesToken /\ MappedIsNotRevoked
=============================================================================
