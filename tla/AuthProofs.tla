----------------------------- MODULE AuthProofs -----------------------------
(***************************************************************************)
(* Proofs about Tokens, Mfa and Access for any set of requests, clients,   *)
(* secrets, users, roles and permissions and any number of tokens: a revoked*)
(* token stays revoked and the manager with its store implements TokenLife,*)
(* a client that logged in on an enrolled account showed the second factor,*)
(* and the authorizers decide by the policy they read.                     *)
(***************************************************************************)
EXTENDS Tokens, Mfa, Access, TLAPS

-----------------------------------------------------------------------------
(* The inductive invariant *)

RequestType ==
    [op : {"none", "login", "validate", "refresh", "logout"}, at : Steps, token : 0 .. MaxTokens,
     remaining : Nat, asked : {"idle", "alive", "late", "granted"}]

TokensType ==
    /\ store \in {"memory", "redis"} /\ store \in Stores
    /\ clock \in 0 .. LastSecond /\ issued \in 0 .. MaxTokens
    /\ expiresAt \in [Token -> Nat] /\ tokens \in [Token -> {"absent", "valid", "revoked"}]
    /\ blacklist \in [Token -> Int] /\ redisErrors \in 0 .. MaxRedisErrors
    /\ refreshTokens \subseteq 1 .. issued /\ handed \subseteq 1 .. issued
    /\ request \in [Requests -> RequestType]
    /\ store = "redis" => \A t \in Token : tokens[t] # "revoked"

(* The steps that work on a token the client has presented.                *)
OnToken == {"getToken", "blacklisted", "valid", "revoke", "delete", "deleteRefresh", "ban", "getUser"}

(* What a request has established by the time it is at a step.             *)
RequestShape ==
    \A r \in Requests :
        /\ request[r].token \in 0 .. issued
        /\ request[r].at = "idle" => request[r] = NoRequest
        /\ request[r].at = "granted" <=> request[r].asked = "granted"
        /\ request[r].at \in OnToken => request[r].token \in handed
        /\ request[r].at \in {"getToken", "delete", "deleteRefresh", "storeRefresh"} => store = "redis"

(* A request whose token was over when it began: the token is over still,  *)
(* and a refresh gets no further than reading the token.                   *)
LateIsOver ==
    \A r \in Requests :
        /\ request[r].asked = "late" => request[r].token \in Token /\ ~Alive(request[r].token)
        /\ request[r].at = "valid" => request[r].op = "validate"
        /\ request[r].at = "getUser" => request[r].op = "refresh"
        /\ request[r].at = "generate" => request[r].op \in {"login", "refresh"}
        /\ request[r].op = "login" => request[r].asked = "idle"
        /\ request[r].at \in OnToken /\ request[r].op # "logout" => request[r].asked \in {"alive", "late"}
        /\ request[r].op = "refresh" => \/ request[r].asked = "alive"
                                        \/ request[r].at = "getToken" /\ request[r].asked = "late"

(* The time left that a refresh keeps is never too short.                  *)
TimeLeftLongEnough ==
    \A r \in Requests :
        request[r].op = "refresh" /\ request[r].at \in {"blacklisted", "revoke", "delete", "deleteRefresh", "ban"}
            => clock + request[r].remaining >= expiresAt[request[r].token]

(* A token whose refresh token is not stored yet is known to its request   *)
(* alone.                                                                  *)
FreshIsPrivate ==
    \A r \in Requests :
        request[r].at = "storeRefresh" =>
            /\ request[r].remaining \in 1 .. issued /\ request[r].remaining \notin handed
            /\ tokens[request[r].remaining] = "valid"
            /\ \A q \in Requests : q # r /\ request[q].at = "storeRefresh"
                                      => request[q].remaining # request[r].remaining

UnissuedIsUnlisted == \A t \in Token : t > issued => blacklist[t] = NoEntry

TokensInv ==
    /\ TokensType /\ RequestShape /\ LateIsOver /\ TimeLeftLongEnough /\ FreshIsPrivate
    /\ UnissuedIsUnlisted /\ BlacklistOutlivesToken /\ MappedIsNotRevoked

-----------------------------------------------------------------------------
(* A new manager has issued nothing and lists nothing.                     *)
LEMMA InitInv == NewCustomTokenManager => TokensInv
BY TokensAssumption DEF NewCustomTokenManager, TokensInv, TokensType, RequestShape, LateIsOver, TimeLeftLongEnough,
   FreshIsPrivate, UnissuedIsUnlisted, BlacklistOutlivesToken, MappedIsNotRevoked, RequestType, NoRequest, Steps,
   OnToken, Token, NoEntry

(* The request stays a request whichever way a call goes.                  *)
LEMMA GoToTyped ==
    ASSUME TokensType, NEW r \in Requests, NEW step \in Steps, GoTo(r, step)
    PROVE  request' \in [Requests -> RequestType]
<1>1. request \in [Requests -> RequestType] /\ request[r] \in RequestType
  BY DEF TokensType
<1>2. \A q \in RequestType : [q EXCEPT !.at = step] \in RequestType
  BY DEF RequestType
<1> QED
  BY <1>1, <1>2 DEF GoTo

(* A request that ends keeps the type of the requests.                     *)
LEMMA EndTyped ==
    ASSUME TokensType, NEW r \in Requests, Return(r) \/ Granted(r)
    PROVE  request' \in [Requests -> RequestType]
<1>1. request \in [Requests -> RequestType]
  BY DEF TokensType
<1>2. NoRequest \in RequestType
  BY TokensAssumption DEF RequestType, NoRequest, Steps
<1>3. [op |-> "none", at |-> "granted", token |-> 0, remaining |-> 0, asked |-> "granted"] \in RequestType
  BY TokensAssumption DEF RequestType, Steps
<1> QED
  BY <1>1, <1>2, <1>3 DEF Return, Granted

(* A call that returns leaves the invariant, unless it gives up a deletion *)
(* without counting the redis error that made it.                          *)
LEMMA ReturnKeeps ==
    ASSUME TokensInv, NEW r \in Requests, Return(r),
           UNCHANGED <<store, clock, issued, expiresAt, tokens, refreshTokens, blacklist, handed>>,
           \/ UNCHANGED redisErrors /\ request[r].at # "deleteRefresh"
           \/ redisErrors < MaxRedisErrors /\ redisErrors' = redisErrors + 1
    PROVE  TokensInv'
<1>0. TokensType
  BY DEF TokensInv
<1>1. TokensType'
  BY <1>0, EndTyped, TokensAssumption DEF TokensType
<1> USE TokensAssumption DEF TokensInv, TokensType, RequestType, Steps, Token, NoRequest, OnToken, NoEntry
<1>2. RequestShape'
  BY DEF RequestShape, LateIsOver, Return
<1>3. LateIsOver'
  BY DEF LateIsOver, RequestShape, MappedIsNotRevoked, Alive, Stored, Return
<1>4. TimeLeftLongEnough'
  BY DEF TimeLeftLongEnough, RequestShape, Return
<1>5. FreshIsPrivate'
  BY DEF FreshIsPrivate, RequestShape, Return
<1>6. UnissuedIsUnlisted'
  BY DEF UnissuedIsUnlisted, Return
<1>7. BlacklistOutlivesToken'
  BY DEF BlacklistOutlivesToken, TimeLeftLongEnough, UnissuedIsUnlisted, RequestShape, Return
<1>8. MappedIsNotRevoked'
  BY DEF MappedIsNotRevoked, FreshIsPrivate, RequestShape, Return
<1> QED
  BY <1>1, <1>2, <1>3, <1>4, <1>5, <1>6, <1>7, <1>8

(* A call that is granted.                                                 *)
LEMMA GrantKeeps ==
    ASSUME TokensInv, NEW r \in Requests, Granted(r), request[r].at # "deleteRefresh",
           UNCHANGED <<store, clock, issued, expiresAt, tokens, refreshTokens, blacklist, redisErrors, handed>>
    PROVE  TokensInv'
<1>0. TokensType
  BY DEF TokensInv
<1>1. TokensType'
  BY <1>0, EndTyped, TokensAssumption DEF TokensType
<1> USE TokensAssumption DEF TokensInv, TokensType, RequestType, Steps, Token, NoRequest, OnToken, NoEntry
<1>2. RequestShape'
  BY DEF RequestShape, LateIsOver, Granted
<1>3. LateIsOver'
  BY DEF LateIsOver, RequestShape, MappedIsNotRevoked, Alive, Stored, Granted
<1>4. TimeLeftLongEnough'
  BY DEF TimeLeftLongEnough, RequestShape, Granted
<1>5. FreshIsPrivate'
  BY DEF FreshIsPrivate, RequestShape, Granted
<1>6. UnissuedIsUnlisted'
  BY DEF UnissuedIsUnlisted, Granted
<1>7. BlacklistOutlivesToken'
  BY DEF BlacklistOutlivesToken, TimeLeftLongEnough, UnissuedIsUnlisted, RequestShape, Granted
<1>8. MappedIsNotRevoked'
  BY DEF MappedIsNotRevoked, FreshIsPrivate, RequestShape, Granted
<1> QED
  BY <1>1, <1>2, <1>3, <1>4, <1>5, <1>6, <1>7, <1>8

(* A call that goes on to a step whose conditions hold.                    *)
LEMMA GoToKeeps ==
    ASSUME TokensInv, NEW r \in Requests, NEW step \in Steps, GoTo(r, step),
           UNCHANGED <<store, clock, issued, expiresAt, tokens, refreshTokens, blacklist, redisErrors, handed>>,
           request[r].at \in OnToken \ {"deleteRefresh", "getToken"},
           step \in {"valid", "revoke", "delete", "generate"},
           step = "delete" => store = "redis",
           step = "valid" => request[r].op = "validate",
           step = "generate" => request[r].op = "refresh",
           step \in {"revoke", "delete"} /\ request[r].op = "refresh" => request[r].at \in {"blacklisted", "revoke"}
    PROVE  TokensInv'
<1>0. TokensType
  BY DEF TokensInv
<1>1. TokensType'
  BY <1>0, GoToTyped, TokensAssumption DEF TokensType
<1> USE TokensAssumption DEF TokensInv, TokensType, RequestType, Steps, Token, NoRequest, OnToken, NoEntry
<1>2. RequestShape'
  BY DEF RequestShape, LateIsOver, GoTo
<1>3. LateIsOver'
  BY DEF LateIsOver, RequestShape, MappedIsNotRevoked, Alive, Stored, GoTo
<1>4. TimeLeftLongEnough'
  BY DEF TimeLeftLongEnough, RequestShape, GoTo
<1>5. FreshIsPrivate'
  BY DEF FreshIsPrivate, RequestShape, GoTo
<1>6. UnissuedIsUnlisted'
  BY DEF UnissuedIsUnlisted, GoTo
<1>7. BlacklistOutlivesToken'
  BY DEF BlacklistOutlivesToken, TimeLeftLongEnough, UnissuedIsUnlisted, RequestShape, GoTo
<1>8. MappedIsNotRevoked'
  BY DEF MappedIsNotRevoked, FreshIsPrivate, RequestShape, GoTo
<1> QED
  BY <1>1, <1>2, <1>3, <1>4, <1>5, <1>6, <1>7, <1>8

(* When the token is written to the blacklist, the time left is enough.     *)
LEMMA TimeLeftEnough ==
    ASSUME TokensInv, NEW r \in Requests, request[r].at = "ban"
    PROVE  /\ request[r].token \in Token
           /\ TimeLeft(r) \in Nat /\ clock + TimeLeft(r) >= expiresAt[request[r].token]
           /\ TimeLeft(r) = 0 => Forever >= expiresAt[request[r].token]
<1>1. /\ request[r].token \in Token /\ expiresAt[request[r].token] \in Nat /\ request[r].remaining \in Nat
      /\ clock \in 0 .. LastSecond
  BY TokensAssumption DEF TokensInv, TokensType, RequestShape, OnToken, RequestType, Token
<1>2. request[r].op = "refresh" => clock + request[r].remaining >= expiresAt[request[r].token]
  BY DEF TokensInv, TimeLeftLongEnough
<1> QED
  BY <1>1, <1>2, TokensAssumption DEF TimeLeft, Forever, Day

(* No step of a request, of the clock or of the clean-up breaks the invariant. *)
LEMMA StepInv ==
    ASSUME TokensInv, [TokensNext]_tokenVars
    PROVE  TokensInv'
<1>1. ASSUME NEW r \in Requests, Login(r) PROVE TokensInv'
  <2>1. TokensType'
    BY <1>1, TokensAssumption DEF TokensInv, TokensType, RequestType, Steps, Token, NoRequest, OnToken, NoEntry,
       LateIsOver, Login, Begin
  <2> USE TokensAssumption DEF TokensInv, TokensType, RequestType, Steps, Token, NoRequest, OnToken, NoEntry
  <2>2. RequestShape'
    BY <1>1 DEF RequestShape, LateIsOver, Login, Begin
  <2>3. LateIsOver'
    BY <1>1 DEF LateIsOver, RequestShape, MappedIsNotRevoked, Alive, Stored, Login, Begin
  <2>4. TimeLeftLongEnough'
    BY <1>1 DEF TimeLeftLongEnough, RequestShape, Login, Begin
  <2>5. FreshIsPrivate'
    BY <1>1 DEF FreshIsPrivate, RequestShape, Login, Begin
  <2>6. UnissuedIsUnlisted'
    BY <1>1 DEF UnissuedIsUnlisted, Login, Begin
  <2>7. BlacklistOutlivesToken'
    BY <1>1 DEF BlacklistOutlivesToken, TimeLeftLongEnough, UnissuedIsUnlisted, RequestShape, Login, Begin
  <2>8. MappedIsNotRevoked'
    BY <1>1 DEF MappedIsNotRevoked, FreshIsPrivate, RequestShape, Login, Begin
  <2> QED
    BY <2>1, <2>2, <2>3, <2>4, <2>5, <2>6, <2>7, <2>8 DEF TokensInv
<1>2. ASSUME NEW r \in Requests, GenerateToken(r) PROVE TokensInv'
  <2>1. CASE store = "memory" /\ request[r].op = "refresh"
    <3>0. /\ request[r].at = "generate" /\ issued < MaxTokens /\ issued' = issued + 1
          /\ expiresAt' = [expiresAt EXCEPT ![issued + 1] = clock + AccessTokenDuration]
          /\ tokens' = [tokens EXCEPT ![issued + 1] = "valid"]
          /\ refreshTokens' = refreshTokens \cup {issued + 1} /\ handed' = handed \cup {issued + 1}
          /\ UNCHANGED <<store, clock, blacklist, redisErrors>>
          /\ Granted(r)
      BY <1>2, <2>1 DEF GenerateToken
    <3>1. TokensType'
      BY <3>0, <2>1, EndTyped, TokensAssumption DEF TokensInv, TokensType, Token
    <3> USE TokensAssumption DEF TokensInv, TokensType, RequestType, Steps, Token, NoRequest, OnToken, NoEntry
    <3>2. RequestShape'
      BY <3>0, <2>1 DEF RequestShape, LateIsOver, Granted
    <3>3. LateIsOver'
      BY <3>0, <2>1 DEF LateIsOver, RequestShape, MappedIsNotRevoked, Alive, Stored, Granted
    <3>4. TimeLeftLongEnough'
      <4>1. \A t \in handed : expiresAt'[t] = expiresAt[t]
        BY <3>0
      <4>2. \A q \in Requests : q # r => request'[q] = request[q]
        BY <3>0 DEF Granted
      <4>3. request'[r].at \in {"idle", "granted"}
        BY <3>0 DEF Granted
      <4>4. TimeLeftLongEnough /\ RequestShape /\ UNCHANGED clock
        BY <3>0
      <4> HIDE DEF TokensInv, TokensType, RequestType
      <4> QED
        BY <4>1, <4>2, <4>3, <4>4 DEF TimeLeftLongEnough, RequestShape
    <3>5. FreshIsPrivate'
      BY <3>0, <2>1 DEF FreshIsPrivate, RequestShape, Granted
    <3>6. UnissuedIsUnlisted'
      BY <3>0, <2>1 DEF UnissuedIsUnlisted, Granted
    <3>7. BlacklistOutlivesToken'
      BY <3>0, <2>1 DEF BlacklistOutlivesToken, TimeLeftLongEnough, UnissuedIsUnlisted, RequestShape, Granted
    <3>8. MappedIsNotRevoked'
      BY <3>0, <2>1 DEF MappedIsNotRevoked, FreshIsPrivate, RequestShape, Granted
    <3> QED
      BY <3>1, <3>2, <3>3, <3>4, <3>5, <3>6, <3>7, <3>8 DEF TokensInv
  <2>2. CASE store = "memory" /\ request[r].op # "refresh"
    <3>0. /\ request[r].at = "generate" /\ issued < MaxTokens /\ issued' = issued + 1
          /\ expiresAt' = [expiresAt EXCEPT ![issued + 1] = clock + AccessTokenDuration]
          /\ tokens' = [tokens EXCEPT ![issued + 1] = "valid"]
          /\ refreshTokens' = refreshTokens \cup {issued + 1} /\ handed' = handed \cup {issued + 1}
          /\ UNCHANGED <<store, clock, blacklist, redisErrors>>
          /\ Return(r)
      BY <1>2, <2>2 DEF GenerateToken
    <3>1. TokensType'
      BY <3>0, <2>2, EndTyped, TokensAssumption DEF TokensInv, TokensType, Token
    <3> USE TokensAssumption DEF TokensInv, TokensType, RequestType, Steps, Token, NoRequest, OnToken, NoEntry
    <3>2. RequestShape'
      BY <3>0, <2>2 DEF RequestShape, LateIsOver, Return
    <3>3. LateIsOver'
      BY <3>0, <2>2 DEF LateIsOver, RequestShape, MappedIsNotRevoked, Alive, Stored, Return
    <3>4. TimeLeftLongEnough'
      <4>1. \A t \in handed : expiresAt'[t] = expiresAt[t]
        BY <3>0
      <4>2. \A q \in Requests : q # r => request'[q] = request[q]
        BY <3>0 DEF Return
      <4>3. request'[r].at \in {"idle", "granted"}
        BY <3>0 DEF Return
      <4>4. TimeLeftLongEnough /\ RequestShape /\ UNCHANGED clock
        BY <3>0
      <4> HIDE DEF TokensInv, TokensType, RequestType
      <4> QED
        BY <4>1, <4>2, <4>3, <4>4 DEF TimeLeftLongEnough, RequestShape
    <3>5. FreshIsPrivate'
      BY <3>0, <2>2 DEF FreshIsPrivate, RequestShape, Return
    <3>6. UnissuedIsUnlisted'
      BY <3>0, <2>2 DEF UnissuedIsUnlisted, Return
    <3>7. BlacklistOutlivesToken'
      BY <3>0, <2>2 DEF BlacklistOutlivesToken, TimeLeftLongEnough, UnissuedIsUnlisted, RequestShape, Return
    <3>8. MappedIsNotRevoked'
      BY <3>0, <2>2 DEF MappedIsNotRevoked, FreshIsPrivate, RequestShape, Return
    <3> QED
      BY <3>1, <3>2, <3>3, <3>4, <3>5, <3>6, <3>7, <3>8 DEF TokensInv
  <2>3. CASE store # "memory"
    <3>0. /\ request[r].at = "generate" /\ issued < MaxTokens /\ issued' = issued + 1
          /\ expiresAt' = [expiresAt EXCEPT ![issued + 1] = clock + AccessTokenDuration]
          /\ tokens' = [tokens EXCEPT ![issued + 1] = "valid"]
          /\ UNCHANGED <<store, clock, blacklist, refreshTokens, handed, redisErrors>>
      BY <1>2, <2>3 DEF GenerateToken
    <3>q. GoToWith(r, "storeRefresh", issued + 1)
      BY <1>2, <2>3 DEF GenerateToken
    <3>t. request' \in [Requests -> RequestType]
      <4>1. issued + 1 \in Nat /\ request \in [Requests -> RequestType]
        BY TokensAssumption DEF TokensInv, TokensType
      <4>2. [op |-> request[r].op, at |-> "storeRefresh", token |-> request[r].token,
             remaining |-> issued + 1, asked |-> request[r].asked] \in RequestType
        BY <4>1 DEF RequestType, Steps
      <4> QED
        BY <4>1, <4>2, <3>q DEF GoToWith
    <3>f. /\ request'[r].at = "storeRefresh" /\ request'[r].op = request[r].op /\ request'[r].token = request[r].token
          /\ request'[r].asked = request[r].asked /\ request'[r].remaining = issued + 1
          /\ \A q \in Requests : q # r => request'[q] = request[q]
      BY <3>q DEF GoToWith, TokensInv, TokensType
    <3>d. \A q \in Requests : request[q].at = "deleteRefresh" => request'[q] = request[q]
      BY <3>0, <3>f
    <3>m. MappedIsNotRevoked'
      <4>1. /\ MappedIsNotRevoked /\ UNCHANGED <<store, refreshTokens, redisErrors>>
            /\ \A t \in refreshTokens : tokens'[t] = tokens[t]
        BY <3>0, TokensAssumption DEF TokensInv, TokensType, Token
      <4> QED
        BY <4>1, <3>d DEF MappedIsNotRevoked
    <3>1. TokensType'
      BY <3>0, <2>3, <3>t, TokensAssumption DEF TokensInv, TokensType, Token
    <3> USE TokensAssumption DEF TokensInv, TokensType, RequestType, Steps, Token, NoRequest, OnToken, NoEntry
    <3>2. RequestShape'
      BY <3>0, <2>3, <3>q DEF GoToWith, RequestShape, LateIsOver
    <3>3. LateIsOver'
      <4>1. \A t \in 1 .. issued : expiresAt'[t] = expiresAt[t] /\ tokens'[t] = tokens[t]
        BY <3>0
      <4>2. /\ LateIsOver /\ UNCHANGED <<store, clock>>
            /\ \A q \in Requests : request[q].token \in Token => request[q].token \in 1 .. issued
        BY <3>0 DEF RequestShape
      <4> HIDE DEF TokensInv, TokensType, RequestType, Token
      <4> QED
        BY <3>0, <3>f, <4>1, <4>2 DEF LateIsOver, Alive, Stored
    <3>4. TimeLeftLongEnough'
      <4>1. \A t \in handed : expiresAt'[t] = expiresAt[t]
        BY <3>0
      <4>2. TimeLeftLongEnough /\ RequestShape /\ UNCHANGED clock
        BY <3>0
      <4> HIDE DEF TokensInv, TokensType, RequestType
      <4> QED
        BY <3>f, <4>1, <4>2 DEF TimeLeftLongEnough, RequestShape
    <3>5. FreshIsPrivate'
      <4>1. /\ FreshIsPrivate /\ RequestShape /\ UNCHANGED handed /\ issued + 1 \notin handed
            /\ issued \in Nat /\ tokens'[issued + 1] = "valid" /\ issued' = issued + 1
            /\ \A t \in 1 .. issued : tokens'[t] = tokens[t]
        BY <3>0
      <4> HIDE DEF TokensInv, TokensType, RequestType
      <4> QED
        BY <3>f, <4>1 DEF FreshIsPrivate
    <3>6. UnissuedIsUnlisted'
      BY <3>0, <2>3 DEF UnissuedIsUnlisted
    <3>7. BlacklistOutlivesToken'
      BY <3>0, <2>3 DEF BlacklistOutlivesToken, TimeLeftLongEnough, UnissuedIsUnlisted, RequestShape
    <3>8. MappedIsNotRevoked'
      BY <3>m
    <3> QED
      BY <3>1, <3>2, <3>3, <3>4, <3>5, <3>6, <3>7, <3>8 DEF TokensInv
  <2> QED
    BY <2>1, <2>2, <2>3
<1>3. ASSUME NEW r \in Requests, StoreRefreshToken(r) PROVE TokensInv'
  <2>0. /\ request[r].at = "storeRefresh" /\ refreshTokens' = refreshTokens \cup {request[r].remaining}
        /\ UNCHANGED <<store, clock, issued, expiresAt, tokens, blacklist>>
    BY <1>3 DEF StoreRefreshToken
  <2>f. request[r].remaining \in 1 .. issued
    BY <2>0 DEF TokensInv, FreshIsPrivate
  <2>1. ASSUME handed' = handed \cup {request[r].remaining}, request[r].op = "refresh", Granted(r),
      UNCHANGED redisErrors PROVE TokensInv'
    <3>1. TokensType'
      BY <2>0, <2>1, <2>f, EndTyped, TokensAssumption DEF TokensInv, TokensType, Token
    <3> USE TokensAssumption DEF TokensInv, TokensType, RequestType, Steps, Token, NoRequest, OnToken, NoEntry
    <3>2. RequestShape'
      BY <2>0, <2>1 DEF RequestShape, LateIsOver, Granted
    <3>3. LateIsOver'
      BY <2>0, <2>1 DEF LateIsOver, RequestShape, MappedIsNotRevoked, Alive, Stored, Granted
    <3>4. TimeLeftLongEnough'
      BY <2>0, <2>1 DEF TimeLeftLongEnough, RequestShape, Granted
    <3>5. FreshIsPrivate'
      BY <2>0, <2>1 DEF FreshIsPrivate, RequestShape, Granted
    <3>6. UnissuedIsUnlisted'
      BY <2>0, <2>1 DEF UnissuedIsUnlisted, Granted
    <3>7. BlacklistOutlivesToken'
      BY <2>0, <2>1 DEF BlacklistOutlivesToken, TimeLeftLongEnough, UnissuedIsUnlisted, RequestShape, Granted
    <3>8. MappedIsNotRevoked'
      BY <2>0, <2>1 DEF MappedIsNotRevoked, FreshIsPrivate, RequestShape, Granted
    <3> QED
      BY <3>1, <3>2, <3>3, <3>4, <3>5, <3>6, <3>7, <3>8 DEF TokensInv
  <2>2. ASSUME handed' = handed \cup {request[r].remaining}, request[r].op # "refresh", Return(r),
      UNCHANGED redisErrors PROVE TokensInv'
    <3>1. TokensType'
      BY <2>0, <2>2, <2>f, EndTyped, TokensAssumption DEF TokensInv, TokensType, Token
    <3> USE TokensAssumption DEF TokensInv, TokensType, RequestType, Steps, Token, NoRequest, OnToken, NoEntry
    <3>2. RequestShape'
      BY <2>0, <2>2 DEF RequestShape, LateIsOver, Return
    <3>3. LateIsOver'
      BY <2>0, <2>2 DEF LateIsOver, RequestShape, MappedIsNotRevoked, Alive, Stored, Return
    <3>4. TimeLeftLongEnough'
      BY <2>0, <2>2 DEF TimeLeftLongEnough, RequestShape, Return
    <3>5. FreshIsPrivate'
      BY <2>0, <2>2 DEF FreshIsPrivate, RequestShape, Return
    <3>6. UnissuedIsUnlisted'
      BY <2>0, <2>2 DEF UnissuedIsUnlisted, Return
    <3>7. BlacklistOutlivesToken'
      BY <2>0, <2>2 DEF BlacklistOutlivesToken, TimeLeftLongEnough, UnissuedIsUnlisted, RequestShape, Return
    <3>8. MappedIsNotRevoked'
      BY <2>0, <2>2 DEF MappedIsNotRevoked, FreshIsPrivate, RequestShape, Return
    <3> QED
      BY <3>1, <3>2, <3>3, <3>4, <3>5, <3>6, <3>7, <3>8 DEF TokensInv
  <2>3. ASSUME redisErrors < MaxRedisErrors, redisErrors' = redisErrors + 1, Return(r),
      UNCHANGED handed PROVE TokensInv'
    <3>1. TokensType'
      <4>1. request' \in [Requests -> RequestType]
        BY <2>3, EndTyped DEF TokensInv
      <4>2. redisErrors' \in 0 .. MaxRedisErrors /\ refreshTokens' \subseteq 1 .. issued
        <5>1. redisErrors \in 0 .. MaxRedisErrors /\ refreshTokens \subseteq 1 .. issued
          BY DEF TokensInv, TokensType
        <5>2. redisErrors + 1 \in 0 .. MaxRedisErrors
          BY <5>1, <2>3, TokensAssumption
        <5> QED
          BY <5>1, <5>2, <2>0, <2>3, <2>f
      <4> QED
        BY <4>1, <4>2, <2>0, <2>3 DEF TokensInv, TokensType
    <3> USE TokensAssumption DEF TokensInv, TokensType, RequestType, Steps, Token, NoRequest, OnToken, NoEntry
    <3>2. RequestShape'
      BY <2>0, <2>3 DEF RequestShape, LateIsOver, Return
    <3>3. LateIsOver'
      BY <2>0, <2>3 DEF LateIsOver, RequestShape, MappedIsNotRevoked, Alive, Stored, Return
    <3>4. TimeLeftLongEnough'
      BY <2>0, <2>3 DEF TimeLeftLongEnough, RequestShape, Return
    <3>5. FreshIsPrivate'
      BY <2>0, <2>3 DEF FreshIsPrivate, RequestShape, Return
    <3>6. UnissuedIsUnlisted'
      BY <2>0, <2>3 DEF UnissuedIsUnlisted, Return
    <3>7. BlacklistOutlivesToken'
      BY <2>0, <2>3 DEF BlacklistOutlivesToken, TimeLeftLongEnough, UnissuedIsUnlisted, RequestShape, Return
    <3>8. MappedIsNotRevoked'
      BY <2>0, <2>3 DEF MappedIsNotRevoked, FreshIsPrivate, RequestShape, Return
    <3> QED
      BY <3>1, <3>2, <3>3, <3>4, <3>5, <3>6, <3>7, <3>8 DEF TokensInv
  <2> QED
    BY <1>3, <2>1, <2>2, <2>3 DEF StoreRefreshToken
<1>4. ASSUME NEW r \in Requests, CheckBlacklist(r) PROVE TokensInv'
  <2>1. CASE IsBlacklisted(request[r].token)
    BY <1>4, <2>1, ReturnKeeps DEF CheckBlacklist
  <2>2. CASE ~IsBlacklisted(request[r].token)
    BY <1>4, <2>2, GoToKeeps DEF CheckBlacklist, Steps, OnToken
  <2> QED
    BY <2>1, <2>2
<1>5. ASSUME NEW r \in Requests, CheckStore(r) PROVE TokensInv'
  <2>1. CASE IsTokenValid(request[r].token)
    BY <1>5, <2>1, GrantKeeps DEF CheckStore
  <2>2. CASE ~IsTokenValid(request[r].token)
    BY <1>5, <2>2, ReturnKeeps DEF CheckStore
  <2> QED
    BY <2>1, <2>2
<1>6. ASSUME NEW r \in Requests, GetToken(r) PROVE TokensInv'
  <2>1. CASE Stored(request[r].token) /\ ~IsExpired(request[r].token)
    <3>0. /\ request[r].at = "getToken"
          /\ UNCHANGED <<store, clock, issued, expiresAt, tokens, refreshTokens, blacklist, redisErrors, handed>>
      BY <1>6, <2>1 DEF GetToken
    <3>q. GoToWith(r, "blacklisted", expiresAt[request[r].token] - clock)
      BY <1>6, <2>1 DEF GetToken
    <3>n. /\ request[r].token \in Token /\ expiresAt[request[r].token] - clock \in Nat
          /\ expiresAt[request[r].token] \in Nat /\ clock \in Nat
      BY <3>0, <2>1, TokensAssumption DEF TokensInv, TokensType, RequestShape, OnToken, Token, IsExpired
    <3>t. request' \in [Requests -> RequestType]
      <4>1. request \in [Requests -> RequestType]
        BY DEF TokensInv, TokensType
      <4>2. [op |-> request[r].op, at |-> "blacklisted", token |-> request[r].token,
             remaining |-> expiresAt[request[r].token] - clock, asked |-> request[r].asked] \in RequestType
        BY <4>1, <3>n DEF RequestType, Steps
      <4> QED
        BY <4>1, <4>2, <3>q DEF GoToWith
    <3>f. /\ request'[r].at = "blacklisted" /\ request'[r].op = request[r].op /\ request'[r].token = request[r].token
          /\ request'[r].asked = request[r].asked /\ request'[r].remaining = expiresAt[request[r].token] - clock
          /\ \A q \in Requests : q # r => request'[q] = request[q]
      BY <3>q DEF GoToWith, TokensInv, TokensType
    <3>d. \A q \in Requests : request[q].at = "deleteRefresh" => request'[q] = request[q]
      BY <3>0, <3>f
    <3>m. MappedIsNotRevoked'
      <4>1. /\ MappedIsNotRevoked /\ UNCHANGED <<store, refreshTokens, redisErrors>>
            /\ \A t \in refreshTokens : tokens'[t] = tokens[t]
        BY <3>0 DEF TokensInv
      <4> QED
        BY <4>1, <3>d DEF MappedIsNotRevoked
    <3>1. TokensType'
      BY <3>0, <2>1, <3>t, TokensAssumption DEF TokensInv, TokensType, Token
    <3> USE TokensAssumption DEF TokensInv, TokensType, RequestType, Steps, Token, NoRequest, OnToken, NoEntry
    <3>2. RequestShape'
      BY <3>0, <2>1, <3>n, <3>q DEF GoToWith, RequestShape, LateIsOver
    <3>3. LateIsOver'
      <4>1. request[r].asked # "late"
        BY <3>0, <2>1, <3>n DEF LateIsOver, Alive, Stored, IsExpired, RequestShape
      <4>2. LateIsOver
        OBVIOUS
      <4> HIDE DEF TokensInv, TokensType, RequestType
      <4> QED
        BY <3>0, <3>n, <3>f, <4>1, <4>2 DEF LateIsOver, Alive, Stored
    <3>4. TimeLeftLongEnough'
      <4>1. TimeLeftLongEnough
        OBVIOUS
      <4> HIDE DEF TokensInv, TokensType, RequestType
      <4> QED
        BY <3>0, <3>n, <3>f, <4>1 DEF TimeLeftLongEnough
    <3>5. FreshIsPrivate'
      BY <3>0, <2>1, <3>n, <3>q DEF GoToWith, FreshIsPrivate, RequestShape, IsExpired
    <3>6. UnissuedIsUnlisted'
      BY <3>0, <2>1 DEF UnissuedIsUnlisted
    <3>7. BlacklistOutlivesToken'
      BY <3>0, <2>1 DEF BlacklistOutlivesToken, TimeLeftLongEnough, UnissuedIsUnlisted, RequestShape
    <3>8. MappedIsNotRevoked'
      BY <3>m
    <3> QED
      BY <3>1, <3>2, <3>3, <3>4, <3>5, <3>6, <3>7, <3>8 DEF TokensInv
  <2>2. CASE ~(Stored(request[r].token) /\ ~IsExpired(request[r].token))
    BY <1>6, <2>2, ReturnKeeps DEF GetToken
  <2> QED
    BY <2>1, <2>2
<1>7. ASSUME NEW r \in Requests, RevokeToken(r) PROVE TokensInv'
  <2>1. CASE ~Stored(request[r].token)
    BY <1>7, <2>1, ReturnKeeps DEF RevokeToken
  <2>2. CASE Stored(request[r].token) /\ store = "memory"
    <3>0. /\ request[r].at = "revoke"
          /\ tokens' = [tokens EXCEPT ![request[r].token] = "revoked"]
          /\ refreshTokens' = refreshTokens \ {request[r].token}
          /\ GoTo(r, "ban")
          /\ UNCHANGED <<store, clock, issued, expiresAt, blacklist, redisErrors, handed>>
      BY <1>7, <2>2 DEF RevokeToken, Unmapped
    <3>1. TokensType'
      BY <3>0, <2>2, GoToTyped, TokensAssumption DEF TokensInv, TokensType, Token, Steps
    <3> USE TokensAssumption DEF TokensInv, TokensType, RequestType, Steps, Token, NoRequest, OnToken, NoEntry
    <3>2. RequestShape'
      BY <3>0, <2>2 DEF RequestShape, LateIsOver, GoTo
    <3>3. LateIsOver'
      BY <3>0, <2>2 DEF LateIsOver, RequestShape, MappedIsNotRevoked, Alive, Stored, GoTo
    <3>4. TimeLeftLongEnough'
      BY <3>0, <2>2 DEF TimeLeftLongEnough, RequestShape, GoTo
    <3>5. FreshIsPrivate'
      BY <3>0, <2>2 DEF FreshIsPrivate, RequestShape, GoTo
    <3>6. UnissuedIsUnlisted'
      BY <3>0, <2>2 DEF UnissuedIsUnlisted, GoTo
    <3>7. BlacklistOutlivesToken'
      BY <3>0, <2>2 DEF BlacklistOutlivesToken, TimeLeftLongEnough, UnissuedIsUnlisted, RequestShape, GoTo
    <3>8. MappedIsNotRevoked'
      BY <3>0, <2>2 DEF MappedIsNotRevoked, FreshIsPrivate, RequestShape, GoTo
    <3> QED
      BY <3>1, <3>2, <3>3, <3>4, <3>5, <3>6, <3>7, <3>8 DEF TokensInv
  <2>3. CASE Stored(request[r].token) /\ store # "memory"
    BY <1>7, <2>3, GoToKeeps, TokensAssumption DEF RevokeToken, Steps, OnToken, TokensInv, TokensType
  <2> QED
    BY <2>1, <2>2, <2>3
<1>8. ASSUME NEW r \in Requests, DeleteToken(r) PROVE TokensInv'
  <2>1. TokensType'
    BY <1>8, GoToTyped, TokensAssumption DEF TokensInv, TokensType, Token, Steps, DeleteToken
  <2> USE TokensAssumption DEF TokensInv, TokensType, RequestType, Steps, Token, NoRequest, OnToken, NoEntry
  <2>2. RequestShape'
    BY <1>8 DEF RequestShape, LateIsOver, DeleteToken, GoTo
  <2>3. LateIsOver'
    BY <1>8 DEF LateIsOver, RequestShape, MappedIsNotRevoked, Alive, Stored, DeleteToken, GoTo
  <2>4. TimeLeftLongEnough'
    BY <1>8 DEF TimeLeftLongEnough, RequestShape, DeleteToken, GoTo
  <2>5. FreshIsPrivate'
    BY <1>8 DEF FreshIsPrivate, RequestShape, DeleteToken, GoTo
  <2>6. UnissuedIsUnlisted'
    BY <1>8 DEF UnissuedIsUnlisted, DeleteToken, GoTo
  <2>7. BlacklistOutlivesToken'
    BY <1>8 DEF BlacklistOutlivesToken, TimeLeftLongEnough, UnissuedIsUnlisted, RequestShape, DeleteToken, GoTo
  <2>8. MappedIsNotRevoked'
    BY <1>8 DEF MappedIsNotRevoked, FreshIsPrivate, RequestShape, DeleteToken, GoTo
  <2> QED
    BY <2>1, <2>2, <2>3, <2>4, <2>5, <2>6, <2>7, <2>8 DEF TokensInv
<1>9. ASSUME NEW r \in Requests, DeleteRefresh(r) PROVE TokensInv'
  <2>1. TokensType'
    BY <1>9, GoToTyped, TokensAssumption DEF TokensInv, TokensType, Token, Steps, DeleteRefresh, Unmapped
  <2> USE TokensAssumption DEF TokensInv, TokensType, RequestType, Steps, Token, NoRequest, OnToken, NoEntry
  <2>2. RequestShape'
    BY <1>9 DEF RequestShape, LateIsOver, DeleteRefresh, GoTo, Unmapped
  <2>3. LateIsOver'
    BY <1>9 DEF LateIsOver, RequestShape, MappedIsNotRevoked, Alive, Stored, DeleteRefresh, GoTo, Unmapped
  <2>4. TimeLeftLongEnough'
    BY <1>9 DEF TimeLeftLongEnough, RequestShape, DeleteRefresh, GoTo, Unmapped
  <2>5. FreshIsPrivate'
    BY <1>9 DEF FreshIsPrivate, RequestShape, DeleteRefresh, GoTo, Unmapped
  <2>6. UnissuedIsUnlisted'
    BY <1>9 DEF UnissuedIsUnlisted, DeleteRefresh, GoTo, Unmapped
  <2>7. BlacklistOutlivesToken'
    BY <1>9 DEF BlacklistOutlivesToken, TimeLeftLongEnough, UnissuedIsUnlisted, RequestShape, DeleteRefresh, GoTo,
       Unmapped
  <2>8. MappedIsNotRevoked'
    BY <1>9 DEF MappedIsNotRevoked, FreshIsPrivate, RequestShape, DeleteRefresh, GoTo, Unmapped
  <2> QED
    BY <2>1, <2>2, <2>3, <2>4, <2>5, <2>6, <2>7, <2>8 DEF TokensInv
<1>10. ASSUME NEW r \in Requests, AddToBlacklist(r) PROVE TokensInv'
  <2>1. CASE request[r].op = "refresh"
    <3>0. /\ request[r].at = "ban"
          /\ blacklist' = [blacklist EXCEPT ![request[r].token] =
                               IF store = "redis" /\ TimeLeft(r) = 0 THEN Forever ELSE clock + TimeLeft(r)]
          /\ UNCHANGED <<store, clock, issued, expiresAt, tokens, refreshTokens, redisErrors, handed>>
          /\ GoTo(r, "getUser")
      BY <1>10, <2>1 DEF AddToBlacklist
    <3>t. /\ request[r].token \in Token /\ TimeLeft(r) \in Nat /\ clock + TimeLeft(r) >= expiresAt[request[r].token]
          /\ TimeLeft(r) = 0 => Forever >= expiresAt[request[r].token]
          /\ Forever \in Nat
      BY <3>0, TimeLeftEnough, TokensAssumption DEF Forever
    <3>1. TokensType'
      <4>1. request' \in [Requests -> RequestType]
        BY <3>0, GoToTyped DEF TokensInv, Steps
      <4> QED
        BY <4>1, <3>0, <3>t, TokensAssumption DEF TokensInv, TokensType
    <3> USE TokensAssumption DEF TokensInv, TokensType, RequestType, Steps, Token, NoRequest, OnToken, NoEntry
    <3>2. RequestShape'
      BY <3>0, <2>1 DEF RequestShape, LateIsOver, GoTo
    <3>3. LateIsOver'
      BY <3>0, <2>1 DEF LateIsOver, RequestShape, MappedIsNotRevoked, Alive, Stored, GoTo
    <3>4. TimeLeftLongEnough'
      BY <3>0, <2>1 DEF TimeLeftLongEnough, RequestShape, GoTo
    <3>5. FreshIsPrivate'
      BY <3>0, <2>1 DEF FreshIsPrivate, RequestShape, GoTo
    <3>6. UnissuedIsUnlisted'
      <4>1. request[r].token \in handed
        BY <3>0 DEF RequestShape
      <4> QED
        BY <3>0, <3>t, <4>1 DEF UnissuedIsUnlisted
    <3>7. BlacklistOutlivesToken'
      BY <3>0, <2>1, <3>t DEF BlacklistOutlivesToken, TimeLeftLongEnough, UnissuedIsUnlisted, RequestShape, GoTo
    <3>8. MappedIsNotRevoked'
      BY <3>0, <2>1 DEF MappedIsNotRevoked, FreshIsPrivate, RequestShape, GoTo
    <3> QED
      BY <3>1, <3>2, <3>3, <3>4, <3>5, <3>6, <3>7, <3>8 DEF TokensInv
  <2>2. CASE request[r].op # "refresh"
    <3>0. /\ request[r].at = "ban"
          /\ blacklist' = [blacklist EXCEPT ![request[r].token] =
                               IF store = "redis" /\ TimeLeft(r) = 0 THEN Forever ELSE clock + TimeLeft(r)]
          /\ UNCHANGED <<store, clock, issued, expiresAt, tokens, refreshTokens, redisErrors, handed>>
          /\ Return(r)
      BY <1>10, <2>2 DEF AddToBlacklist
    <3>t. /\ request[r].token \in Token /\ TimeLeft(r) \in Nat /\ clock + TimeLeft(r) >= expiresAt[request[r].token]
          /\ TimeLeft(r) = 0 => Forever >= expiresAt[request[r].token]
          /\ Forever \in Nat
      BY <3>0, TimeLeftEnough, TokensAssumption DEF Forever
    <3>1. TokensType'
      <4>1. request' \in [Requests -> RequestType]
        BY <3>0, EndTyped DEF TokensInv
      <4> QED
        BY <4>1, <3>0, <3>t, TokensAssumption DEF TokensInv, TokensType
    <3> USE TokensAssumption DEF TokensInv, TokensType, RequestType, Steps, Token, NoRequest, OnToken, NoEntry
    <3>2. RequestShape'
      BY <3>0, <2>2 DEF RequestShape, LateIsOver, Return
    <3>3. LateIsOver'
      BY <3>0, <2>2 DEF LateIsOver, RequestShape, MappedIsNotRevoked, Alive, Stored, Return
    <3>4. TimeLeftLongEnough'
      <4>1. \A t \in handed : expiresAt'[t] = expiresAt[t]
        BY <3>0
      <4>2. \A q \in Requests : q # r => request'[q] = request[q]
        BY <3>0 DEF Return
      <4>3. request'[r].at \in {"idle", "granted"}
        BY <3>0 DEF Return
      <4>4. TimeLeftLongEnough /\ RequestShape /\ UNCHANGED clock
        BY <3>0
      <4> HIDE DEF TokensInv, TokensType, RequestType
      <4> QED
        BY <4>1, <4>2, <4>3, <4>4 DEF TimeLeftLongEnough, RequestShape
    <3>5. FreshIsPrivate'
      BY <3>0, <2>2 DEF FreshIsPrivate, RequestShape, Return
    <3>6. UnissuedIsUnlisted'
      <4>1. request[r].token \in handed
        BY <3>0 DEF RequestShape
      <4> QED
        BY <3>0, <3>t, <4>1 DEF UnissuedIsUnlisted
    <3>7. BlacklistOutlivesToken'
      BY <3>0, <2>2, <3>t DEF BlacklistOutlivesToken, TimeLeftLongEnough, UnissuedIsUnlisted, RequestShape, Return
    <3>8. MappedIsNotRevoked'
      BY <3>0, <2>2 DEF MappedIsNotRevoked, FreshIsPrivate, RequestShape, Return
    <3> QED
      BY <3>1, <3>2, <3>3, <3>4, <3>5, <3>6, <3>7, <3>8 DEF TokensInv
  <2> QED
    BY <2>1, <2>2
<1>11. ASSUME NEW r \in Requests, GetUserByID(r) PROVE TokensInv'
  <2>1. CASE userStored
    BY <1>11, <2>1, GoToKeeps DEF GetUserByID, Steps, OnToken, TokensInv, LateIsOver
  <2>2. CASE ~userStored
    BY <1>11, <2>2, ReturnKeeps DEF GetUserByID
  <2> QED
    BY <2>1, <2>2
<1>12. ASSUME NEW r \in Requests, RedisFails(r) PROVE TokensInv'
  BY <1>12, ReturnKeeps DEF RedisFails
<1>13. ASSUME NEW r \in Requests, CleanupExpiredTokens(r) PROVE TokensInv'
  <2>1. TokensType'
    BY <1>13, GoToTyped, TokensAssumption DEF TokensInv, TokensType, Token, Steps, CleanupExpiredTokens, IsExpired
  <2> USE TokensAssumption DEF TokensInv, TokensType, RequestType, Steps, Token, NoRequest, OnToken, NoEntry
  <2>2. RequestShape'
    BY <1>13 DEF RequestShape, LateIsOver, CleanupExpiredTokens, GoTo
  <2>3. LateIsOver'
    BY <1>13 DEF LateIsOver, RequestShape, MappedIsNotRevoked, Alive, Stored, CleanupExpiredTokens, GoTo, IsExpired
  <2>4. TimeLeftLongEnough'
    BY <1>13 DEF TimeLeftLongEnough, RequestShape, CleanupExpiredTokens, GoTo, IsExpired
  <2>5. FreshIsPrivate'
    BY <1>13 DEF FreshIsPrivate, RequestShape, CleanupExpiredTokens, GoTo, IsExpired
  <2>6. UnissuedIsUnlisted'
    BY <1>13 DEF UnissuedIsUnlisted, CleanupExpiredTokens, GoTo
  <2>7. BlacklistOutlivesToken'
    BY <1>13 DEF BlacklistOutlivesToken, TimeLeftLongEnough, UnissuedIsUnlisted, RequestShape,
       CleanupExpiredTokens, GoTo
  <2>8. MappedIsNotRevoked'
    BY <1>13 DEF MappedIsNotRevoked, FreshIsPrivate, RequestShape, CleanupExpiredTokens, GoTo, IsExpired
  <2> QED
    BY <2>1, <2>2, <2>3, <2>4, <2>5, <2>6, <2>7, <2>8 DEF TokensInv
<1>14. ASSUME NEW r \in Requests, CleanupBlacklist(r) PROVE TokensInv'
  <2>1. TokensType'
    <3>1. request' \in [Requests -> RequestType]
      BY <1>14, EndTyped DEF TokensInv, CleanupBlacklist
    <3>2. blacklist' \in [Token -> Int]
      BY <1>14 DEF TokensInv, TokensType, NoEntry, CleanupBlacklist
    <3> QED
      BY <1>14, <3>1, <3>2 DEF TokensInv, TokensType, CleanupBlacklist
  <2> USE TokensAssumption DEF TokensInv, TokensType, RequestType, Steps, Token, NoRequest, OnToken, NoEntry
  <2>2. RequestShape'
    BY <1>14 DEF RequestShape, LateIsOver, CleanupBlacklist, Return
  <2>3. LateIsOver'
    BY <1>14 DEF LateIsOver, RequestShape, MappedIsNotRevoked, Alive, Stored, CleanupBlacklist, Return
  <2>4. TimeLeftLongEnough'
    BY <1>14 DEF TimeLeftLongEnough, RequestShape, CleanupBlacklist, Return
  <2>5. FreshIsPrivate'
    BY <1>14 DEF FreshIsPrivate, RequestShape, CleanupBlacklist, Return
  <2>6. UnissuedIsUnlisted'
    BY <1>14 DEF UnissuedIsUnlisted, CleanupBlacklist, Return
  <2>7. BlacklistOutlivesToken'
    BY <1>14 DEF BlacklistOutlivesToken, TimeLeftLongEnough, UnissuedIsUnlisted, RequestShape, CleanupBlacklist,
       Return
  <2>8. MappedIsNotRevoked'
    BY <1>14 DEF MappedIsNotRevoked, FreshIsPrivate, RequestShape, CleanupBlacklist, Return
  <2> QED
    BY <2>1, <2>2, <2>3, <2>4, <2>5, <2>6, <2>7, <2>8 DEF TokensInv
<1>15. ASSUME NEW r \in Requests, ClientLeaves(r) PROVE TokensInv'
  BY <1>15, ReturnKeeps DEF ClientLeaves
<1>16. ASSUME NEW r \in Requests, NEW t \in handed, ValidateToken(r, t) PROVE TokensInv'
  <2>1. TokensType'
    BY <1>16, TokensAssumption DEF TokensInv, TokensType, RequestType, Steps, Token, NoRequest, OnToken, NoEntry,
       LateIsOver, ValidateToken, Begin, AskedOf, IsExpired
  <2> USE TokensAssumption DEF TokensInv, TokensType, RequestType, Steps, Token, NoRequest, OnToken, NoEntry
  <2>2. RequestShape'
    BY <1>16 DEF RequestShape, LateIsOver, ValidateToken, Begin, AskedOf
  <2>3. LateIsOver'
    BY <1>16 DEF LateIsOver, RequestShape, MappedIsNotRevoked, Alive, Stored, ValidateToken, Begin, AskedOf,
       IsExpired
  <2>4. TimeLeftLongEnough'
    BY <1>16 DEF TimeLeftLongEnough, RequestShape, ValidateToken, Begin, IsExpired
  <2>5. FreshIsPrivate'
    BY <1>16 DEF FreshIsPrivate, RequestShape, ValidateToken, Begin, IsExpired
  <2>6. UnissuedIsUnlisted'
    BY <1>16 DEF UnissuedIsUnlisted, ValidateToken, Begin
  <2>7. BlacklistOutlivesToken'
    BY <1>16 DEF BlacklistOutlivesToken, TimeLeftLongEnough, UnissuedIsUnlisted, RequestShape, ValidateToken, Begin
  <2>8. MappedIsNotRevoked'
    BY <1>16 DEF MappedIsNotRevoked, FreshIsPrivate, RequestShape, ValidateToken, Begin, IsExpired
  <2> QED
    BY <2>1, <2>2, <2>3, <2>4, <2>5, <2>6, <2>7, <2>8 DEF TokensInv
<1>17. ASSUME NEW r \in Requests, NEW t \in handed, RefreshToken(r, t) PROVE TokensInv'
  <2>1. CASE store = "redis"
    <3>0. /\ Mapped(t)
          /\ Begin(r, t, "refresh", "getToken", 0, AskedOf(t))
          /\ UNCHANGED <<store, clock, issued, expiresAt, tokens, refreshTokens, blacklist, redisErrors, handed>>
      BY <1>17, <2>1 DEF RefreshToken
    <3>1. TokensType'
      BY <3>0, <2>1, TokensAssumption DEF TokensInv, TokensType, RequestType, Steps, Token, NoRequest, OnToken,
         NoEntry, LateIsOver, Begin, AskedOf, Mapped
    <3> USE TokensAssumption DEF TokensInv, TokensType, RequestType, Steps, Token, NoRequest, OnToken, NoEntry
    <3>2. RequestShape'
      BY <3>0, <2>1 DEF RequestShape, LateIsOver, Begin, AskedOf
    <3>3. LateIsOver'
      BY <3>0, <2>1 DEF LateIsOver, RequestShape, MappedIsNotRevoked, Alive, Stored, Begin, AskedOf, Mapped
    <3>4. TimeLeftLongEnough'
      BY <3>0, <2>1 DEF TimeLeftLongEnough, RequestShape, Begin
    <3>5. FreshIsPrivate'
      BY <3>0, <2>1 DEF FreshIsPrivate, RequestShape, Begin
    <3>6. UnissuedIsUnlisted'
      BY <3>0, <2>1 DEF UnissuedIsUnlisted, Begin
    <3>7. BlacklistOutlivesToken'
      BY <3>0, <2>1 DEF BlacklistOutlivesToken, TimeLeftLongEnough, UnissuedIsUnlisted, RequestShape, Begin
    <3>8. MappedIsNotRevoked'
      BY <3>0, <2>1 DEF MappedIsNotRevoked, FreshIsPrivate, RequestShape, Begin
    <3> QED
      BY <3>1, <3>2, <3>3, <3>4, <3>5, <3>6, <3>7, <3>8 DEF TokensInv
  <2>2. CASE store # "redis"
    <3>0. /\ Mapped(t)
          /\ ~IsExpired(t)
          /\ Begin(r, t, "refresh", "blacklisted", expiresAt[t] - clock, AskedOf(t))
          /\ UNCHANGED <<store, clock, issued, expiresAt, tokens, refreshTokens, blacklist, redisErrors, handed>>
      BY <1>17, <2>2 DEF RefreshToken
    <3>1. TokensType'
      <4>1. /\ t \in 0 .. MaxTokens /\ expiresAt[t] - clock \in Nat /\ AskedOf(t) \in {"alive", "late"}
            /\ request \in [Requests -> RequestType]
        BY <3>0, TokensAssumption DEF TokensInv, TokensType, Token, IsExpired, AskedOf
      <4>2. [op |-> "refresh", at |-> "blacklisted", token |-> t, remaining |-> expiresAt[t] - clock,
             asked |-> AskedOf(t)] \in RequestType
        BY <4>1 DEF RequestType, Steps
      <4>3. request' \in [Requests -> RequestType]
        BY <3>0, <4>1, <4>2 DEF Begin
      <4> QED
        BY <3>0, <4>3 DEF TokensInv, TokensType
    <3> USE TokensAssumption DEF TokensInv, TokensType, RequestType, Steps, Token, NoRequest, OnToken, NoEntry
    <3>2. RequestShape'
      BY <3>0, <2>2 DEF RequestShape, LateIsOver, Begin, AskedOf
    <3>3. LateIsOver'
      <4>1. Alive(t) /\ t \in handed
        BY <3>0, <2>2 DEF MappedIsNotRevoked, Mapped, Alive, Stored, IsExpired
      <4>2. AskedOf(t) = "alive"
        BY <4>1 DEF AskedOf
      <4> QED
        BY <3>0, <4>2 DEF LateIsOver, RequestShape, Alive, Stored, Begin
    <3>4. TimeLeftLongEnough'
      <4>1. /\ request'[r].remaining = expiresAt[t] - clock /\ request'[r].token = t
            /\ \A q \in Requests : q # r => request'[q] = request[q]
            /\ expiresAt[t] \in Nat /\ clock \in Nat /\ clock' = clock /\ expiresAt' = expiresAt
        BY <3>0 DEF Begin
      <4>2. clock + (expiresAt[t] - clock) >= expiresAt[t]
        BY <4>1
      <4> QED
        BY <4>1, <4>2 DEF TimeLeftLongEnough
    <3>5. FreshIsPrivate'
      BY <3>0, <2>2 DEF FreshIsPrivate, RequestShape, Begin, IsExpired
    <3>6. UnissuedIsUnlisted'
      BY <3>0, <2>2 DEF UnissuedIsUnlisted, Begin
    <3>7. BlacklistOutlivesToken'
      BY <3>0, <2>2 DEF BlacklistOutlivesToken, TimeLeftLongEnough, UnissuedIsUnlisted, RequestShape, Begin
    <3>8. MappedIsNotRevoked'
      BY <3>0, <2>2 DEF MappedIsNotRevoked, FreshIsPrivate, RequestShape, Begin, IsExpired
    <3> QED
      BY <3>1, <3>2, <3>3, <3>4, <3>5, <3>6, <3>7, <3>8 DEF TokensInv
  <2> QED
    BY <2>1, <2>2
<1>18. ASSUME NEW r \in Requests, NEW t \in handed, Logout(r, t) PROVE TokensInv'
  <2>1. TokensType'
    BY <1>18, TokensAssumption DEF TokensInv, TokensType, RequestType, Steps, Token, NoRequest, OnToken, NoEntry,
       LateIsOver, Logout, Begin
  <2> USE TokensAssumption DEF TokensInv, TokensType, RequestType, Steps, Token, NoRequest, OnToken, NoEntry
  <2>2. RequestShape'
    BY <1>18 DEF RequestShape, LateIsOver, Logout, Begin
  <2>3. LateIsOver'
    BY <1>18 DEF LateIsOver, RequestShape, MappedIsNotRevoked, Alive, Stored, Logout, Begin
  <2>4. TimeLeftLongEnough'
    BY <1>18 DEF TimeLeftLongEnough, RequestShape, Logout, Begin
  <2>5. FreshIsPrivate'
    BY <1>18 DEF FreshIsPrivate, RequestShape, Logout, Begin
  <2>6. UnissuedIsUnlisted'
    BY <1>18 DEF UnissuedIsUnlisted, Logout, Begin
  <2>7. BlacklistOutlivesToken'
    BY <1>18 DEF BlacklistOutlivesToken, TimeLeftLongEnough, UnissuedIsUnlisted, RequestShape, Logout, Begin
  <2>8. MappedIsNotRevoked'
    BY <1>18 DEF MappedIsNotRevoked, FreshIsPrivate, RequestShape, Logout, Begin
  <2> QED
    BY <2>1, <2>2, <2>3, <2>4, <2>5, <2>6, <2>7, <2>8 DEF TokensInv
<1>19. ASSUME Second PROVE TokensInv'
  <2>1. TokensType'
    BY <1>19, TokensAssumption DEF TokensInv, TokensType, RequestType, Steps, Token, NoRequest, OnToken, NoEntry,
       LateIsOver, Second
  <2> USE TokensAssumption DEF TokensInv, TokensType, RequestType, Steps, Token, NoRequest, OnToken, NoEntry
  <2>2. RequestShape'
    BY <1>19 DEF RequestShape, LateIsOver, Second
  <2>3. LateIsOver'
    BY <1>19 DEF LateIsOver, RequestShape, MappedIsNotRevoked, Alive, Stored, Second
  <2>4. TimeLeftLongEnough'
    BY <1>19 DEF TimeLeftLongEnough, RequestShape, Second
  <2>5. FreshIsPrivate'
    BY <1>19 DEF FreshIsPrivate, RequestShape, Second
  <2>6. UnissuedIsUnlisted'
    BY <1>19 DEF UnissuedIsUnlisted, Second
  <2>7. BlacklistOutlivesToken'
    BY <1>19 DEF BlacklistOutlivesToken, TimeLeftLongEnough, UnissuedIsUnlisted, RequestShape, Second
  <2>8. MappedIsNotRevoked'
    BY <1>19 DEF MappedIsNotRevoked, FreshIsPrivate, RequestShape, Second
  <2> QED
    BY <2>1, <2>2, <2>3, <2>4, <2>5, <2>6, <2>7, <2>8 DEF TokensInv
<1>20. ASSUME UNCHANGED tokenVars PROVE TokensInv'
  <2>1. TokensType'
    BY <1>20, TokensAssumption DEF TokensInv, TokensType, RequestType, Steps, Token, NoRequest, OnToken, NoEntry,
       LateIsOver, tokenVars
  <2> USE TokensAssumption DEF TokensInv, TokensType, RequestType, Steps, Token, NoRequest, OnToken, NoEntry
  <2>2. RequestShape'
    BY <1>20 DEF RequestShape, LateIsOver, tokenVars
  <2>3. LateIsOver'
    BY <1>20 DEF LateIsOver, RequestShape, MappedIsNotRevoked, Alive, Stored, tokenVars
  <2>4. TimeLeftLongEnough'
    BY <1>20 DEF TimeLeftLongEnough, RequestShape, tokenVars
  <2>5. FreshIsPrivate'
    BY <1>20 DEF FreshIsPrivate, RequestShape, tokenVars
  <2>6. UnissuedIsUnlisted'
    BY <1>20 DEF UnissuedIsUnlisted, tokenVars
  <2>7. BlacklistOutlivesToken'
    BY <1>20 DEF BlacklistOutlivesToken, TimeLeftLongEnough, UnissuedIsUnlisted, RequestShape, tokenVars
  <2>8. MappedIsNotRevoked'
    BY <1>20 DEF MappedIsNotRevoked, FreshIsPrivate, RequestShape, tokenVars
  <2> QED
    BY <2>1, <2>2, <2>3, <2>4, <2>5, <2>6, <2>7, <2>8 DEF TokensInv
<1> QED
  BY <1>1, <1>2, <1>3, <1>4, <1>5, <1>6, <1>7, <1>8, <1>9, <1>10, <1>11, <1>12, <1>13, <1>14, <1>15, <1>16, <1>17,
     <1>18, <1>19, <1>20 DEF TokensNext

(* TokensInv is an invariant of the token manager.                         *)
LEMMA InvAlways == TokensSpec => []TokensInv
<1>1. NewCustomTokenManager => TokensInv
  BY InitInv
<1>2. TokensInv /\ [TokensNext]_tokenVars => TokensInv'
  BY StepInv
<1> QED
  BY <1>1, <1>2, PTL DEF TokensSpec

(* A token that was revoked or refreshed stays blacklisted at least as     *)
(* long as its claims would be accepted, and no refresh token leads to a   *)
(* revoked token, however the calls of the store and of the blacklist of   *)
(* concurrent requests interleave and whichever redis commands fail.       *)
THEOREM RevokedTokens == TokensSpec => []RevokedStaysRevoked
<1>1. TokensInv => RevokedStaysRevoked
  <2> SUFFICES ASSUME TokensInv PROVE TokensTypeOK
    BY DEF TokensInv, RevokedStaysRevoked
  <2>1. \A r \in Requests : request[r].at \in Steps /\ request[r].remaining >= 0
    BY DEF TokensInv, TokensType, RequestType
  <2>2. \A r \in Requests : request[r].token \in 0 .. issued
    BY DEF TokensInv, RequestShape
  <2> QED
    BY <2>1, <2>2 DEF TokensInv, TokensType, TokensTypeOK
<1> QED
  BY <1>1, InvAlways, PTL

-----------------------------------------------------------------------------
(* The refinement of TokenLife *)

LifeNow == [t \in Token |-> LifeOf(t)]
AskedNow == [r \in Requests |-> request[r].asked]

(* A step that changes neither the stored tokens nor the clock ends none.  *)
LEMMA LifeKept ==
    ASSUME UNCHANGED <<store, clock, issued, expiresAt, tokens>>
    PROVE  UNCHANGED LifeNow
BY DEF LifeNow, LifeOf, Alive, Stored

(* A call that goes on has asked what it has asked.                        *)
LEMMA AskedKept ==
    ASSUME TokensType, NEW r \in Requests, NEW step, GoTo(r, step)
    PROVE  UNCHANGED AskedNow
BY DEF TokensType, RequestType, GoTo, AskedNow

(* A call that returns refuses what was asked, or the client leaves.       *)
LEMMA AskedReturns ==
    ASSUME TokensType, NEW r \in Requests, Return(r)
    PROVE  UNCHANGED AskedNow \/ Life!Refuse(r) \/ Life!Leave(r)
<1>1. AskedNow' = [AskedNow EXCEPT ![r] = "idle"]
  BY DEF TokensType, AskedNow, Return, NoRequest
<1>2. AskedNow[r] \in {"idle", "alive", "late", "granted"}
  BY DEF TokensType, RequestType, AskedNow
<1>3. AskedNow[r] = "idle" => UNCHANGED AskedNow
  BY <1>1 DEF AskedNow
<1> QED
  BY <1>1, <1>2, <1>3 DEF Life!Refuse, Life!Leave, AskedNow

(* A call that is granted was asked while the token was alive.             *)
LEMMA AskedGranted ==
    ASSUME TokensType, NEW r \in Requests, Granted(r), request[r].asked = "alive"
    PROVE  Life!Grant(r)
<1>1. AskedNow' = [AskedNow EXCEPT ![r] = "granted"]
  BY DEF TokensType, AskedNow, Granted
<1> QED
  BY <1>1 DEF Life!Grant, AskedNow

(* The token GenerateToken makes is issued, and the others are what they   *)
(* were.                                                                   *)
LEMMA Generated ==
    ASSUME TokensInv, NEW r \in Requests, GenerateToken(r)
    PROVE  \E t \in Token : Life!Issue(t)
<1>1. /\ issued + 1 \in Token /\ clock \in Nat /\ issued \in Nat /\ issued < MaxTokens
      /\ expiresAt \in [Token -> Nat] /\ tokens \in [Token -> {"absent", "valid", "revoked"}]
  BY TokensAssumption DEF TokensInv, TokensType, Token, GenerateToken
<1>2. /\ UNCHANGED <<store, clock>> /\ issued' = issued + 1
      /\ expiresAt' = [expiresAt EXCEPT ![issued + 1] = clock + AccessTokenDuration]
      /\ tokens' = [tokens EXCEPT ![issued + 1] = "valid"]
  BY DEF GenerateToken
<1>3. PICK t \in Token : t = issued + 1
  BY <1>1
<1>4. LifeNow[t] = "none"
  BY <1>1, <1>3 DEF LifeNow, LifeOf
<1>5. LifeOf(t)' = "live"
  BY <1>1, <1>2, <1>3, TokensAssumption DEF LifeOf, Alive, Stored
<1>6. \A u \in Token \ {t} : LifeOf(u)' = LifeOf(u)
  BY <1>1, <1>2, <1>3 DEF LifeOf, Alive, Stored, Token
<1>7. LifeNow' = [LifeNow EXCEPT ![t] = "live"]
  BY <1>5, <1>6 DEF LifeNow
<1> QED
  BY <1>4, <1>7 DEF Life!Issue, LifeNow

(* A step that issues no token and revives none only ends tokens.          *)
LEMMA OnlyEnds ==
    ASSUME UNCHANGED issued, \A t \in Token : Alive(t)' => Alive(t)
    PROVE  UNCHANGED LifeNow \/ \E ended \in SUBSET Token : Life!End(ended)
<1> DEFINE S == {t \in Token : LifeOf(t) = "live" /\ LifeOf(t)' = "ended"}
<1>0. \A t \in Token : LifeOf(t)' = LifeOf(t) \/ t \in S
  BY DEF LifeOf
<1>1. CASE S = {}
  BY <1>0, <1>1 DEF LifeNow
<1>2. CASE S # {}
  <2>1. S \in SUBSET Token /\ \A t \in S : LifeNow[t] = "live"
    BY DEF LifeNow
  <2>2. LifeNow' = [t \in Token |-> IF t \in S THEN "ended" ELSE LifeNow[t]]
    BY <1>0 DEF LifeNow
  <2>3. Life!End(S)
    BY <1>2, <2>1, <2>2 DEF Life!End, LifeNow
  <2> QED
    BY <2>1, <2>3
<1> QED
  BY <1>1, <1>2

(* A request to validate or refresh a token that was handed out asks.      *)
LEMMA Asks ==
    ASSUME TokensInv, NEW r \in Requests, NEW t \in handed, NEW op, NEW step, NEW left,
           Begin(r, t, op, step, left, AskedOf(t))
    PROVE  t \in Token /\ Life!Ask(r, t)
<1>1. t \in Token /\ t \in 1 .. issued /\ issued \in Nat
  BY TokensAssumption DEF TokensInv, TokensType, Token
<1>2. AskedNow[r] = "idle"
  BY DEF TokensInv, RequestShape, Begin, NoRequest, AskedNow
<1>3. AskedNow' = [AskedNow EXCEPT ![r] = AskedOf(t)]
  BY DEF TokensInv, TokensType, AskedNow, Begin
<1>4. LifeNow[t] # "none" /\ AskedOf(t) = IF LifeNow[t] = "live" THEN "alive" ELSE "late"
  BY <1>1 DEF LifeNow, LifeOf, AskedOf
<1> QED
  BY <1>1, <1>2, <1>3, <1>4 DEF Life!Ask, LifeNow, AskedNow

(* Every step of the manager is a step of TokenLife or changes nothing of  *)
(* what TokenLife speaks of.                                               *)
LEMMA StepRefines ==
    ASSUME TokensInv, [TokensNext]_tokenVars
    PROVE  [Life!LifeNext]_(Life!lifeVars)
<1> DEFINE Goal == [Life!LifeNext]_(Life!lifeVars)
<1>0. TokensType
  BY DEF TokensInv
<1>a. UNCHANGED <<LifeNow, AskedNow>> => Goal
  BY DEF Life!lifeVars, LifeNow, AskedNow
<1>b. ASSUME UNCHANGED LifeNow, NEW r \in Requests, Life!Refuse(r) \/ Life!Leave(r) \/ Life!Grant(r) PROVE Goal
  BY <1>b DEF Life!LifeNext, LifeNow
<1>c. ASSUME UNCHANGED LifeNow, NEW r \in Requests, Return(r) PROVE Goal
  BY <1>0, <1>a, <1>b, <1>c, AskedReturns
<1>d. ASSUME UNCHANGED LifeNow, NEW r \in Requests, NEW step, GoTo(r, step) PROVE Goal
  BY <1>0, <1>a, <1>d, AskedKept
<1>e. ASSUME UNCHANGED LifeNow, NEW r \in Requests, Granted(r), request[r].asked = "alive" PROVE Goal
  BY <1>0, <1>b, <1>e, AskedGranted
<1>f. ASSUME UNCHANGED LifeNow, NEW r \in Requests, NEW t \in handed, NEW op, NEW step, NEW left,
             Begin(r, t, op, step, left, AskedOf(t))
      PROVE  Goal
  <2>1. t \in Token /\ Life!Ask(r, t)
    BY <1>f, Asks
  <2> QED
    BY <1>f, <2>1 DEF Life!LifeNext, LifeNow
<1>g. ASSUME UNCHANGED <<AskedNow, issued>>, \A t \in Token : Alive(t)' => Alive(t)
      PROVE  Goal
  <2>1. UNCHANGED LifeNow \/ \E ended \in SUBSET Token : Life!End(ended)
    BY <1>g, OnlyEnds
  <2> QED
    BY <1>a, <1>g, <2>1 DEF Life!LifeNext, AskedNow
<1> HIDE DEF Goal
<1>1. ASSUME NEW r \in Requests, Login(r) PROVE Goal
  <2>1. UNCHANGED LifeNow
    BY <1>1, LifeKept DEF Login
  <2>2. UNCHANGED AskedNow
    BY <1>1 DEF Login, Begin, TokensInv, TokensType, RequestShape, NoRequest, AskedNow
  <2> QED
    BY <1>a, <2>1, <2>2
<1>2. ASSUME NEW r \in Requests, GenerateToken(r) PROVE Goal
  <2>1. \E t \in Token : Life!Issue(t)
    BY <1>2, Generated
  <2>2. CASE store = "memory" /\ request[r].op = "refresh"
    <3>1. Granted(r) /\ request[r].asked = "alive"
      BY <1>2, <2>2 DEF GenerateToken, TokensInv, LateIsOver
    <3>2. Life!Grant(r)
      BY <1>0, <3>1, AskedGranted
    <3> QED
      BY <2>1, <3>2 DEF Goal, Life!LifeNext
  <2>3. ASSUME UNCHANGED AskedNow PROVE Goal
    BY <2>1, <2>3 DEF Goal, Life!LifeNext, AskedNow
  <2>4. CASE store = "memory" /\ request[r].op # "refresh"
    <3>1. Return(r) /\ request[r].asked = "idle"
      BY <1>2, <2>4 DEF GenerateToken, TokensInv, LateIsOver
    <3>2. UNCHANGED AskedNow
      BY <1>0, <3>1 DEF TokensType, Return, NoRequest, AskedNow
    <3> QED
      BY <2>3, <3>2
  <2>5. CASE store # "memory"
    <3>1. GoToWith(r, "storeRefresh", issued + 1)
      BY <1>2, <2>5 DEF GenerateToken
    <3>2. UNCHANGED AskedNow
      BY <1>0, <3>1 DEF GoToWith, TokensType, RequestType, AskedNow
    <3> QED
      BY <2>3, <3>2
  <2> QED
    BY <2>2, <2>4, <2>5
<1>3. ASSUME NEW r \in Requests, StoreRefreshToken(r) PROVE Goal
  <2>1. UNCHANGED LifeNow
    BY <1>3, LifeKept DEF StoreRefreshToken
  <2>2. request[r].op = "refresh" => request[r].asked = "alive"
    BY <1>3 DEF StoreRefreshToken, TokensInv, LateIsOver
  <2> QED
    BY <1>3, <1>c, <1>e, <2>1, <2>2 DEF StoreRefreshToken
<1>4. ASSUME NEW r \in Requests, CheckBlacklist(r) PROVE Goal
  <2>1. UNCHANGED LifeNow
    BY <1>4, LifeKept DEF CheckBlacklist
  <2> QED
    BY <1>4, <1>c, <1>d, <2>1 DEF CheckBlacklist
<1>5. ASSUME NEW r \in Requests, CheckStore(r) PROVE Goal
  <2>1. UNCHANGED LifeNow
    BY <1>5, LifeKept DEF CheckStore
  <2>2. IsTokenValid(request[r].token) => request[r].asked = "alive"
    <3>1. request[r].at = "valid" /\ request[r].token \in Token /\ store \in {"memory", "redis"}
      BY <1>5, TokensAssumption DEF CheckStore, TokensInv, TokensType, RequestShape, OnToken, Token
    <3>2. request[r].op # "logout" => request[r].asked \in {"alive", "late"}
      BY <3>1 DEF TokensInv, LateIsOver, OnToken
    <3>3. IsTokenValid(request[r].token) => Alive(request[r].token)
      BY <3>1, TokensAssumption DEF IsTokenValid, Alive, Stored, IsExpired, TokensInv, TokensType
    <3> QED
      BY <3>1, <3>2, <3>3 DEF TokensInv, LateIsOver
  <2> QED
    BY <1>5, <1>c, <1>e, <2>1, <2>2 DEF CheckStore
<1>6. ASSUME NEW r \in Requests, GetToken(r) PROVE Goal
  <2>1. UNCHANGED LifeNow
    BY <1>6, LifeKept DEF GetToken
  <2>2. CASE Stored(request[r].token) /\ ~IsExpired(request[r].token)
    BY <1>6, <1>0, <1>a, <2>1, <2>2 DEF GetToken, GoToWith, TokensType, RequestType, AskedNow
  <2>3. CASE ~(Stored(request[r].token) /\ ~IsExpired(request[r].token))
    BY <1>6, <1>c, <2>1, <2>3 DEF GetToken
  <2> QED
    BY <2>2, <2>3
<1>7. ASSUME NEW r \in Requests, RevokeToken(r) PROVE Goal
  <2>1. CASE UNCHANGED tokens
    <3>1. UNCHANGED LifeNow
      BY <1>7, <2>1, LifeKept DEF RevokeToken
    <3> QED
      BY <1>7, <1>c, <1>d, <3>1 DEF RevokeToken
  <2>2. CASE store = "memory" /\ Stored(request[r].token)
    <3>1. /\ tokens' = [tokens EXCEPT ![request[r].token] = "revoked"] /\ GoTo(r, "ban")
          /\ UNCHANGED <<store, clock, issued, expiresAt>>
      BY <1>7, <2>2 DEF RevokeToken
    <3>2. \A t \in Token : Alive(t)' => Alive(t)
      BY <1>0, <3>1 DEF TokensType, Alive, Stored
    <3> QED
      BY <1>0, <1>g, <3>1, <3>2, AskedKept
  <2> QED
    BY <1>7, <2>1, <2>2 DEF RevokeToken
<1>8. ASSUME NEW r \in Requests, DeleteToken(r) PROVE Goal
  <2>1. \A t \in Token : Alive(t)' => Alive(t)
    BY <1>0, <1>8 DEF TokensType, DeleteToken, Alive, Stored
  <2> QED
    BY <1>0, <1>8, <1>g, <2>1, AskedKept DEF DeleteToken
<1>9. ASSUME NEW r \in Requests, DeleteRefresh(r) PROVE Goal
  BY <1>9, <1>d, LifeKept DEF DeleteRefresh
<1>10. ASSUME NEW r \in Requests, AddToBlacklist(r) PROVE Goal
  BY <1>10, <1>c, <1>d, LifeKept DEF AddToBlacklist
<1>11. ASSUME NEW r \in Requests, GetUserByID(r) PROVE Goal
  BY <1>11, <1>c, <1>d, LifeKept DEF GetUserByID
<1>12. ASSUME NEW r \in Requests, RedisFails(r) \/ ClientLeaves(r) PROVE Goal
  BY <1>12, <1>c, LifeKept DEF RedisFails, ClientLeaves
<1>13. ASSUME NEW r \in Requests, CleanupExpiredTokens(r) PROVE Goal
  <2>1. \A t \in Token : Alive(t)' => Alive(t)
    BY <1>0, <1>13, TokensAssumption DEF TokensType, CleanupExpiredTokens, Alive, Stored, IsExpired
  <2> QED
    BY <1>0, <1>13, <1>g, <2>1, AskedKept DEF CleanupExpiredTokens
<1>14. ASSUME NEW r \in Requests, CleanupBlacklist(r) PROVE Goal
  BY <1>14, <1>c, LifeKept DEF CleanupBlacklist
<1>15. ASSUME NEW r \in Requests, NEW t \in handed, ValidateToken(r, t) \/ RefreshToken(r, t) PROVE Goal
  <2>1. UNCHANGED LifeNow
    BY <1>15, LifeKept DEF ValidateToken, RefreshToken
  <2> QED
    BY <1>15, <1>f, <2>1 DEF ValidateToken, RefreshToken
<1>16. ASSUME NEW r \in Requests, NEW t \in handed, Logout(r, t) PROVE Goal
  <2>1. UNCHANGED LifeNow
    BY <1>16, LifeKept DEF Logout
  <2>2. UNCHANGED AskedNow
    BY <1>16 DEF Logout, Begin, TokensInv, TokensType, RequestShape, NoRequest, AskedNow
  <2> QED
    BY <1>a, <2>1, <2>2
<1>17. ASSUME Second PROVE Goal
  <2>1. \A t \in Token : Alive(t)' => Alive(t)
    BY <1>0, <1>17, TokensAssumption DEF TokensType, Second, Alive, Stored
  <2> QED
    <3>1. UNCHANGED <<AskedNow, issued>>
      BY <1>17 DEF Second, AskedNow
    <3> QED
      BY <1>g, <2>1, <3>1
<1>18. ASSUME UNCHANGED tokenVars PROVE Goal
  <2>1. UNCHANGED AskedNow
    BY <1>18 DEF tokenVars, AskedNow
  <2>2. UNCHANGED LifeNow
    BY <1>18, LifeKept DEF tokenVars
  <2> QED
    BY <1>a, <2>1, <2>2
<1>19. Goal
  BY <1>1, <1>2, <1>3, <1>4, <1>5, <1>6, <1>7, <1>8, <1>9, <1>10, <1>11, <1>12, <1>13, <1>14, <1>15, <1>16, <1>17,
     <1>18 DEF TokensNext
<1> QED
  BY <1>19 DEF Goal

(* The token manager with its store and its blacklist keeps the promise of *)
(* TokenLife: a token that has ended stays ended, and a request that began *)
(* after its token's end is never granted, whatever the interleaving.      *)
THEOREM TokensKeepTokenLife == TokensSpec => KeepsTokenLife
<1>1. NewCustomTokenManager => Life!LifeInit
  BY TokensAssumption DEF NewCustomTokenManager, Life!LifeInit, LifeOf, Token, NoRequest
<1>2. TokensInv /\ [TokensNext]_tokenVars => [Life!LifeNext]_(Life!lifeVars)
  BY StepRefines
<1> QED
  BY <1>1, <1>2, InvAlways, PTL DEF TokensSpec, KeepsTokenLife, Life!LifeSpec

-----------------------------------------------------------------------------
(* The second factor.                                                      *)

Storing == {"set", "hset", "expire", "type", "expireTypes"}
IsWriting(c) == mfaClient[c].pc \in Writing

(* What a write that nothing has disturbed has done so far: the fields it  *)
(* need no more send are there, and so is what its earlier commands left.  *)
ProgressOf(c) ==
    /\ mfaClient[c].pc = "hset" =>
        /\ "secret" \notin mfaClient[c].left => settings.secret = mfaClient[c].secret
        /\ mfaClient[c].left # {}
    /\ mfaClient[c].pc \in {"expire", "type", "expireTypes"} => settings.secret = mfaClient[c].secret
    /\ mfaClient[c].pc = "expireTypes" => listed
    /\ mfaClient[c].pc = "hdel" => settings = Absent

(* While somebody writes nothing is known of the enrolment, and a write    *)
(* that is alone has no other beside it.                                   *)
WriterOf(c) ==
    IsWriting(c) =>
        /\ enrolled = Unsure
        /\ mfaClient[c].pc \in IF mfaStore = "memory" THEN {"set", "disable"} ELSE Writing \ {"set", "disable"}
        /\ mfaClient[c].pc \in Storing => mfaClient[c].secret \in Secrets
        /\ mfaClient[c].alone => ProgressOf(c) /\ \A d \in MfaClients : d # c => ~IsWriting(d)

(* A login that is sure of the enrolment still is right about it.          *)
SureOf(c) ==
    /\ mfaClient[c].sure => enrolled \in Secrets
    /\ (mfaClient[c].pc = "in" /\ mfaClient[c].sure) => mfaClient[c].proved

MfaInv ==
    /\ MfaTypeOK /\ EnrolmentHolds
    /\ \A c \in MfaClients : WriterOf(c)
    /\ \A c \in MfaClients : SureOf(c)

(* How the actions change a client's record.                               *)
LEMMA ClientMoves ==
    ASSUME mfaClient \in [MfaClients -> Client], NEW c \in MfaClients,
           NEW pc \in {"idle", "list", "code", "in"} \cup Writing, ClientGoes(c, pc)
    PROVE  /\ mfaClient' \in [MfaClients -> Client]
           /\ \A d \in MfaClients : d # c => mfaClient'[d] = mfaClient[d]
           /\ mfaClient'[c].pc = pc /\ mfaClient'[c].secret = mfaClient[c].secret
           /\ mfaClient'[c].left = mfaClient[c].left /\ mfaClient'[c].alone = mfaClient[c].alone
           /\ mfaClient'[c].sure = mfaClient[c].sure /\ mfaClient'[c].proved = mfaClient[c].proved
  BY DEF ClientGoes, Client

(* A client that ends is back at the start, whatever it had learnt.        *)
LEMMA ClientStops ==
    ASSUME mfaClient \in [MfaClients -> Client], NEW c \in MfaClients, ClientEnds(c)
    PROVE  /\ mfaClient' \in [MfaClients -> Client]
           /\ \A d \in MfaClients : d # c => mfaClient'[d] = mfaClient[d]
           /\ mfaClient'[c].pc = "idle" /\ ~mfaClient'[c].sure /\ ~mfaClient'[c].alone
  BY DEF ClientEnds, Client, IdleClient, NoSecret

(* A write of the settings starts (EnableMFA, DisableMFA): from here on no  *)
(* client may rely on the enrolment it read.                               *)
LEMMA WriteBegins ==
    ASSUME mfaClient \in [MfaClients -> Client], NEW c \in MfaClients, NEW pc \in Writing,
           NEW s \in Secrets \cup {NoSecret}, BeginWrite(c, pc, s)
    PROVE  /\ mfaClient' \in [MfaClients -> Client]
           /\ \A d \in MfaClients : d # c =>
                /\ mfaClient'[d].pc = mfaClient[d].pc /\ mfaClient'[d].secret = mfaClient[d].secret
                /\ ~mfaClient'[d].alone /\ ~mfaClient'[d].sure
           /\ mfaClient'[c].pc = pc /\ mfaClient'[c].secret = s /\ mfaClient'[c].left = {"secret", "rest"}
           /\ mfaClient'[c].alone => \A d \in MfaClients : ~IsWriting(d)
           /\ ~mfaClient'[c].sure
           /\ enrolled' = Unsure
<1>1. PICK alone \in BOOLEAN :
        /\ mfaClient' = [d \in MfaClients |->
             IF d = c THEN [IdleClient EXCEPT !.pc = pc, !.secret = s, !.left = {"secret", "rest"}, !.alone = alone]
             ELSE [mfaClient[d] EXCEPT !.sure = FALSE, !.alone = FALSE]]
        /\ alone => \A d \in MfaClients : ~IsWriting(d)
  BY DEF BeginWrite, IsWriting
<1>2. enrolled' = Unsure
  BY DEF BeginWrite
<1> DEFINE own == [IdleClient EXCEPT !.pc = pc, !.secret = s, !.left = {"secret", "rest"}, !.alone = alone]
<1>3. /\ own \in Client /\ own.pc = pc /\ own.secret = s /\ own.left = {"secret", "rest"}
      /\ own.alone = alone /\ ~own.sure
  BY DEF Client, IdleClient
<1>4. ASSUME NEW r \in Client
      PROVE  /\ [r EXCEPT !.sure = FALSE, !.alone = FALSE] \in Client
             /\ [r EXCEPT !.sure = FALSE, !.alone = FALSE].pc = r.pc
             /\ [r EXCEPT !.sure = FALSE, !.alone = FALSE].secret = r.secret
             /\ ~[r EXCEPT !.sure = FALSE, !.alone = FALSE].alone
             /\ ~[r EXCEPT !.sure = FALSE, !.alone = FALSE].sure
  BY DEF Client
<1>5. mfaClient'[c] = own
  BY <1>1
<1>6. \A d \in MfaClients : d # c => mfaClient'[d] = [mfaClient[d] EXCEPT !.sure = FALSE, !.alone = FALSE]
  BY <1>1
<1> HIDE DEF own
<1>7. \A d \in MfaClients : d # c => mfaClient'[d] \in Client
  BY <1>4, <1>6
<1>8. mfaClient' \in [MfaClients -> Client]
  BY <1>1, <1>3, <1>5, <1>7
<1> QED
  BY <1>1, <1>2, <1>3, <1>4, <1>5, <1>6, <1>8

(* An authenticator that was just made satisfies the invariant.            *)
LEMMA MfaInitInv == MfaInit => MfaInv
<1> SUFFICES ASSUME NEW s \in MfaStores, NEW force \in BOOLEAN, NewMFAAuthenticator(s, force) PROVE MfaInv
  BY DEF MfaInit
<1>1. MfaTypeOK
  <2>1. mfaClient \in [MfaClients -> Client]
    BY DEF NewMFAAuthenticator, Client, IdleClient
  <2>2. /\ settingsUntil \in 1 .. Never /\ listedUntil \in 1 .. Never
        /\ period \in 0 .. LastPeriod /\ mfaErrors \in 0 .. MaxMfaErrors
    BY MfaAssumption DEF NewMFAAuthenticator, Never
  <2> QED
    BY <2>1, <2>2 DEF NewMFAAuthenticator, MfaTypeOK, Absent
<1>2. EnrolmentHolds
  BY MfaAssumption DEF NewMFAAuthenticator, EnrolmentHolds, ListUserMFA, MemoryList, RedisList, Off
<1>3. \A c \in MfaClients : WriterOf(c) /\ SureOf(c)
  BY DEF NewMFAAuthenticator, WriterOf, SureOf, IsWriting, IdleClient, Writing
<1> QED
  BY <1>1, <1>2, <1>3 DEF MfaInv

(* No step of a login, a write or the clock breaks it.                     *)
LEMMA MfaStepInv ==
    ASSUME MfaInv, [MfaNext]_mfaVars
    PROVE  MfaInv'
<1>0. /\ mfaClient \in [MfaClients -> Client] /\ mfaStore \in {"memory", "redis"}
      /\ Off \notin Secrets /\ Unsure \notin Secrets /\ NoSecret \notin Secrets /\ Off # Unsure
      /\ KeyLife \in Nat \ {0} /\ LastPeriod \in Nat /\ MaxMfaErrors \in Nat
  BY MfaAssumption DEF MfaInv, MfaTypeOK, Off, Unsure, NoSecret
<1>1. ASSUME NEW c \in MfaClients, BeginLogin(c) PROVE MfaInv'
  <2>1. /\ mfaClient' \in [MfaClients -> Client]
        /\ \A d \in MfaClients : d # c => mfaClient'[d] = mfaClient[d]
        /\ mfaClient'[c].pc = "list" /\ (mfaClient'[c].sure => enrolled \in Secrets)
    <3> DEFINE sure == enrolled \in Secrets
    <3>1. mfaClient' = [mfaClient EXCEPT ![c] = [IdleClient EXCEPT !.pc = "list", !.sure = sure]]
      BY <1>1 DEF BeginLogin
    <3>2. sure \in BOOLEAN
      OBVIOUS
    <3> HIDE DEF sure
    <3>3. /\ mfaClient' \in [MfaClients -> Client]
          /\ \A d \in MfaClients : d # c => mfaClient'[d] = mfaClient[d]
          /\ mfaClient'[c].pc = "list" /\ mfaClient'[c].sure = sure
      BY <1>0, <3>1, <3>2 DEF Client, IdleClient, NoSecret
    <3> QED
      BY <3>3 DEF sure
  <2>2. MfaTypeOK'
    BY <1>0, <1>1, <2>1 DEF MfaInv, MfaTypeOK, BeginLogin, ClientAt, mfaKeys
  <2>3. EnrolmentHolds'
    BY <1>0, <1>1, <2>1 DEF MfaInv, MfaTypeOK, BeginLogin, ClientAt, EnrolmentHolds, ListUserMFA, MemoryList,
       RedisList, mfaKeys
  <2>4. ASSUME NEW d \in MfaClients PROVE WriterOf(d)'
    BY <1>0, <1>1, <2>1 DEF MfaInv, MfaTypeOK, BeginLogin, ClientAt, WriterOf, IsWriting, ProgressOf, mfaKeys,
       Writing, Storing, Absent, NoSecret, Off, Unsure
  <2>5. ASSUME NEW d \in MfaClients PROVE SureOf(d)'
    BY <1>0, <1>1, <2>1 DEF MfaInv, MfaTypeOK, BeginLogin, ClientAt, SureOf, mfaKeys
  <2> QED
    BY <2>2, <2>3, <2>4, <2>5 DEF MfaInv
<1>2. ASSUME NEW c \in MfaClients, PreAuthenticate(c) PROVE MfaInv'
  <2>1. /\ mfaClient' \in [MfaClients -> Client]
        /\ \A d \in MfaClients : d # c => mfaClient'[d] = mfaClient[d]
        /\ mfaClient'[c].pc \in {"idle", "code", "in"}
        /\ mfaClient'[c].sure => mfaClient[c].sure
        /\ mfaClient'[c].pc = "in" => ~ListUserMFA
        /\ mfaErrors' \in 0 .. MaxMfaErrors
    <3>1. PICK err \in {ListError} \cup IF MayFail THEN {"redis"} ELSE {} :
            /\ mfaErrors' = IF err = "redis" THEN mfaErrors + 1 ELSE mfaErrors
            /\ IF Tolerated(err)
               THEN ClientGoes(c, IF forceMFA \/ (err # "redis" /\ ListUserMFA) THEN "code" ELSE "in")
               ELSE ClientEnds(c)
      BY <1>2 DEF PreAuthenticate
    <3>2. mfaErrors' \in 0 .. MaxMfaErrors
      <4>1. err = "redis" => mfaErrors < MaxMfaErrors
        BY <3>1 DEF MayFail, ListError
      <4> QED
        BY <1>0, <3>1, <4>1 DEF MfaInv, MfaTypeOK
    <3>3. CASE ~Tolerated(err)
      BY <1>0, <3>1, <3>2, <3>3, ClientStops
    <3>4. CASE Tolerated(err)
      <4>1. err # "redis"
        BY <3>4 DEF Tolerated
      <4>2. PICK pc \in {"code", "in"} : ClientGoes(c, pc) /\ (pc = "in" => ~ListUserMFA)
        BY <3>1, <3>4, <4>1
      <4> QED
        BY <1>0, <3>2, <4>2, ClientMoves
    <3> QED
      BY <3>3, <3>4
  <2>2. MfaTypeOK'
    BY <1>0, <1>2, <2>1 DEF MfaInv, MfaTypeOK, PreAuthenticate, ClientAt, mfaKeys
  <2>3. EnrolmentHolds'
    BY <1>0, <1>2, <2>1 DEF MfaInv, MfaTypeOK, PreAuthenticate, ClientAt, EnrolmentHolds, ListUserMFA, MemoryList,
       RedisList, mfaKeys
  <2>4. ASSUME NEW d \in MfaClients PROVE WriterOf(d)'
    BY <1>0, <1>2, <2>1 DEF MfaInv, MfaTypeOK, PreAuthenticate, ClientAt, WriterOf, IsWriting, ProgressOf, mfaKeys,
       Writing, Storing, Absent, NoSecret, Off, Unsure
  <2>5. ASSUME NEW d \in MfaClients PROVE SureOf(d)'
    BY <1>0, <1>2, <2>1 DEF MfaInv, MfaTypeOK, PreAuthenticate, ClientAt, SureOf, mfaKeys, Writing, Storing,
       Unsure, EnrolmentHolds, WriterOf, IsWriting, ProgressOf, ListUserMFA, MemoryList, RedisList, Never
  <2> QED
    BY <2>2, <2>3, <2>4, <2>5 DEF MfaInv
<1>3. ASSUME NEW c \in MfaClients, RequireMFA(c) PROVE MfaInv'
  <2>1. /\ mfaClient' \in [MfaClients -> Client]
        /\ \A d \in MfaClients : d # c => mfaClient'[d] = mfaClient[d]
        /\ mfaClient'[c].pc = "idle" /\ ~mfaClient'[c].sure /\ ~mfaClient'[c].alone
    BY <1>0, <1>3, ClientStops DEF RequireMFA
  <2>2. MfaTypeOK'
    BY <1>0, <1>3, <2>1 DEF MfaInv, MfaTypeOK, RequireMFA, ClientAt, mfaKeys
  <2>3. EnrolmentHolds'
    BY <1>0, <1>3, <2>1 DEF MfaInv, MfaTypeOK, RequireMFA, ClientAt, EnrolmentHolds, ListUserMFA, MemoryList,
       RedisList, mfaKeys
  <2>4. ASSUME NEW d \in MfaClients PROVE WriterOf(d)'
    BY <1>0, <1>3, <2>1 DEF MfaInv, MfaTypeOK, RequireMFA, ClientAt, WriterOf, IsWriting, ProgressOf, mfaKeys,
       Writing, Storing, Absent, NoSecret, Off, Unsure
  <2>5. ASSUME NEW d \in MfaClients PROVE SureOf(d)'
    BY <1>0, <1>3, <2>1 DEF MfaInv, MfaTypeOK, RequireMFA, ClientAt, SureOf, mfaKeys
  <2> QED
    BY <2>2, <2>3, <2>4, <2>5 DEF MfaInv
<1>4. ASSUME NEW c \in MfaClients, LoginOver(c) PROVE MfaInv'
  <2>1. /\ mfaClient' \in [MfaClients -> Client]
        /\ \A d \in MfaClients : d # c => mfaClient'[d] = mfaClient[d]
        /\ mfaClient'[c].pc = "idle" /\ ~mfaClient'[c].sure /\ ~mfaClient'[c].alone
    BY <1>0, <1>4, ClientStops DEF LoginOver
  <2>2. MfaTypeOK'
    BY <1>0, <1>4, <2>1 DEF MfaInv, MfaTypeOK, LoginOver, ClientAt, mfaKeys
  <2>3. EnrolmentHolds'
    BY <1>0, <1>4, <2>1 DEF MfaInv, MfaTypeOK, LoginOver, ClientAt, EnrolmentHolds, ListUserMFA, MemoryList,
       RedisList, mfaKeys
  <2>4. ASSUME NEW d \in MfaClients PROVE WriterOf(d)'
    BY <1>0, <1>4, <2>1 DEF MfaInv, MfaTypeOK, LoginOver, ClientAt, WriterOf, IsWriting, ProgressOf, mfaKeys,
       Writing, Storing, Absent, NoSecret, Off, Unsure
  <2>5. ASSUME NEW d \in MfaClients PROVE SureOf(d)'
    BY <1>0, <1>4, <2>1 DEF MfaInv, MfaTypeOK, LoginOver, ClientAt, SureOf, mfaKeys
  <2> QED
    BY <2>2, <2>3, <2>4, <2>5 DEF MfaInv
<1>5. ASSUME NEW c \in MfaClients, NEW code \in Codes, CompleteMFA(c, code) PROVE MfaInv'
  <2>1. /\ mfaClient' \in [MfaClients -> Client]
        /\ \A d \in MfaClients : d # c => mfaClient'[d] = mfaClient[d]
        /\ mfaClient'[c].pc \in {"idle", "in"}
        /\ mfaClient'[c].sure => mfaClient[c].sure
        /\ mfaClient'[c].pc = "in" => mfaClient'[c].proved
    <3>1. CASE VerifyChallenge(code)
      BY <1>0, <1>5, <3>1 DEF CompleteMFA, Client
    <3>2. CASE ~VerifyChallenge(code)
      BY <1>0, <1>5, <3>2, ClientStops DEF CompleteMFA
    <3> QED
      BY <3>1, <3>2
  <2>2. MfaTypeOK'
    BY <1>0, <1>5, <2>1 DEF MfaInv, MfaTypeOK, CompleteMFA, ClientAt, mfaKeys
  <2>3. EnrolmentHolds'
    BY <1>0, <1>5, <2>1 DEF MfaInv, MfaTypeOK, CompleteMFA, ClientAt, EnrolmentHolds, ListUserMFA, MemoryList,
       RedisList, mfaKeys
  <2>4. ASSUME NEW d \in MfaClients PROVE WriterOf(d)'
    BY <1>0, <1>5, <2>1 DEF MfaInv, MfaTypeOK, CompleteMFA, ClientAt, WriterOf, IsWriting, ProgressOf, mfaKeys,
       Writing, Storing, Absent, NoSecret, Off, Unsure
  <2>5. ASSUME NEW d \in MfaClients PROVE SureOf(d)'
    BY <1>0, <1>5, <2>1 DEF MfaInv, MfaTypeOK, CompleteMFA, ClientAt, SureOf, mfaKeys
  <2> QED
    BY <2>2, <2>3, <2>4, <2>5 DEF MfaInv
<1>6. ASSUME NEW c \in MfaClients, NEW reset \in BOOLEAN, NEW code \in Codes \cup {NoCode}, Setup(c, reset,
    code) PROVE MfaInv'
  <2>1. /\ mfaClient' \in [MfaClients -> Client]
        /\ \A d \in MfaClients : d # c =>
             /\ mfaClient'[d].pc = mfaClient[d].pc /\ mfaClient'[d].secret = mfaClient[d].secret
             /\ ~mfaClient'[d].alone /\ ~mfaClient'[d].sure
        /\ mfaClient'[c].pc \in IF mfaStore = "memory" THEN {"set"} ELSE {"hset"}
        /\ mfaClient'[c].secret \in Secrets /\ mfaClient'[c].left = {"secret", "rest"}
        /\ mfaClient'[c].alone => \A d \in MfaClients : ~IsWriting(d)
        /\ ~mfaClient'[c].sure
        /\ enrolled' = Unsure
    <3>1. PICK w \in Secrets : BeginWrite(c, SetAt, w)
      BY <1>6 DEF Setup, NewTOTP
    <3>2. SetAt \in Writing
      BY DEF Writing, SetAt
    <3> QED
      BY <1>0, <3>1, <3>2, WriteBegins DEF SetAt
  <2>2. MfaTypeOK'
    BY <1>0, <1>6, <2>1 DEF MfaInv, MfaTypeOK, Setup, ClientAt, mfaKeys
  <2>3. EnrolmentHolds'
    BY <1>0, <1>6, <2>1 DEF MfaInv, MfaTypeOK, Setup, ClientAt, EnrolmentHolds, ListUserMFA, MemoryList, RedisList,
       mfaKeys
  <2>4. ASSUME NEW d \in MfaClients PROVE WriterOf(d)'
    BY <1>0, <1>6, <2>1 DEF MfaInv, MfaTypeOK, Setup, ClientAt, WriterOf, IsWriting, ProgressOf, mfaKeys
  <2>5. ASSUME NEW d \in MfaClients PROVE SureOf(d)'
    BY <1>0, <1>6, <2>1 DEF MfaInv, MfaTypeOK, Setup, ClientAt, SureOf, mfaKeys
  <2> QED
    BY <2>2, <2>3, <2>4, <2>5 DEF MfaInv
<1>7. ASSUME NEW c \in MfaClients, NEW s \in Secrets, Enroll(c, s) PROVE MfaInv'
  <2>1. /\ mfaClient' \in [MfaClients -> Client]
        /\ \A d \in MfaClients : d # c =>
             /\ mfaClient'[d].pc = mfaClient[d].pc /\ mfaClient'[d].secret = mfaClient[d].secret
             /\ ~mfaClient'[d].alone /\ ~mfaClient'[d].sure
        /\ mfaClient'[c].pc \in IF mfaStore = "memory" THEN {"set"} ELSE {"hset"}
        /\ mfaClient'[c].secret \in Secrets /\ mfaClient'[c].left = {"secret", "rest"}
        /\ mfaClient'[c].alone => \A d \in MfaClients : ~IsWriting(d)
        /\ ~mfaClient'[c].sure
        /\ enrolled' = Unsure
    <3>1. PICK w \in Secrets : BeginWrite(c, SetAt, w)
      BY <1>7 DEF Enroll
    <3>2. SetAt \in Writing
      BY DEF Writing, SetAt
    <3> QED
      BY <1>0, <3>1, <3>2, WriteBegins DEF SetAt
  <2>2. MfaTypeOK'
    BY <1>0, <1>7, <2>1 DEF MfaInv, MfaTypeOK, Enroll, ClientAt, mfaKeys
  <2>3. EnrolmentHolds'
    BY <1>0, <1>7, <2>1 DEF MfaInv, MfaTypeOK, Enroll, ClientAt, EnrolmentHolds, ListUserMFA, MemoryList,
       RedisList, mfaKeys
  <2>4. ASSUME NEW d \in MfaClients PROVE WriterOf(d)'
    BY <1>0, <1>7, <2>1 DEF MfaInv, MfaTypeOK, Enroll, ClientAt, WriterOf, IsWriting, ProgressOf, mfaKeys
  <2>5. ASSUME NEW d \in MfaClients PROVE SureOf(d)'
    BY <1>0, <1>7, <2>1 DEF MfaInv, MfaTypeOK, Enroll, ClientAt, SureOf, mfaKeys
  <2> QED
    BY <2>2, <2>3, <2>4, <2>5 DEF MfaInv
<1>8. ASSUME NEW c \in MfaClients, NEW field \in {"secret", "rest"}, HSet(c, field) PROVE MfaInv'
  <2>1. /\ mfaClient' \in [MfaClients -> Client]
        /\ \A d \in MfaClients : d # c => mfaClient'[d] = mfaClient[d]
        /\ mfaClient'[c].pc = (IF mfaClient[c].left = {field} THEN "expire" ELSE "hset")
        /\ mfaClient'[c].secret = mfaClient[c].secret /\ mfaClient'[c].left = mfaClient[c].left \ {field}
        /\ mfaClient'[c].alone = mfaClient[c].alone /\ mfaClient'[c].sure = mfaClient[c].sure
    <3> DEFINE left == mfaClient[c].left \ {field}
               pc == IF mfaClient[c].left = {field} THEN "expire" ELSE "hset"
    <3>1. mfaClient' = [mfaClient EXCEPT ![c] = [mfaClient[c] EXCEPT !.left = left, !.pc = pc]]
      BY <1>0, <1>8 DEF HSet
    <3>2. left \in SUBSET {"secret", "rest"} /\ pc \in Writing /\ mfaClient[c] \in Client
      BY <1>0 DEF Client, Writing
    <3> HIDE DEF left, pc
    <3>3. mfaClient' \in [MfaClients -> Client] /\ mfaClient'[c] = [mfaClient[c] EXCEPT !.left = left, !.pc = pc]
      BY <1>0, <3>1, <3>2 DEF Client
    <3>4. /\ mfaClient'[c].pc = pc /\ mfaClient'[c].left = left /\ mfaClient'[c].secret = mfaClient[c].secret
          /\ mfaClient'[c].alone = mfaClient[c].alone /\ mfaClient'[c].sure = mfaClient[c].sure
      BY <3>2, <3>3 DEF Client
    <3>5. \A d \in MfaClients : d # c => mfaClient'[d] = mfaClient[d]
      BY <1>0, <3>1
    <3> QED
      BY <3>3, <3>4, <3>5 DEF left, pc
  <2>2. MfaTypeOK'
    <3>1. settings' \in [secret: Secrets \cup {NoSecret}, rest: BOOLEAN]
      <4>1. mfaClient[c].secret \in Secrets \cup {NoSecret}
        BY <1>0 DEF Client
      <4> QED
        BY <1>8, <4>1 DEF HSet, MfaInv, MfaTypeOK
    <3>2. settingsUntil' \in 1 .. Never
      <4>1. Never \in 1 .. Never
        BY <1>0 DEF Never
      <4> QED
        BY <1>8, <4>1 DEF HSet, MfaInv, MfaTypeOK
    <3> QED
      BY <1>8, <2>1, <3>1, <3>2 DEF HSet, MfaInv, MfaTypeOK
  <2>3. EnrolmentHolds'
    BY <1>0, <1>8, <2>1 DEF MfaInv, MfaTypeOK, HSet, ClientAt, EnrolmentHolds, ListUserMFA, MemoryList, RedisList,
       Writing, Storing, Absent, NoSecret, Off, Unsure, WriterOf, IsWriting, ProgressOf, SureOf, Never
  <2>4. ASSUME NEW d \in MfaClients PROVE WriterOf(d)'
    BY <1>0, <1>8, <2>1 DEF MfaInv, MfaTypeOK, HSet, ClientAt, WriterOf, IsWriting, ProgressOf, Writing, Storing,
       Absent, NoSecret, Off, Unsure
  <2>5. ASSUME NEW d \in MfaClients PROVE SureOf(d)'
    BY <1>0, <1>8, <2>1 DEF MfaInv, MfaTypeOK, HSet, ClientAt, SureOf
  <2> QED
    BY <2>2, <2>3, <2>4, <2>5 DEF MfaInv
<1>9. ASSUME NEW c \in MfaClients, DisableMFA(c) PROVE MfaInv'
  <2>1. /\ mfaClient' \in [MfaClients -> Client]
        /\ \A d \in MfaClients : d # c =>
             /\ mfaClient'[d].pc = mfaClient[d].pc /\ mfaClient'[d].secret = mfaClient[d].secret
             /\ ~mfaClient'[d].alone /\ ~mfaClient'[d].sure
        /\ mfaClient'[c].pc \in IF mfaStore = "memory" THEN {"disable"} ELSE {"del"}
        /\ mfaClient'[c].secret \in {NoSecret} /\ mfaClient'[c].left = {"secret", "rest"}
        /\ mfaClient'[c].alone => \A d \in MfaClients : ~IsWriting(d)
        /\ ~mfaClient'[c].sure
        /\ enrolled' = Unsure
    <3>1. PICK w \in {NoSecret} : BeginWrite(c, IF mfaStore = "memory" THEN "disable" ELSE "del", w)
      BY <1>9 DEF DisableMFA
    <3>2. (IF mfaStore = "memory" THEN "disable" ELSE "del") \in Writing
      BY DEF Writing
    <3> QED
      BY <1>0, <3>1, <3>2, WriteBegins
  <2>2. MfaTypeOK'
    BY <1>0, <1>9, <2>1 DEF MfaInv, MfaTypeOK, DisableMFA, ClientAt, mfaKeys
  <2>3. EnrolmentHolds'
    BY <1>0, <1>9, <2>1 DEF MfaInv, MfaTypeOK, DisableMFA, ClientAt, EnrolmentHolds, ListUserMFA, MemoryList,
       RedisList, mfaKeys
  <2>4. ASSUME NEW d \in MfaClients PROVE WriterOf(d)'
    BY <1>0, <1>9, <2>1 DEF MfaInv, MfaTypeOK, DisableMFA, ClientAt, WriterOf, IsWriting, ProgressOf, mfaKeys,
       Writing, Storing, Absent, NoSecret, Off, Unsure
  <2>5. ASSUME NEW d \in MfaClients PROVE SureOf(d)'
    BY <1>0, <1>9, <2>1 DEF MfaInv, MfaTypeOK, DisableMFA, ClientAt, SureOf, mfaKeys
  <2> QED
    BY <2>2, <2>3, <2>4, <2>5 DEF MfaInv
<1>10. ASSUME NEW c \in MfaClients, MemorySet(c) PROVE MfaInv'
  <2>1. /\ mfaClient' \in [MfaClients -> Client]
        /\ \A d \in MfaClients : d # c => mfaClient'[d] = mfaClient[d]
        /\ mfaClient'[c].pc = "idle" /\ ~mfaClient'[c].sure /\ ~mfaClient'[c].alone
        /\ enrolled' = IF mfaClient[c].alone THEN mfaClient[c].secret ELSE Unsure
    BY <1>0, <1>10, ClientStops DEF MemorySet, EndWrite
  <2>2. MfaTypeOK'
    BY <1>0, <1>10, <2>1 DEF MfaInv, MfaTypeOK, MemorySet, ClientAt, Writing, Storing, Absent, NoSecret, Off,
       Unsure, EnrolmentHolds, WriterOf, IsWriting, ProgressOf, ListUserMFA, MemoryList, RedisList, SureOf, Never
  <2>3. EnrolmentHolds'
    BY <1>0, <1>10, <2>1 DEF MfaInv, MfaTypeOK, MemorySet, ClientAt, EnrolmentHolds, ListUserMFA, MemoryList,
       RedisList, Writing, Storing, Absent, NoSecret, Off, Unsure, WriterOf, IsWriting, ProgressOf, SureOf, Never
  <2>4. ASSUME NEW d \in MfaClients PROVE WriterOf(d)'
    BY <1>0, <1>10, <2>1 DEF MfaInv, MfaTypeOK, MemorySet, ClientAt, WriterOf, IsWriting, ProgressOf, Writing,
       Storing, Absent, NoSecret, Off, Unsure
  <2>5. ASSUME NEW d \in MfaClients PROVE SureOf(d)'
    BY <1>0, <1>10, <2>1 DEF MfaInv, MfaTypeOK, MemorySet, ClientAt, SureOf, Writing, Storing, Unsure,
       EnrolmentHolds, WriterOf, IsWriting, ProgressOf, ListUserMFA, MemoryList, RedisList, Never
  <2> QED
    BY <2>2, <2>3, <2>4, <2>5 DEF MfaInv
<1>11. ASSUME NEW c \in MfaClients, MemoryDisable(c) PROVE MfaInv'
  <2>1. /\ mfaClient' \in [MfaClients -> Client]
        /\ \A d \in MfaClients : d # c => mfaClient'[d] = mfaClient[d]
        /\ mfaClient'[c].pc = "idle" /\ ~mfaClient'[c].sure /\ ~mfaClient'[c].alone
        /\ enrolled' = IF mfaClient[c].alone THEN Off ELSE Unsure
    BY <1>0, <1>11, ClientStops DEF MemoryDisable, EndWrite
  <2>2. MfaTypeOK'
    BY <1>0, <1>11, <2>1 DEF MfaInv, MfaTypeOK, MemoryDisable, ClientAt, Absent
  <2>3. EnrolmentHolds'
    BY <1>0, <1>11, <2>1 DEF MfaInv, MfaTypeOK, MemoryDisable, ClientAt, EnrolmentHolds, ListUserMFA, MemoryList,
       RedisList, Absent, Unlisted, Writing, Storing, NoSecret, Off, Unsure, WriterOf, IsWriting, ProgressOf,
       SureOf, Never
  <2>4. ASSUME NEW d \in MfaClients PROVE WriterOf(d)'
    BY <1>0, <1>11, <2>1 DEF MfaInv, MfaTypeOK, MemoryDisable, ClientAt, WriterOf, IsWriting, ProgressOf, Writing,
       Storing, Absent, NoSecret, Off, Unsure
  <2>5. ASSUME NEW d \in MfaClients PROVE SureOf(d)'
    BY <1>0, <1>11, <2>1 DEF MfaInv, MfaTypeOK, MemoryDisable, ClientAt, SureOf, Writing, Storing, Unsure,
       EnrolmentHolds, WriterOf, IsWriting, ProgressOf, ListUserMFA, MemoryList, RedisList, Never
  <2> QED
    BY <2>2, <2>3, <2>4, <2>5 DEF MfaInv
<1>12. ASSUME NEW c \in MfaClients, ExpireSettings(c) PROVE MfaInv'
  <2>1. /\ mfaClient' \in [MfaClients -> Client]
        /\ \A d \in MfaClients : d # c => mfaClient'[d] = mfaClient[d]
        /\ mfaClient'[c].pc = "type" /\ mfaClient'[c].secret = mfaClient[c].secret
        /\ mfaClient'[c].alone = mfaClient[c].alone /\ mfaClient'[c].sure = mfaClient[c].sure
    <3>1. "type" \in Writing /\ ClientGoes(c, "type")
      BY <1>12 DEF ExpireSettings, Writing
    <3> QED
      BY <1>0, <3>1, ClientMoves
  <2>2. MfaTypeOK'
    BY <1>0, <1>12, <2>1 DEF MfaInv, MfaTypeOK, ExpireSettings, ClientAt, Writing, Storing, Absent, NoSecret, Off,
       Unsure, EnrolmentHolds, WriterOf, IsWriting, ProgressOf, ListUserMFA, MemoryList, RedisList, SureOf, Never
  <2>3. EnrolmentHolds'
    BY <1>0, <1>12, <2>1 DEF MfaInv, MfaTypeOK, ExpireSettings, ClientAt, EnrolmentHolds, ListUserMFA, MemoryList,
       RedisList
  <2>4. ASSUME NEW d \in MfaClients PROVE WriterOf(d)'
    BY <1>0, <1>12, <2>1 DEF MfaInv, MfaTypeOK, ExpireSettings, ClientAt, WriterOf, IsWriting, ProgressOf, Writing,
       Storing, Absent, NoSecret, Off, Unsure
  <2>5. ASSUME NEW d \in MfaClients PROVE SureOf(d)'
    BY <1>0, <1>12, <2>1 DEF MfaInv, MfaTypeOK, ExpireSettings, ClientAt, SureOf
  <2> QED
    BY <2>2, <2>3, <2>4, <2>5 DEF MfaInv
<1>13. ASSUME NEW c \in MfaClients, HSetType(c) PROVE MfaInv'
  <2>1. /\ mfaClient' \in [MfaClients -> Client]
        /\ \A d \in MfaClients : d # c => mfaClient'[d] = mfaClient[d]
        /\ mfaClient'[c].pc = "expireTypes" /\ mfaClient'[c].secret = mfaClient[c].secret
        /\ mfaClient'[c].alone = mfaClient[c].alone /\ mfaClient'[c].sure = mfaClient[c].sure
    <3>1. "expireTypes" \in Writing /\ ClientGoes(c, "expireTypes")
      BY <1>13 DEF HSetType, Writing
    <3> QED
      BY <1>0, <3>1, ClientMoves
  <2>2. MfaTypeOK'
    BY <1>0, <1>13, <2>1 DEF MfaInv, MfaTypeOK, HSetType, ClientAt
  <2>3. EnrolmentHolds'
    BY <1>0, <1>13, <2>1 DEF MfaInv, MfaTypeOK, HSetType, ClientAt, EnrolmentHolds, ListUserMFA, MemoryList,
       RedisList, Writing, Storing, Absent, NoSecret, Off, Unsure, WriterOf, IsWriting, ProgressOf, SureOf, Never
  <2>4. ASSUME NEW d \in MfaClients PROVE WriterOf(d)'
    BY <1>0, <1>13, <2>1 DEF MfaInv, MfaTypeOK, HSetType, ClientAt, WriterOf, IsWriting, ProgressOf, Writing,
       Storing, Absent, NoSecret, Off, Unsure
  <2>5. ASSUME NEW d \in MfaClients PROVE SureOf(d)'
    BY <1>0, <1>13, <2>1 DEF MfaInv, MfaTypeOK, HSetType, ClientAt, SureOf
  <2> QED
    BY <2>2, <2>3, <2>4, <2>5 DEF MfaInv
<1>14. ASSUME NEW c \in MfaClients, ExpireTypes(c) PROVE MfaInv'
  <2>1. /\ mfaClient' \in [MfaClients -> Client]
        /\ \A d \in MfaClients : d # c => mfaClient'[d] = mfaClient[d]
        /\ mfaClient'[c].pc = "idle" /\ ~mfaClient'[c].sure /\ ~mfaClient'[c].alone
        /\ enrolled' = IF mfaClient[c].alone THEN mfaClient[c].secret ELSE Unsure
    BY <1>0, <1>14, ClientStops DEF ExpireTypes, EndWrite
  <2>2. MfaTypeOK'
    BY <1>0, <1>14, <2>1 DEF MfaInv, MfaTypeOK, ExpireTypes, ClientAt, Writing, Storing, Absent, NoSecret, Off,
       Unsure, EnrolmentHolds, WriterOf, IsWriting, ProgressOf, ListUserMFA, MemoryList, RedisList, SureOf, Never
  <2>3. EnrolmentHolds'
    BY <1>0, <1>14, <2>1 DEF MfaInv, MfaTypeOK, ExpireTypes, ClientAt, EnrolmentHolds, ListUserMFA, MemoryList,
       RedisList, Writing, Storing, Absent, NoSecret, Off, Unsure, WriterOf, IsWriting, ProgressOf, SureOf, Never
  <2>4. ASSUME NEW d \in MfaClients PROVE WriterOf(d)'
    BY <1>0, <1>14, <2>1 DEF MfaInv, MfaTypeOK, ExpireTypes, ClientAt, WriterOf, IsWriting, ProgressOf, Writing,
       Storing, Absent, NoSecret, Off, Unsure
  <2>5. ASSUME NEW d \in MfaClients PROVE SureOf(d)'
    BY <1>0, <1>14, <2>1 DEF MfaInv, MfaTypeOK, ExpireTypes, ClientAt, SureOf, Writing, Storing, Unsure,
       EnrolmentHolds, WriterOf, IsWriting, ProgressOf, ListUserMFA, MemoryList, RedisList, Never
  <2> QED
    BY <2>2, <2>3, <2>4, <2>5 DEF MfaInv
<1>15. ASSUME NEW c \in MfaClients, Del(c) PROVE MfaInv'
  <2>1. /\ mfaClient' \in [MfaClients -> Client]
        /\ \A d \in MfaClients : d # c => mfaClient'[d] = mfaClient[d]
        /\ mfaClient'[c].pc = "hdel" /\ mfaClient'[c].secret = mfaClient[c].secret
        /\ mfaClient'[c].alone = mfaClient[c].alone /\ mfaClient'[c].sure = mfaClient[c].sure
    <3>1. "hdel" \in Writing /\ ClientGoes(c, "hdel")
      BY <1>15 DEF Del, Writing
    <3> QED
      BY <1>0, <3>1, ClientMoves
  <2>2. MfaTypeOK'
    BY <1>0, <1>15, <2>1 DEF MfaInv, MfaTypeOK, Del, ClientAt, Absent, Writing, Storing, NoSecret, Off, Unsure,
       EnrolmentHolds, WriterOf, IsWriting, ProgressOf, ListUserMFA, MemoryList, RedisList, SureOf, Never
  <2>3. EnrolmentHolds'
    BY <1>0, <1>15, <2>1 DEF MfaInv, MfaTypeOK, Del, ClientAt, EnrolmentHolds, ListUserMFA, MemoryList, RedisList,
       Writing, Storing, Absent, NoSecret, Off, Unsure, WriterOf, IsWriting, ProgressOf, SureOf, Never
  <2>4. ASSUME NEW d \in MfaClients PROVE WriterOf(d)'
    BY <1>0, <1>15, <2>1 DEF MfaInv, MfaTypeOK, Del, ClientAt, WriterOf, IsWriting, ProgressOf, Writing, Storing,
       Absent, NoSecret, Off, Unsure
  <2>5. ASSUME NEW d \in MfaClients PROVE SureOf(d)'
    BY <1>0, <1>15, <2>1 DEF MfaInv, MfaTypeOK, Del, ClientAt, SureOf
  <2> QED
    BY <2>2, <2>3, <2>4, <2>5 DEF MfaInv
<1>16. ASSUME NEW c \in MfaClients, HDel(c) PROVE MfaInv'
  <2>1. /\ mfaClient' \in [MfaClients -> Client]
        /\ \A d \in MfaClients : d # c => mfaClient'[d] = mfaClient[d]
        /\ mfaClient'[c].pc = "idle" /\ ~mfaClient'[c].sure /\ ~mfaClient'[c].alone
        /\ enrolled' = IF mfaClient[c].alone THEN Off ELSE Unsure
    BY <1>0, <1>16, ClientStops DEF HDel, EndWrite
  <2>2. MfaTypeOK'
    <3>1. Never \in 1 .. Never
      BY <1>0 DEF Never
    <3> QED
      BY <1>0, <1>16, <2>1, <3>1 DEF MfaInv, MfaTypeOK, HDel, Unlisted
  <2>3. EnrolmentHolds'
    BY <1>0, <1>16, <2>1 DEF MfaInv, MfaTypeOK, HDel, ClientAt, EnrolmentHolds, ListUserMFA, MemoryList, RedisList,
       Absent, Unlisted, Writing, Storing, NoSecret, Off, Unsure, WriterOf, IsWriting, ProgressOf, SureOf, Never
  <2>4. ASSUME NEW d \in MfaClients PROVE WriterOf(d)'
    BY <1>0, <1>16, <2>1 DEF MfaInv, MfaTypeOK, HDel, ClientAt, WriterOf, IsWriting, ProgressOf, Writing, Storing,
       Absent, NoSecret, Off, Unsure
  <2>5. ASSUME NEW d \in MfaClients PROVE SureOf(d)'
    BY <1>0, <1>16, <2>1 DEF MfaInv, MfaTypeOK, HDel, ClientAt, SureOf, Writing, Storing, Unsure, EnrolmentHolds,
       WriterOf, IsWriting, ProgressOf, ListUserMFA, MemoryList, RedisList, Never
  <2> QED
    BY <2>2, <2>3, <2>4, <2>5 DEF MfaInv
<1>17. ASSUME NEW c \in MfaClients, WriteFails(c) PROVE MfaInv'
  <2>1. /\ mfaClient' \in [MfaClients -> Client]
        /\ \A d \in MfaClients : d # c => mfaClient'[d] = mfaClient[d]
        /\ mfaClient'[c].pc = "idle" /\ ~mfaClient'[c].sure /\ ~mfaClient'[c].alone
    BY <1>0, <1>17, ClientStops DEF WriteFails
  <2>2. MfaTypeOK'
    <3>1. mfaErrors' \in 0 .. MaxMfaErrors
      BY <1>0, <1>17 DEF WriteFails, MayFail, MfaInv, MfaTypeOK
    <3> QED
      BY <1>17, <2>1, <3>1 DEF MfaInv, MfaTypeOK, WriteFails, mfaKeys
  <2>3. EnrolmentHolds'
    BY <1>0, <1>17, <2>1 DEF MfaInv, MfaTypeOK, WriteFails, ClientAt, EnrolmentHolds, ListUserMFA, MemoryList,
       RedisList, mfaKeys
  <2>4. ASSUME NEW d \in MfaClients PROVE WriterOf(d)'
    BY <1>0, <1>17, <2>1 DEF MfaInv, MfaTypeOK, WriteFails, ClientAt, WriterOf, IsWriting, ProgressOf, mfaKeys,
       Writing, Storing, Absent, NoSecret, Off, Unsure
  <2>5. ASSUME NEW d \in MfaClients PROVE SureOf(d)'
    BY <1>0, <1>17, <2>1 DEF MfaInv, MfaTypeOK, WriteFails, ClientAt, SureOf, mfaKeys
  <2> QED
    BY <2>2, <2>3, <2>4, <2>5 DEF MfaInv
<1>18. CASE PeriodPasses
  <2>1. /\ mfaStore' = mfaStore /\ known' = known /\ period' = period + 1 /\ period < LastPeriod
        /\ forceMFA' = forceMFA /\ mfaErrors' = mfaErrors
    BY <1>18 DEF PeriodPasses
  <2>2. CASE /\ enrolled' = enrolled /\ mfaClient' = mfaClient /\ settings' = settings /\ listed' = listed
             /\ settingsUntil' = settingsUntil /\ listedUntil' = listedUntil
    BY <1>0, <2>1, <2>2 DEF MfaInv, MfaTypeOK, EnrolmentHolds, WriterOf, IsWriting, ProgressOf, SureOf, ListUserMFA,
                            MemoryList, RedisList
  <2>3. CASE /\ enrolled' = Unsure
             /\ mfaClient' = [c \in MfaClients |-> [mfaClient[c] EXCEPT !.alone = FALSE, !.sure = FALSE]]
    <3>1. /\ settings' \in {settings, Absent} /\ listed' \in {listed, FALSE}
          /\ settingsUntil' \in {settingsUntil, Never} /\ listedUntil' \in {listedUntil, Never}
      BY <1>18 DEF PeriodPasses, MfaInv, MfaTypeOK
    <3>2. /\ mfaClient' \in [MfaClients -> Client]
          /\ \A c \in MfaClients : /\ mfaClient'[c].pc = mfaClient[c].pc
                                   /\ mfaClient'[c].secret = mfaClient[c].secret
                                   /\ ~mfaClient'[c].alone /\ ~mfaClient'[c].sure
      <4>1. ASSUME NEW c \in MfaClients
            PROVE  /\ [mfaClient[c] EXCEPT !.alone = FALSE, !.sure = FALSE] \in Client
                   /\ [mfaClient[c] EXCEPT !.alone = FALSE, !.sure = FALSE].pc = mfaClient[c].pc
                   /\ [mfaClient[c] EXCEPT !.alone = FALSE, !.sure = FALSE].secret = mfaClient[c].secret
                   /\ ~[mfaClient[c] EXCEPT !.alone = FALSE, !.sure = FALSE].alone
                   /\ ~[mfaClient[c] EXCEPT !.alone = FALSE, !.sure = FALSE].sure
        <5>1. mfaClient[c] \in Client
          BY <1>0
        <5> QED
          BY <5>1 DEF Client
      <4> QED
        BY <2>3, <4>1
    <3>3. MfaTypeOK'
      <4>1. /\ period' \in 0 .. LastPeriod /\ Never \in 1 .. Never
        BY <1>0, <2>1 DEF MfaInv, MfaTypeOK, Never
      <4>2. Absent \in [secret: Secrets \cup {NoSecret}, rest: BOOLEAN]
        BY DEF Absent
      <4> QED
        BY <2>1, <2>3, <3>1, <3>2, <4>1, <4>2 DEF MfaInv, MfaTypeOK
    <3>4. EnrolmentHolds'
      BY <1>0, <2>3 DEF EnrolmentHolds
    <3>5. ASSUME NEW c \in MfaClients PROVE WriterOf(c)' /\ SureOf(c)'
      BY <2>1, <2>3, <3>2 DEF MfaInv, WriterOf, IsWriting, SureOf
    <3> QED
      BY <3>3, <3>4, <3>5 DEF MfaInv
  <2> QED
    BY <1>18, <2>2, <2>3 DEF PeriodPasses, MfaInv, MfaTypeOK
<1>19. CASE UNCHANGED mfaVars
  BY <1>19 DEF mfaVars, MfaInv, MfaTypeOK, EnrolmentHolds, WriterOf, IsWriting, ProgressOf, SureOf, ListUserMFA,
                MemoryList, RedisList
<1> QED
  BY <1>1, <1>2, <1>3, <1>4, <1>5, <1>6, <1>7, <1>8, <1>9, <1>10, <1>11, <1>12, <1>13, <1>14, <1>15, <1>16, <1>17,
     <1>18, <1>19 DEF MfaNext

(* For all secrets and codes, any number of clients and whatever redis     *)
(* fails to do: the second factor in force is the one last written         *)
(* undisturbed, and a login that began under it does not get in without a  *)
(* verified code (SetUserMFA, DisableUserMFA, PreAuthenticate,             *)
(* CompleteMFA).                                                           *)
THEOREM SecondFactor == MfaSpec => []SecondFactorHolds
<1>1. MfaInv => SecondFactorHolds
  BY DEF MfaInv, SecondFactorHolds, EnrolledNeedsCode, SureOf, ClientAt
<1> QED
  BY <1>1, MfaInitInv, MfaStepInv, PTL DEF MfaSpec

-----------------------------------------------------------------------------
(* The authorizers.                                                        *)

GuestRecord == [at: {"new", "role", "needs", "decide", "allowed", "denied"}, roles: RoleLists,
                own: SUBSET (Permissions \cup {Default}), role: {0} \cup Objects,
                needs: SUBSET (Perms \cup {Unparsed})]
PolicyType ==
    /\ authorizer \in Authorizers /\ roles \in [RoleNames -> {0} \cup Objects]
    /\ rolePermissions \in [Objects -> SUBSET Perms] /\ mapped \in SUBSET Permissions
    /\ serviceMapped \in BOOLEAN /\ changes \in 0 .. MaxChanges

(* A call of the second authorizer has one role and no permission of its   *)
(* own, and what a call that nobody disturbed has read is still so.        *)
ReadOf(g) ==
    /\ since[g] \in 0 .. changes
    /\ guest[g].at = "role" => authorizer = "role"
    /\ (authorizer = "role" /\ guest[g].at \in {"role", "needs", "decide"}) =>
            guest[g].own = {} /\ \E r \in RoleNames : guest[g].roles = <<r>>
    /\ (since[g] = changes /\ authorizer = "role" /\ guest[g].at \in {"needs", "decide"}) =>
            guest[g].role # 0 /\ guest[g].role = roles[guest[g].roles[1]]
    /\ (since[g] = changes /\ guest[g].at = "decide") => guest[g].needs = Needs
AccessInv ==
    /\ PolicyType /\ guest \in [Guests -> GuestRecord] /\ since \in [Guests -> Nat]
    /\ \A g \in Guests : ReadOf(g)

(* No call has begun.                                                      *)
LEMMA AccessInitInv == AccessInit => AccessInv
<1> SUFFICES ASSUME NEW a \in Authorizers, NewRBACAuthorizer(a) PROVE AccessInv
  BY DEF AccessInit
<1>1. PolicyType
  <2>1. changes \in 0 .. MaxChanges
    BY AccessAssumption DEF NewRBACAuthorizer
  <2> QED
    BY <2>1 DEF PolicyType, NewRBACAuthorizer
<1>2. guest \in [Guests -> GuestRecord] /\ since \in [Guests -> Nat]
  BY DEF NewRBACAuthorizer, GuestRecord, NoGuest, RoleLists
<1>3. \A g \in Guests : ReadOf(g)
  BY DEF NewRBACAuthorizer, ReadOf, NoGuest
<1> QED
  BY <1>1, <1>2, <1>3 DEF AccessInv

(* A change of the policy is seen by every call that is being decided.     *)
LEMMA ChangeSeen ==
    ASSUME AccessInv, Change
    PROVE  /\ guest' \in [Guests -> GuestRecord] /\ since' \in [Guests -> Nat]
           /\ authorizer' = authorizer /\ changes' \in 0 .. MaxChanges /\ NewObject \in Objects
           /\ \A g \in Guests : ReadOf(g)'
<1>1. /\ guest' = guest /\ since' = since /\ authorizer' = authorizer /\ changes' = changes + 1
      /\ changes < MaxChanges /\ changes \in 0 .. MaxChanges /\ MaxChanges \in Nat
  BY AccessAssumption DEF Change, AccessInv, PolicyType
<1>2. NewObject \in Objects /\ changes' \in 0 .. MaxChanges
  BY <1>1 DEF NewObject, Objects
<1>3. ASSUME NEW g \in Guests PROVE ReadOf(g)'
  <2>1. ReadOf(g)
    BY DEF AccessInv
  <2>2. since[g] \in 0 .. changes
    BY <2>1 DEF ReadOf
  <2>3. since'[g] \in 0 .. changes' /\ since'[g] # changes'
    BY <1>1, <2>2
  <2> QED
    BY <1>1, <2>1, <2>3 DEF ReadOf
<1> QED
  BY <1>1, <1>2, <1>3 DEF AccessInv

(* A step of a call leaves the policy and the other calls alone.           *)
LEMMA CallSteps ==
    ASSUME AccessInv, UNCHANGED Policy, NEW g \in Guests, NEW r \in GuestRecord,
           guest' = [guest EXCEPT ![g] = r], since' \in [Guests -> Nat],
           \A h \in Guests : h # g => since'[h] = since[h], ReadOf(g)'
    PROVE  AccessInv'
<1>1. PolicyType'
  BY DEF Policy, PolicyType, AccessInv
<1>2. guest' \in [Guests -> GuestRecord] /\ \A h \in Guests : h # g => guest'[h] = guest[h]
  BY DEF AccessInv
<1>3. ASSUME NEW h \in Guests PROVE ReadOf(h)'
  <2>1. CASE h = g
    BY <2>1
  <2>2. CASE h # g
    <3>1. ReadOf(h) /\ Needs' = Needs
      BY DEF AccessInv, Policy, Needs
    <3> QED
      BY <1>2, <2>2, <3>1 DEF ReadOf, Policy
  <2> QED
    BY <2>1, <2>2
<1> QED
  BY <1>1, <1>2, <1>3 DEF AccessInv

(* No change of the policy and no step of a call breaks it.                *)
LEMMA AccessStepInv ==
    ASSUME AccessInv, [AccessNext]_accessVars
    PROVE  AccessInv'
<1>0. Permissions \cup {All} \subseteq Perms
  BY DEF Perms
<1>1. ASSUME NEW r \in RoleNames, NEW S \in SUBSET (Permissions \cup {All}), AddRole(r, S) PROVE AccessInv'
  <2>1. Change
    BY <1>1 DEF AddRole
  <2>2. /\ guest' \in [Guests -> GuestRecord] /\ since' \in [Guests -> Nat]
        /\ authorizer' = authorizer /\ changes' \in 0 .. MaxChanges /\ NewObject \in Objects
        /\ \A g \in Guests : ReadOf(g)'
    BY <2>1, ChangeSeen
  <2>3. PolicyType'
    BY <1>0, <1>1, <2>2 DEF PolicyType, AccessInv, AddRole
  <2> QED
    BY <2>2, <2>3 DEF AccessInv
<1>2. ASSUME NEW r \in RoleNames, RemoveRole(r) PROVE AccessInv'
  <2>1. Change
    BY <1>2 DEF RemoveRole
  <2>2. /\ guest' \in [Guests -> GuestRecord] /\ since' \in [Guests -> Nat]
        /\ authorizer' = authorizer /\ changes' \in 0 .. MaxChanges /\ NewObject \in Objects
        /\ \A g \in Guests : ReadOf(g)'
    BY <2>1, ChangeSeen
  <2>3. PolicyType'
    BY <1>0, <1>2, <2>2 DEF PolicyType, AccessInv, RemoveRole
  <2> QED
    BY <2>2, <2>3 DEF AccessInv
<1>3. ASSUME NEW r \in RoleNames, NEW p \in Permissions \cup {All}, AddPermission(r, p) PROVE AccessInv'
  <2>1. Change
    BY <1>3 DEF AddPermission
  <2>2. /\ guest' \in [Guests -> GuestRecord] /\ since' \in [Guests -> Nat]
        /\ authorizer' = authorizer /\ changes' \in 0 .. MaxChanges /\ NewObject \in Objects
        /\ \A g \in Guests : ReadOf(g)'
    BY <2>1, ChangeSeen
  <2>3. PolicyType'
    BY <1>0, <1>3, <2>2 DEF PolicyType, AccessInv, AddPermission
  <2> QED
    BY <2>2, <2>3 DEF AccessInv
<1>4. ASSUME NEW r \in RoleNames, NEW p \in Permissions \cup {All}, RemovePermission(r, p) PROVE AccessInv'
  <2>1. Change
    BY <1>4 DEF RemovePermission
  <2>2. /\ guest' \in [Guests -> GuestRecord] /\ since' \in [Guests -> Nat]
        /\ authorizer' = authorizer /\ changes' \in 0 .. MaxChanges /\ NewObject \in Objects
        /\ \A g \in Guests : ReadOf(g)'
    BY <2>1, ChangeSeen
  <2>3. PolicyType'
    BY <1>0, <1>4, <2>2 DEF PolicyType, AccessInv, RemovePermission
  <2> QED
    BY <2>2, <2>3 DEF AccessInv
<1>5. ASSUME NEW p \in Permissions, MapPermission(p) PROVE AccessInv'
  <2>1. Change
    BY <1>5 DEF MapPermission
  <2>2. /\ guest' \in [Guests -> GuestRecord] /\ since' \in [Guests -> Nat]
        /\ authorizer' = authorizer /\ changes' \in 0 .. MaxChanges /\ NewObject \in Objects
        /\ \A g \in Guests : ReadOf(g)'
    BY <2>1, ChangeSeen
  <2>3. PolicyType'
    BY <1>0, <1>5, <2>2 DEF PolicyType, AccessInv, MapPermission
  <2> QED
    BY <2>2, <2>3 DEF AccessInv
<1>6. ASSUME MapServiceToResource PROVE AccessInv'
  <2>1. Change
    BY <1>6 DEF MapServiceToResource
  <2>2. /\ guest' \in [Guests -> GuestRecord] /\ since' \in [Guests -> Nat]
        /\ authorizer' = authorizer /\ changes' \in 0 .. MaxChanges /\ NewObject \in Objects
        /\ \A g \in Guests : ReadOf(g)'
    BY <2>1, ChangeSeen
  <2>3. PolicyType'
    BY <1>0, <1>6, <2>2 DEF PolicyType, AccessInv, MapServiceToResource
  <2> QED
    BY <2>2, <2>3 DEF AccessInv
<1>7. ASSUME NEW g \in Guests, NEW rs \in RoleLists, NEW own \in SUBSET (Permissions \cup {Default}),
             Authenticate(g, rs, own)
      PROVE  AccessInv'
  <2> DEFINE at == IF authorizer = "role" THEN "role" ELSE "needs"
             rec == [NoGuest EXCEPT !.roles = rs, !.own = own, !.at = at]
  <2>1. UNCHANGED Policy /\ guest' = [guest EXCEPT ![g] = rec] /\ since' = [since EXCEPT ![g] = changes]
    BY <1>7 DEF Authenticate
  <2>2. at \in {"role", "needs"}
    OBVIOUS
  <2>3. rec \in GuestRecord /\ rec.at = at /\ rec.own = own /\ rec.roles = rs
    BY <2>2 DEF GuestRecord, NoGuest
  <2>4. /\ since' \in [Guests -> Nat] /\ since'[g] = changes /\ changes \in Nat
        /\ \A h \in Guests : h # g => since'[h] = since[h]
    BY <2>1 DEF AccessInv, PolicyType
  <2>5. authorizer = "role" => own = {} /\ \E r \in RoleNames : rs = <<r>>
    <3>1. authorizer = "role" => Len(rs) = 1 /\ own = {}
      BY <1>7 DEF Authenticate
    <3>2. Len(rs) = 1 => \E r \in RoleNames : rs = <<r>>
      BY DEF RoleLists
    <3> QED
      BY <3>1, <3>2
  <2>6. ReadOf(g)'
    <3>1. guest'[g] = rec /\ authorizer' = authorizer /\ changes' = changes
      BY <2>1 DEF AccessInv, Policy
    <3>2. since'[g] \in 0 .. changes'
      BY <2>4, <3>1
    <3>3. authorizer = "role" <=> at = "role"
      OBVIOUS
    <3> HIDE DEF rec, at
    <3> QED
      BY <2>2, <2>3, <2>5, <3>1, <3>2, <3>3 DEF ReadOf
  <2> QED
    <3> HIDE DEF rec
    <3> QED
      BY <2>1, <2>3, <2>4, <2>6, CallSteps
<1>8. ASSUME NEW g \in Guests, Unauthenticated(g) PROVE AccessInv'
  <2> DEFINE rec == [guest[g] EXCEPT !.at = "denied"]
  <2>1. UNCHANGED Policy /\ guest' = [guest EXCEPT ![g] = rec] /\ since' = [since EXCEPT ![g] = changes]
    BY <1>8 DEF Unauthenticated, StepTo, AccessInv
  <2>2. rec \in GuestRecord /\ rec.at = "denied"
    BY DEF GuestRecord, AccessInv
  <2>3. /\ guest'[g] = rec /\ authorizer' = authorizer /\ changes' = changes /\ roles' = roles
        /\ Needs' = Needs /\ since'[g] = changes
    BY <2>1 DEF AccessInv, Policy, Needs
  <2>4. since' \in [Guests -> Nat] /\ \A h \in Guests : h # g => since'[h] = since[h]
    BY <2>1 DEF AccessInv, PolicyType
  <2>5. since'[g] \in 0 .. changes'
    BY <2>3 DEF AccessInv, PolicyType
  <2>6. ReadOf(g)'
    <3> HIDE DEF rec
    <3> QED
      BY <2>2, <2>3, <2>5 DEF ReadOf
  <2> QED
    <3> HIDE DEF rec
    <3> QED
      BY <2>1, <2>2, <2>4, <2>6, CallSteps
<1>9. ASSUME NEW g \in Guests, GetRole(g) PROVE AccessInv'
  <2> DEFINE o == roles[guest[g].roles[1]]
             at == IF o = 0 THEN "denied" ELSE "needs"
             rec == [guest[g] EXCEPT !.role = o, !.at = at]
  <2>0. /\ ReadOf(g) /\ guest[g].at = "role" /\ guest[g] \in GuestRecord
        /\ o \in {0} \cup Objects /\ at \in {"denied", "needs"} /\ (at = "needs" => o # 0)
    <3>1. ReadOf(g) /\ guest[g].at = "role" /\ guest[g] \in GuestRecord
      BY <1>9 DEF GetRole, AccessInv
    <3>2. PICK r \in RoleNames : guest[g].roles = <<r>>
      BY <3>1 DEF ReadOf
    <3>3. guest[g].roles[1] = r /\ roles[r] \in {0} \cup Objects
      BY <3>2 DEF AccessInv, PolicyType
    <3> QED
      BY <3>1, <3>3
  <2>1. UNCHANGED Policy /\ guest' = [guest EXCEPT ![g] = rec] /\ since' = since
    BY <1>9 DEF GetRole, AccessInv
  <2>2. /\ rec \in GuestRecord /\ rec.at = at /\ rec.role = o
        /\ rec.own = guest[g].own /\ rec.roles = guest[g].roles
    <3> HIDE DEF o, at
    <3> QED
      BY <2>0 DEF GuestRecord
  <2>3. /\ guest'[g] = rec /\ authorizer' = authorizer /\ changes' = changes /\ roles' = roles
        /\ Needs' = Needs /\ since'[g] = since[g]
    BY <2>1 DEF AccessInv, Policy, Needs
  <2>4. since' \in [Guests -> Nat] /\ \A h \in Guests : h # g => since'[h] = since[h]
    BY <2>1 DEF AccessInv, PolicyType
  <2>6. ReadOf(g)'
    <3>1. o = roles[rec.roles[1]]
      BY <2>2
    <3> HIDE DEF rec, at, o
    <3> QED
      BY <2>0, <2>2, <2>3, <3>1 DEF ReadOf
  <2> QED
    <3> HIDE DEF rec
    <3> QED
      BY <2>1, <2>2, <2>4, <2>6, CallSteps
<1>10. ASSUME NEW g \in Guests, GetPermissions(g) PROVE AccessInv'
  <2> DEFINE rec == [guest[g] EXCEPT !.needs = Needs, !.at = "decide"]
  <2>0. ReadOf(g) /\ guest[g].at = "needs" /\ guest[g] \in GuestRecord /\ Needs \in SUBSET (Perms \cup {Unparsed})
    BY <1>10 DEF GetPermissions, AccessInv, PolicyType, Needs, Perms
  <2>1. UNCHANGED Policy /\ guest' = [guest EXCEPT ![g] = rec] /\ since' = since
    BY <1>10 DEF GetPermissions, AccessInv
  <2>2. /\ rec \in GuestRecord /\ rec.at = "decide" /\ rec.needs = Needs /\ rec.role = guest[g].role
        /\ rec.own = guest[g].own /\ rec.roles = guest[g].roles
    BY <2>0 DEF GuestRecord
  <2>3. /\ guest'[g] = rec /\ authorizer' = authorizer /\ changes' = changes /\ roles' = roles
        /\ Needs' = Needs /\ since'[g] = since[g]
    BY <2>1 DEF AccessInv, Policy, Needs
  <2>4. since' \in [Guests -> Nat] /\ \A h \in Guests : h # g => since'[h] = since[h]
    BY <2>1 DEF AccessInv, PolicyType
  <2>6. ReadOf(g)'
    <3> HIDE DEF rec
    <3> QED
      BY <2>0, <2>2, <2>3 DEF ReadOf
  <2> QED
    <3> HIDE DEF rec
    <3> QED
      BY <2>1, <2>2, <2>4, <2>6, CallSteps
<1>11. ASSUME NEW g \in Guests, CheckPermission(g) PROVE AccessInv'
  <2> DEFINE at == IF Grants(g) THEN "allowed" ELSE "denied"
             rec == [guest[g] EXCEPT !.at = at]
  <2>0. ReadOf(g) /\ guest[g] \in GuestRecord /\ at \in {"allowed", "denied"}
    BY DEF AccessInv
  <2>1. UNCHANGED Policy /\ guest' = [guest EXCEPT ![g] = rec] /\ since' = since
    BY <1>11 DEF CheckPermission, StepTo, AccessInv
  <2>2. rec \in GuestRecord /\ rec.at = at
    <3> HIDE DEF at
    <3> QED
      BY <2>0 DEF GuestRecord
  <2>3. /\ guest'[g] = rec /\ authorizer' = authorizer /\ changes' = changes /\ roles' = roles
        /\ Needs' = Needs /\ since'[g] = since[g]
    BY <2>1 DEF AccessInv, Policy, Needs
  <2>4. since' \in [Guests -> Nat] /\ \A h \in Guests : h # g => since'[h] = since[h]
    BY <2>1 DEF AccessInv, PolicyType
  <2>6. ReadOf(g)'
    <3> HIDE DEF rec, at
    <3> QED
      BY <2>0, <2>2, <2>3 DEF ReadOf
  <2> QED
    <3> HIDE DEF rec
    <3> QED
      BY <2>1, <2>2, <2>4, <2>6, CallSteps
<1>12. CASE UNCHANGED accessVars
  BY <1>12 DEF accessVars, AccessInv, PolicyType, ReadOf, Needs
<1> QED
  BY <1>1, <1>2, <1>3, <1>4, <1>5, <1>6, <1>7, <1>8, <1>9, <1>10, <1>11, <1>12 DEF AccessNext

(* What the authorizers decide permission by permission and role by role   *)
(* is what the permissions held say all at once (CheckPermission).         *)
LEMMA GrantsIsEntitled ==
    ASSUME AccessInv, NEW g \in Guests, guest[g].at = "decide", since[g] = changes
    PROVE  Grants(g) <=> Entitled(g)
<1>1. /\ guest[g].needs = Needs /\ mapped \in SUBSET Permissions /\ Unparsed \notin Permissions
      /\ Default # Unparsed /\ authorizer \in {"user", "role"} /\ ReadOf(g)
  <2>1. ReadOf(g)
    BY DEF AccessInv
  <2>2. guest[g].needs = Needs
    BY <2>1 DEF ReadOf
  <2> QED
    BY <2>1, <2>2, AccessAssumption DEF AccessInv, PolicyType, Default, Unparsed
<1>2. CASE authorizer = "user"
  <2> DEFINE need == IF mapped # {} THEN mapped ELSE {Default}
  <2>1. guest[g].needs = need /\ need # {} /\ Unparsed \notin need
    BY <1>1, <1>2 DEF Needs
  <2> HIDE DEF need
  <2> DEFINE names == {guest[g].roles[i] : i \in DOMAIN guest[g].roles}
             held == guest[g].own \cup UNION {rolePermissions[roles[r]] : r \in {n \in names : roles[n] # 0}}
             looked == {roles[guest[g].roles[i]] : i \in DOMAIN guest[g].roles} \ {0}
  <2>2. \A x : x \in held <=> x \in guest[g].own \/ \E o \in looked : x \in rolePermissions[o]
    <3>1. \A x : x \in held => x \in guest[g].own \/ \E o \in looked : x \in rolePermissions[o]
      OBVIOUS
    <3>2. ASSUME NEW o \in looked, NEW x \in rolePermissions[o] PROVE x \in held
      <4>1. PICK i \in DOMAIN guest[g].roles : roles[guest[g].roles[i]] # 0 /\ x \in rolePermissions[roles[guest[g].roles[i]]]
        OBVIOUS
      <4> QED
        BY <4>1
    <3>3. \A x \in guest[g].own : x \in held
      OBVIOUS
    <3> QED
      BY <3>1, <3>2, <3>3
  <2>3. Grants(g) <=> \E p \in need : \/ HasPermission(guest[g].own, p)
                                     \/ \E o \in looked : HasPermission(rolePermissions[o], p)
    BY <1>2, <2>1 DEF Grants, UserGrants, LookedAt
  <2>4. Entitled(g) <=> held \cap (need \cup {All}) # {}
    BY <1>2 DEF Entitled, need
  <2> HIDE DEF held, looked, names
  <2>5. ASSUME NEW p \in need, HasPermission(guest[g].own,
      p) \/ \E o \in looked : HasPermission(rolePermissions[o], p)
        PROVE  held \cap (need \cup {All}) # {}
    BY <2>2, <2>5 DEF HasPermission
  <2>6. ASSUME NEW x \in held, x \in need \cup {All}
        PROVE  \E p \in need : \/ HasPermission(guest[g].own, p)
                               \/ \E o \in looked : HasPermission(rolePermissions[o], p)
    <3>1. PICK p \in need : x = p \/ x = All
      BY <2>1, <2>6
    <3> QED
      BY <2>1, <2>2, <2>6, <3>1 DEF HasPermission
  <2> QED
    BY <2>3, <2>4, <2>5, <2>6
<1>3. CASE authorizer = "role"
  <2>1. PICK r \in RoleNames : guest[g].roles = <<r>>
    BY <1>1, <1>3 DEF ReadOf
  <2>2. /\ guest[g].own = {} /\ guest[g].role = roles[r] /\ roles[r] # 0
        /\ {guest[g].roles[i] : i \in DOMAIN guest[g].roles} = {r}
    BY <1>1, <1>3, <2>1 DEF ReadOf
  <2> DEFINE names == {guest[g].roles[i] : i \in DOMAIN guest[g].roles}
             held == guest[g].own \cup UNION {rolePermissions[roles[n]] : n \in {m \in names : roles[m] # 0}}
  <2>3. held = rolePermissions[roles[r]]
    <3>1. {m \in names : roles[m] # 0} = {r}
      BY <2>2
    <3> HIDE DEF names
    <3> QED
      BY <2>2, <3>1
  <2>4. Entitled(g) <=> IF mapped # {} THEN rolePermissions[roles[r]] \cap (mapped \cup {All}) # {} ELSE ~serviceMapped
    <3>1. Entitled(g) <=> /\ \E n \in names : roles[n] # 0
                          /\ IF mapped # {} THEN held \cap (mapped \cup {All}) # {} ELSE ~serviceMapped
      BY <1>3 DEF Entitled
    <3>2. \E n \in names : roles[n] # 0
      BY <2>2
    <3> HIDE DEF names, held
    <3> QED
      BY <2>3, <3>1, <3>2
  <2>5. Grants(g) <=> Needs = {} \/ \E p \in Needs : HasPermission(rolePermissions[roles[r]], p)
    BY <1>1, <1>3, <2>2 DEF Grants, RoleGrants
  <2>6. CASE mapped # {}
    <3>1. Needs = mapped
      BY <2>6 DEF Needs
    <3>2. \A p \in mapped : p # Unparsed
      BY <1>1
    <3>3. (\E p \in mapped : HasPermission(rolePermissions[roles[r]], p))
              <=> rolePermissions[roles[r]] \cap (mapped \cup {All}) # {}
      BY <2>6, <3>2 DEF HasPermission
    <3> QED
      BY <2>4, <2>5, <2>6, <3>1, <3>3
  <2>7. CASE mapped = {}
    <3>1. Needs = IF serviceMapped THEN {Unparsed} ELSE {}
      BY <1>3, <2>7 DEF Needs
    <3> QED
      BY <2>4, <2>5, <2>7, <3>1 DEF HasPermission
  <2> QED
    BY <2>6, <2>7
<1> QED
  BY <1>1, <1>2, <1>3

(* A call decided in a step is decided by what the policy then says.       *)
LEMMA DecisionOfStep ==
    ASSUME AccessInv, [AccessNext]_accessVars, NEW g \in Guests,
           guest[g].at \in {"role", "needs", "decide"}, guest'[g].at \in {"allowed", "denied"},
           since[g] = changes
    PROVE  (guest'[g].at = "allowed") = Entitled(g)
<1>0. guest \in [Guests -> GuestRecord] /\ guest[g] \in GuestRecord /\ ReadOf(g) /\ guest'[g] # guest[g]
  BY DEF AccessInv
<1>1. PICK h \in Guests : GetRole(h) \/ GetPermissions(h) \/ CheckPermission(h)
            \/ Unauthenticated(h)
            \/ \E rs \in RoleLists, own \in SUBSET (Permissions \cup {Default}) : Authenticate(h, rs, own)
  BY <1>0 DEF AccessNext, AddRole, RemoveRole, AddPermission, RemovePermission, MapPermission, MapServiceToResource,
              Change, accessVars
<1>2. h = g
  BY <1>0, <1>1 DEF GetRole, GetPermissions, CheckPermission, Unauthenticated, Authenticate, StepTo
<1>3. GetRole(g) \/ GetPermissions(g) \/ CheckPermission(g)
  BY <1>1, <1>2 DEF Unauthenticated, Authenticate
<1>4. CASE GetRole(g)
  <2>1. PICK r \in RoleNames : guest[g].roles = <<r>>
    BY <1>0, <1>4 DEF GetRole, ReadOf
  <2>2. guest'[g].at = IF roles[r] = 0 THEN "denied" ELSE "needs"
    BY <1>0, <1>4, <2>1 DEF GetRole, GuestRecord
  <2>3. authorizer = "role" /\ roles[r] = 0 /\ guest'[g].at = "denied"
    BY <1>0, <1>4, <2>2 DEF GetRole, ReadOf
  <2>4. {guest[g].roles[i] : i \in DOMAIN guest[g].roles} = {r}
    BY <2>1
  <2>5. ~Entitled(g)
    BY <2>3, <2>4 DEF Entitled
  <2>6. Entitled(g) \in BOOLEAN
    BY DEF Entitled
  <2> QED
    BY <2>3, <2>5, <2>6
<1>5. CASE GetPermissions(g)
  BY <1>0, <1>5 DEF GetPermissions, GuestRecord
<1>6. CASE CheckPermission(g)
  <2>1. guest'[g].at = IF Grants(g) THEN "allowed" ELSE "denied"
    BY <1>0, <1>6 DEF CheckPermission, StepTo, GuestRecord
  <2>2. Grants(g) <=> Entitled(g)
    BY <1>6, GrantsIsEntitled DEF CheckPermission
  <2>3. Entitled(g) \in BOOLEAN
    BY DEF Entitled
  <2> QED
    BY <2>1, <2>2, <2>3
<1> QED
  BY <1>3, <1>4, <1>5, <1>6

(* For all roles, permissions and changes of the policy: a call during     *)
(* which nobody changed it gets the decision of that policy, although it   *)
(* read it in two or three critical sections (AuthInterceptor,             *)
(* CheckPermission of both authorizers).                                   *)
THEOREM DecisionsAreRight == AccessSpec => DecisionsRight
<1>1. AccessInv => AccessTypeOK
  BY DEF AccessInv, PolicyType, AccessTypeOK, GuestRecord
<1>2. ASSUME AccessInv, [AccessNext]_accessVars
      PROVE  [\A g \in Guests :
                  guest[g].at \in {"role", "needs", "decide"} /\ guest'[g].at \in {"allowed", "denied"}
                      /\ since[g] = changes
                  => (guest'[g].at = "allowed") = Entitled(g)]_accessVars
  BY <1>2, DecisionOfStep
<1> QED
  BY <1>1, <1>2, AccessInitInv, AccessStepInv, PTL DEF AccessSpec, DecisionsRight, UndisturbedDecision
=============================================================================
