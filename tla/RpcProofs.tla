----------------------------- MODULE RpcProofs ------------------------------
(***************************************************************************)
(* Proofs about Cluster, Client, Retry, Resolver and Server for any set    *)
(* of instances, callers, targets, calls and goroutines and any limits of  *)
(* the retries: what a call over several instances answers, whose pool a   *)
(* dial uses, how many retries run, what the resolver remembers and what   *)
(* the server and the registry tell.                                       *)
(***************************************************************************)
EXTENDS Cluster, Client, Retry, Resolver, Server, FiniteSetTheorems, TLAPS

-----------------------------------------------------------------------------
(* Counting calls and slots *)

(* The calls at one of some places. *)
At(f, places) == {c \in Calls : f[c] \in places}

(* A call that moves enters a set of places, leaves it, or neither. *)
LEMMA CallMoves ==
    ASSUME NEW f, NEW g, NEW c \in Calls, NEW place, g[c] = place, \A x \in Calls : x # c => g[x] = f[x], NEW S
    PROVE  /\ Cardinality(At(f, S)) \in 0 .. Cardinality(Calls)
           /\ Cardinality(At(g, S)) \in 0 .. Cardinality(Calls)
           /\ f[c] \in S /\ place \in S => Cardinality(At(g, S)) = Cardinality(At(f, S))
           /\ f[c] \notin S /\ place \notin S => Cardinality(At(g, S)) = Cardinality(At(f, S))
           /\ f[c] \notin S /\ place \in S => Cardinality(At(g, S)) = Cardinality(At(f, S)) + 1
           /\ f[c] \in S /\ place \notin S => Cardinality(At(g, S)) = Cardinality(At(f, S)) - 1
<1>1. IsFiniteSet(Calls)
  BY RetryAssumption
<1>2. /\ IsFiniteSet(At(f, S)) /\ Cardinality(At(f, S)) \in Nat /\ Cardinality(At(f, S)) <= Cardinality(Calls)
      /\ IsFiniteSet(At(g, S)) /\ Cardinality(At(g, S)) \in Nat /\ Cardinality(At(g, S)) <= Cardinality(Calls)
      /\ Cardinality(Calls) \in Nat
  <2>1. At(f, S) \subseteq Calls /\ At(g, S) \subseteq Calls
    BY DEF At
  <2> QED
    BY <1>1, <2>1, FS_Subset, FS_CardinalityType
<1>3. f[c] \in S /\ place \in S => At(g, S) = At(f, S)
  BY DEF At
<1>4. f[c] \notin S /\ place \notin S => At(g, S) = At(f, S)
  BY DEF At
<1>5. ASSUME f[c] \notin S, place \in S PROVE Cardinality(At(g, S)) = Cardinality(At(f, S)) + 1
  <2>1. At(g, S) = At(f, S) \cup {c} /\ c \notin At(f, S)
    BY <1>5 DEF At
  <2> QED
    BY <1>2, <2>1, FS_AddElement
<1>6. ASSUME f[c] \in S, place \notin S PROVE Cardinality(At(g, S)) = Cardinality(At(f, S)) - 1
  <2>1. At(g, S) = At(f, S) \ {c} /\ c \in At(f, S)
    BY <1>6 DEF At
  <2> QED
    BY <1>2, <2>1, FS_RemoveElement
<1> QED
  BY <1>2, <1>3, <1>4, <1>5, <1>6

(* One attempt more, or one slot more, is one pair more. *)
LEMMA PairMore ==
    ASSUME NEW f \in [Calls -> 0 .. MaxAttempts], NEW c \in Calls, f[c] < MaxAttempts,
           NEW g, g[c] = f[c] + 1, \A x \in Calls : x # c => g[x] = f[x]
    PROVE  Cardinality(UpTo(g)) = Cardinality(UpTo(f)) + 1
<1>1. IsFiniteSet(UpTo(f))
  <2>1. IsFiniteSet(1 .. MaxAttempts) /\ IsFiniteSet(Calls)
    BY RetryAssumption, FS_Interval
  <2>2. IsFiniteSet(Calls \X (1 .. MaxAttempts))
    BY <2>1, FS_Product
  <2> QED
    BY <2>2, FS_Subset DEF UpTo
<1>2. f[c] \in Nat /\ f[c] + 1 \in 1 .. MaxAttempts
  BY RetryAssumption
<1>3. <<c, f[c] + 1>> \notin UpTo(f)
  BY <1>2 DEF UpTo
<1>4. UpTo(g) = UpTo(f) \cup {<<c, f[c] + 1>>}
  <2>1. ASSUME NEW p \in Calls \X (1 .. MaxAttempts)
        PROVE  p[2] <= g[p[1]] <=> (p[2] <= f[p[1]] \/ p = <<c, f[c] + 1>>)
    <3>1. p[1] \in Calls /\ p[2] \in Nat /\ p = <<p[1], p[2]>> /\ f[p[1]] \in Nat
      BY <2>1
    <3>2. CASE p[1] = c
      BY <1>2, <3>1, <3>2
    <3>3. CASE p[1] # c
      BY <3>1, <3>3
    <3> QED
      BY <3>2, <3>3
  <2>2. <<c, f[c] + 1>> \in Calls \X (1 .. MaxAttempts)
    BY <1>2
  <2> QED
    BY <2>1, <2>2 DEF UpTo
<1> DEFINE new == <<c, f[c] + 1>>
<1> HIDE DEF new
<1>5. Cardinality(UpTo(f) \cup {new}) = Cardinality(UpTo(f)) + 1
  <2>1. new \notin UpTo(f)
    BY <1>3 DEF new
  <2> QED
    BY <1>1, <2>1, FS_AddElement
<1> QED
  BY <1>4, <1>5 DEF new

(* Fewer attempts are no more pairs, and there are Calls times MaxAttempts. *)
LEMMA PairsBounded ==
    ASSUME NEW f, NEW g \in [Calls -> Int], \A c \in Calls : f[c] \in Int /\ f[c] <= g[c]
    PROVE  /\ Cardinality(UpTo(f)) \in Nat /\ Cardinality(UpTo(g)) \in Nat
           /\ Cardinality(UpTo(f)) <= Cardinality(UpTo(g))
           /\ Cardinality(UpTo(g)) <= Cardinality(Calls) * MaxAttempts
<1>1. IsFiniteSet(1 .. MaxAttempts) /\ IsFiniteSet(Calls) /\ Cardinality(1 .. MaxAttempts) = MaxAttempts
  BY RetryAssumption, FS_Interval
<1>2. /\ IsFiniteSet(Calls \X (1 .. MaxAttempts))
      /\ Cardinality(Calls \X (1 .. MaxAttempts)) = Cardinality(Calls) * MaxAttempts
  BY <1>1, FS_Product
<1>3. UpTo(f) \subseteq UpTo(g) /\ UpTo(g) \subseteq Calls \X (1 .. MaxAttempts)
  <2>1. ASSUME NEW p \in Calls \X (1 .. MaxAttempts), p[2] <= f[p[1]] PROVE p[2] <= g[p[1]]
    <3>1. p[1] \in Calls /\ p[2] \in Int
      BY <2>1
    <3> QED
      BY <2>1, <3>1
  <2> QED
    BY <2>1 DEF UpTo
<1>4. IsFiniteSet(UpTo(g)) /\ IsFiniteSet(UpTo(f))
  BY <1>2, <1>3, FS_Subset
<1> QED
  BY <1>2, <1>3, <1>4, FS_Subset, FS_CardinalityType

-----------------------------------------------------------------------------
(* The retry budget *)

Places == {"new", "invoke", "slots", "ratio", "delay", "take", "count", "return", "done"}

RetryType ==
    /\ Enabled \in BOOLEAN /\ Enabled \in Modes /\ MaxRetryRatio \in Nat /\ MaxRetryRatio \in RetryRatios
    /\ currentRetries \in Nat /\ totalRequests \in Nat /\ retriedRequests \in Nat
    /\ retryAt \in [Calls -> Places]
    /\ attempt \in [Calls -> 0 .. MaxAttempts] /\ slotsHeld \in [Calls -> 0 .. MaxAttempts]
    /\ cancelled \subseteq Calls /\ result \in [Calls -> Results]

(* A call holds a slot for each of its retries, the one it is preparing    *)
(* excepted.                                                               *)
Preparing == {"slots", "ratio", "delay", "take"}
SlotPerRetry ==
    \A c \in Calls :
        /\ slotsHeld[c] <= attempt[c]
        /\ retryAt[c] \in Preparing => slotsHeld[c] < attempt[c]
        /\ retryAt[c] = "count" => attempt[c] > 0
        /\ ~Enabled => retryAt[c] \in {"new", "return", "done"}

RequestsCounted ==
    /\ Enabled => totalRequests = Cardinality(At(retryAt, Places \ {"new"}))
    /\ ~Enabled => totalRequests = 0

(* The calls that have passed the check of the slots and not yet taken one *)
(* are counted as if they had.                                             *)
PastSlots == {"ratio", "delay", "take"}
SlotsReserved ==
    currentRetries + Cardinality(At(retryAt, PastSlots)) < MaxConcurrentRetries + Cardinality(Calls)

(* The same for the ratio.                                                 *)
PastRatio == {"delay", "take", "count"}
RetriesReserved == retriedRequests + Cardinality(At(retryAt, PastRatio))
RatioReserved ==
    RetriesReserved > 0 =>
        RetriesReserved * 100 < MaxRetryRatio * totalRequests + 100 * Cardinality(Calls)

(* The retries each call has begun.                                        *)
Begun == [c \in Calls |-> IF retryAt[c] \in Preparing \cup {"count"} THEN attempt[c] - 1 ELSE attempt[c]]
RetriesBegun == retriedRequests <= Cardinality(UpTo(Begun))

RetryInv ==
    /\ RetryType /\ SlotPerRetry /\ RequestsCounted /\ SlotsExact /\ SlotsReserved /\ RatioReserved
    /\ RetriesBegun

(* At most every call is at some places, and none are enough to be one.    *)
LEMMA PlaceCounts ==
    ASSUME RetryType
    PROVE  /\ Cardinality(Calls) \in Nat
           /\ \A S : Cardinality(At(retryAt, S)) \in Nat /\ Cardinality(At(retryAt, S)) <= Cardinality(Calls)
           /\ \A S : \A c \in Calls : retryAt[c] \in S => Cardinality(At(retryAt, S)) > 0
<1>1. IsFiniteSet(Calls) /\ Cardinality(Calls) \in Nat
  BY RetryAssumption, FS_CardinalityType
<1>2. ASSUME NEW S PROVE /\ IsFiniteSet(At(retryAt, S)) /\ Cardinality(At(retryAt, S)) \in Nat
                         /\ Cardinality(At(retryAt, S)) <= Cardinality(Calls)
  <2>1. At(retryAt, S) \subseteq Calls
    BY DEF At
  <2> QED
    BY <1>1, <2>1, FS_Subset, FS_CardinalityType
<1>3. ASSUME NEW S, NEW c \in Calls, retryAt[c] \in S PROVE Cardinality(At(retryAt, S)) > 0
  <2>1. At(retryAt, S) # {}
    BY <1>3 DEF At
  <2> QED
    BY <1>2, <2>1, FS_EmptySet
<1> QED
  BY <1>1, <1>2, <1>3

(* What the move of a call does to the counts the invariant is about.      *)
LEMMA Moved ==
    ASSUME RetryType, NEW c \in Calls, NEW place \in Places, GoTo(c, place), NEW S
    PROVE  /\ retryAt' \in [Calls -> Places]
           /\ Cardinality(At(retryAt, S))' \in Nat /\ Cardinality(At(retryAt, S))' <= Cardinality(Calls)
           /\ retryAt[c] \in S /\ place \in S => Cardinality(At(retryAt, S))' = Cardinality(At(retryAt, S))
           /\ retryAt[c] \notin S /\ place \notin S => Cardinality(At(retryAt, S))' = Cardinality(At(retryAt, S))
           /\ retryAt[c] \notin S /\ place \in S => Cardinality(At(retryAt, S))' = Cardinality(At(retryAt, S)) + 1
           /\ retryAt[c] \in S /\ place \notin S => Cardinality(At(retryAt, S))' = Cardinality(At(retryAt, S)) - 1
<1>1. retryAt'[c] = place /\ \A x \in Calls : x # c => retryAt'[x] = retryAt[x]
  BY DEF RetryType, GoTo
<1>2. retryAt' \in [Calls -> Places]
  BY DEF RetryType, GoTo
<1>3. Cardinality(Calls) \in Nat
  BY RetryAssumption, FS_CardinalityType
<1> DEFINE n == Cardinality(At(retryAt, S))
           m == Cardinality(At(retryAt', S))
<1>4. m = Cardinality(At(retryAt, S))'
  BY DEF At
<1>5. /\ m \in 0 .. Cardinality(Calls)
      /\ retryAt[c] \in S /\ place \in S => m = n
      /\ retryAt[c] \notin S /\ place \notin S => m = n
      /\ retryAt[c] \notin S /\ place \in S => m = n + 1
      /\ retryAt[c] \in S /\ place \notin S => m = n - 1
  BY <1>1, CallMoves
<1> HIDE DEF n, m
<1> QED
  BY <1>2, <1>3, <1>4, <1>5 DEF n

(* A new interceptor has retried nothing.                                  *)
LEMMA RetryInitInv == NewRetryInterceptor => RetryInv
<1> SUFFICES ASSUME NewRetryInterceptor PROVE RetryInv
  OBVIOUS
<1>1. RetryType
  BY RetryAssumption DEF NewRetryInterceptor, RetryType, Places, Results
<1>2. SlotPerRetry
  BY RetryAssumption DEF NewRetryInterceptor, SlotPerRetry, Preparing
<1>3. ASSUME NEW S, "new" \notin S PROVE Cardinality(At(retryAt, S)) = 0
  <2>1. At(retryAt, S) = {}
    BY <1>3 DEF At, NewRetryInterceptor
  <2> QED
    BY <2>1, FS_EmptySet
<1>4. Cardinality(UpTo(slotsHeld)) = 0
  <2>1. UpTo(slotsHeld) = {}
    BY DEF UpTo, NewRetryInterceptor
  <2> QED
    BY <2>1, FS_EmptySet
<1>5. RequestsCounted
  BY <1>3 DEF RequestsCounted, NewRetryInterceptor
<1>6. SlotsExact
  BY <1>4 DEF SlotsExact, NewRetryInterceptor
<1>7. SlotsReserved
  <2>1. Cardinality(At(retryAt, PastSlots)) = 0 /\ Cardinality(Calls) \in Nat
    BY <1>1, <1>3, PlaceCounts DEF PastSlots
  <2> QED
    BY <2>1, RetryAssumption DEF SlotsReserved, NewRetryInterceptor
<1>8. RatioReserved
  <2>1. Cardinality(At(retryAt, PastRatio)) = 0
    BY <1>3 DEF PastRatio
  <2> QED
    BY <2>1 DEF RatioReserved, RetriesReserved, NewRetryInterceptor
<1>9. RetriesBegun
  <2>1. Begun \in [Calls -> Int] /\ \A c \in Calls : Begun[c] \in Int
    BY RetryAssumption DEF Begun, NewRetryInterceptor
  <2>2. Cardinality(UpTo(Begun)) \in Nat
    BY <2>1, PairsBounded
  <2> QED
    BY <2>2 DEF RetriesBegun, NewRetryInterceptor
<1> QED
  BY <1>1, <1>2, <1>5, <1>6, <1>7, <1>8, <1>9 DEF RetryInv

(* A call that goes on without spending anything: past a check that holds, *)
(* out of the delay, or to its return.                                     *)
LEMMA MoveKeeps ==
    ASSUME RetryInv, NEW c \in Calls, NEW place \in {"ratio", "delay", "take", "return", "done"}, GoTo(c, place),
           result' \in [Calls -> Results],
           UNCHANGED <<Enabled, MaxRetryRatio, currentRetries, totalRequests, retriedRequests, attempt, slotsHeld,
                       cancelled>>,
           retryAt[c] # "new" \/ ~Enabled,
           place = "ratio" => retryAt[c] = "slots" /\ SlotFree,
           place = "delay" => retryAt[c] = "ratio" /\ RatioFree,
           place = "take" => retryAt[c] = "delay"
    PROVE  RetryInv'
<1> DEFINE S == Cardinality(At(retryAt, PastSlots))
           R == Cardinality(At(retryAt, PastRatio))
           N == Cardinality(At(retryAt, Places \ {"new"}))
<1>0. RetryType /\ place \in Places
  BY DEF RetryInv, Places
<1>1. RetryType'
  BY <1>0, Moved DEF RetryType
<1>2. SlotPerRetry'
  BY <1>0 DEF RetryInv, RetryType, SlotPerRetry, GoTo, Preparing
<1>s. /\ S' \in Nat /\ S' <= Cardinality(Calls) /\ S \in Nat
      /\ place # "ratio" => S' <= S
  BY <1>0, Moved, PlaceCounts DEF PastSlots
<1>r. /\ R' \in Nat /\ R' <= Cardinality(Calls) /\ R \in Nat
      /\ place # "delay" => R' <= R
  BY <1>0, Moved, PlaceCounts DEF PastRatio
<1>n. retryAt[c] # "new" => N' = N
  BY <1>0, Moved DEF Places, RetryType
<1>c. /\ currentRetries \in Nat /\ retriedRequests \in Nat /\ totalRequests \in Nat /\ Cardinality(Calls) \in Nat
      /\ MaxRetryRatio \in Nat
  BY <1>0, PlaceCounts DEF RetryType
<1>3. RequestsCounted'
  BY <1>n DEF RetryInv, RequestsCounted
<1>4. SlotsExact'
  BY DEF RetryInv, SlotsExact
<1>5. SlotsReserved'
  BY <1>s, <1>c, RetryAssumption DEF RetryInv, SlotsReserved, SlotFree
<1>6. RatioReserved'
  <2>1. place = "delay" => totalRequests > 0
    <3>1. CASE Enabled
      BY <3>1, <1>0, PlaceCounts DEF RetryInv, RequestsCounted, Places
    <3>2. CASE ~Enabled
      BY <3>2 DEF RetryInv, SlotPerRetry
    <3> QED
      BY <3>1, <3>2
  <2>2. MaxRetryRatio * totalRequests \in Nat
    BY <1>c
  <2>3. CASE place = "delay"
    BY <2>1, <2>2, <2>3, <1>r, <1>c DEF RatioReserved, RetriesReserved, RatioFree
  <2>4. CASE place # "delay"
    BY <2>2, <2>4, <1>r, <1>c DEF RetryInv, RatioReserved, RetriesReserved
  <2> QED
    BY <2>3, <2>4
<1>7. RetriesBegun'
  <2>1. /\ Begun \in [Calls -> Int] /\ Begun' \in [Calls -> Int] /\ \A x \in Calls : Begun[x] <= Begun'[x]
    BY <1>0, <1>1, RetryAssumption DEF RetryType, Begun, GoTo, Preparing
  <2>2. /\ Cardinality(UpTo(Begun)) <= Cardinality(UpTo(Begun')) /\ Cardinality(UpTo(Begun')) \in Nat
        /\ Cardinality(UpTo(Begun)) \in Nat
    BY <2>1, PairsBounded
  <2> QED
    BY <2>2, <1>c DEF RetryInv, RetriesBegun, UpTo
<1> QED
  BY <1>1, <1>2, <1>3, <1>4, <1>5, <1>6, <1>7 DEF RetryInv

(* Every step of a call keeps the invariant.                               *)
LEMMA RetryStepInv ==
    ASSUME RetryInv, [RetryNext]_retryVars
    PROVE  RetryInv'
<1> DEFINE S == Cardinality(At(retryAt, PastSlots))
           R == Cardinality(At(retryAt, PastRatio))
           N == Cardinality(At(retryAt, Places \ {"new"}))
<1>0. RetryType
  BY DEF RetryInv
<1>c. /\ currentRetries \in Nat /\ retriedRequests \in Nat /\ totalRequests \in Nat /\ Cardinality(Calls) \in Nat
      /\ MaxRetryRatio \in Nat /\ MaxRetryRatio * totalRequests \in Nat /\ S \in Nat /\ R \in Nat /\ N \in Nat
  BY <1>0, PlaceCounts DEF RetryType
<1>b. Begun \in [Calls -> Int] /\ Cardinality(UpTo(Begun)) \in Nat
  <2>1. Begun \in [Calls -> Int]
    BY <1>0, RetryAssumption DEF RetryType, Begun
  <2> QED
    BY <2>1, PairsBounded
<1>d. ASSUME RetryType', \A x \in Calls : Begun[x] <= Begun'[x], UNCHANGED retriedRequests PROVE RetriesBegun'
  <2>1. Begun' \in [Calls -> Int]
    BY <1>d, RetryAssumption DEF RetryType, Begun
  <2>2. Cardinality(UpTo(Begun)) <= Cardinality(UpTo(Begun')) /\ Cardinality(UpTo(Begun')) \in Nat
    BY <1>b, <1>d, <2>1, PairsBounded
  <2> QED
    BY <1>b, <1>c, <1>d, <2>2 DEF RetryInv, RetriesBegun, UpTo
<1>r. \A x \in Calls, v \in Results : [result EXCEPT ![x] = v] \in [Calls -> Results]
  BY <1>0 DEF RetryType
<1>1. ASSUME NEW c \in Calls, CallDirectly(c) PROVE RetryInv'
  <2>1. PICK v \in {"ok", "error"} : Returns(c, v)
    BY <1>1 DEF CallDirectly
  <2>2. GoTo(c, "return") /\ result' \in [Calls -> Results]
    BY <2>1, <1>r DEF Returns, Results
  <2> QED
    BY <1>1, <2>2, MoveKeeps DEF CallDirectly
<1>2. ASSUME NEW c \in Calls, RegisterRequest(c) PROVE RetryInv'
  <2>0. /\ retryAt[c] = "new" /\ Enabled /\ totalRequests' = totalRequests + 1 /\ GoTo(c, "invoke")
        /\ UNCHANGED <<Enabled, MaxRetryRatio, currentRetries, retriedRequests, attempt, slotsHeld, cancelled,
           result>>
        /\ "invoke" \in Places
    BY <1>2 DEF RegisterRequest, Places
  <2>1. RetryType'
    <3>1. retryAt' \in [Calls -> Places] /\ totalRequests' \in Nat
      BY <1>0, <1>c, <2>0, Moved
    <3> QED
      BY <1>0, <2>0, <3>1 DEF RetryType
  <2>2. SlotPerRetry'
    BY <1>0, <2>0 DEF RetryInv, RetryType, SlotPerRetry, GoTo, Preparing
  <2>3. N' = N + 1 /\ S' = S /\ R' = R
    BY <1>0, <2>0, Moved DEF Places, PastSlots, PastRatio
  <2>4. RequestsCounted'
    BY <2>0, <2>3 DEF RetryInv, RequestsCounted
  <2>5. SlotsExact' /\ SlotsReserved'
    BY <2>0, <2>3 DEF RetryInv, SlotsExact, SlotsReserved
  <2>6. RatioReserved'
    <3>1. MaxRetryRatio' * totalRequests' = MaxRetryRatio * totalRequests + MaxRetryRatio
      BY <2>0, <1>c
    <3> QED
      BY <2>0, <2>3, <3>1, <1>c DEF RetryInv, RatioReserved, RetriesReserved
  <2>7. RetriesBegun'
    <3>1. \A x \in Calls : Begun[x] <= Begun'[x]
      BY <1>0, <2>0 DEF Begun, GoTo, Preparing, RetryType
    <3> QED
      BY <1>d, <2>0, <2>1, <3>1
  <2> QED
    BY <2>1, <2>2, <2>4, <2>5, <2>6, <2>7 DEF RetryInv
<1>3. ASSUME NEW c \in Calls, Invoke(c) PROVE RetryInv'
  <2>1. ASSUME NEW v \in {"ok", "error"}, Returns(c, v), UNCHANGED attempt PROVE RetryInv'
    <3>1. GoTo(c, "return") /\ result' \in [Calls -> Results]
      BY <2>1, <1>r DEF Returns, Results
    <3> QED
      BY <1>3, <2>1, <3>1, MoveKeeps DEF Invoke
  <2>2. ASSUME ~LastAttempt(c), attempt' = [attempt EXCEPT ![c] = @ + 1], GoTo(c, "slots"), UNCHANGED result
        PROVE  RetryInv'
    <3>0. /\ retryAt[c] = "invoke" /\ "slots" \in Places
          /\ UNCHANGED <<Enabled, MaxRetryRatio, currentRetries, totalRequests, retriedRequests, slotsHeld,
             cancelled>>
      BY <1>3 DEF Invoke, Places
    <3>1. attempt' \in [Calls -> 0 .. MaxAttempts]
      BY <1>0, <2>2, RetryAssumption DEF RetryType, LastAttempt
    <3>2. RetryType'
      BY <1>0, <2>2, <3>0, <3>1, Moved DEF RetryType
    <3>3. SlotPerRetry'
      BY <1>0, <2>2, <3>0 DEF RetryInv, RetryType, SlotPerRetry, GoTo, Preparing
    <3>4. N' = N /\ S' = S /\ R' = R
      BY <1>0, <2>2, <3>0, Moved DEF Places, PastSlots, PastRatio
    <3>5. RequestsCounted' /\ SlotsExact' /\ SlotsReserved'
      BY <3>0, <3>4 DEF RetryInv, RequestsCounted, SlotsExact, SlotsReserved
    <3>6. RatioReserved'
      BY <3>0, <3>4 DEF RetryInv, RatioReserved, RetriesReserved
    <3>7. RetriesBegun'
      BY <1>0, <1>d, <2>2, <3>0, <3>2 DEF Begun, GoTo, Preparing, RetryType
    <3> QED
      BY <3>2, <3>3, <3>5, <3>6, <3>7 DEF RetryInv
  <2> QED
    BY <1>3, <2>1, <2>2 DEF Invoke
<1>4. ASSUME NEW c \in Calls, CheckSlots(c) PROVE RetryInv'
  <2>1. CASE SlotFree
    BY <1>0, <1>4, <2>1, MoveKeeps DEF CheckSlots, RetryType
  <2>2. CASE ~SlotFree
    BY <1>4, <2>2, <1>r, MoveKeeps DEF CheckSlots, Returns, Results
  <2> QED
    BY <2>1, <2>2
<1>5. ASSUME NEW c \in Calls, CheckRatio(c) PROVE RetryInv'
  <2>1. CASE RatioFree
    BY <1>0, <1>5, <2>1, MoveKeeps DEF CheckRatio, RetryType
  <2>2. CASE ~RatioFree
    BY <1>5, <2>2, <1>r, MoveKeeps DEF CheckRatio, Returns, Results
  <2> QED
    BY <2>1, <2>2
<1>6. ASSUME NEW c \in Calls, Cancelled(c) PROVE RetryInv'
  BY <1>6, <1>r, MoveKeeps DEF Cancelled, Returns, Results
<1>7. ASSUME NEW c \in Calls, DelayOver(c) PROVE RetryInv'
  BY <1>0, <1>7, MoveKeeps DEF DelayOver, RetryType
<1>8. ASSUME NEW c \in Calls, TakeSlot(c) PROVE RetryInv'
  <2>0. /\ retryAt[c] = "take" /\ currentRetries' = currentRetries + 1
        /\ slotsHeld' = [slotsHeld EXCEPT ![c] = slotsHeld[c] + 1] /\ GoTo(c, "count") /\ "count" \in Places
        /\ UNCHANGED <<Enabled, MaxRetryRatio, totalRequests, retriedRequests, attempt, cancelled, result>>
    BY <1>8 DEF TakeSlot, Places
  <2>1. slotsHeld[c] < attempt[c] /\ attempt[c] \in 0 .. MaxAttempts /\ slotsHeld[c] \in Nat
    BY <1>0, <2>0 DEF RetryInv, RetryType, SlotPerRetry, Preparing
  <2>2. slotsHeld' \in [Calls -> 0 .. MaxAttempts] /\ slotsHeld[c] < MaxAttempts
    BY <1>0, <2>0, <2>1, RetryAssumption DEF RetryType
  <2>3. RetryType'
    BY <1>0, <2>0, <2>2, Moved DEF RetryType
  <2>4. SlotPerRetry'
    BY <1>0, <2>0, <2>1 DEF RetryInv, RetryType, SlotPerRetry, GoTo, Preparing
  <2>5. N' = N /\ S' = S - 1 /\ R' = R
    BY <1>0, <2>0, Moved DEF Places, PastSlots, PastRatio
  <2>6. RequestsCounted'
    BY <2>0, <2>5 DEF RetryInv, RequestsCounted
  <2>7. SlotsExact'
    <3>1. Cardinality(UpTo(slotsHeld')) = Cardinality(UpTo(slotsHeld)) + 1
      <4>1. /\ slotsHeld \in [Calls -> 0 .. MaxAttempts] /\ slotsHeld'[c] = slotsHeld[c] + 1
            /\ \A x \in Calls : x # c => slotsHeld'[x] = slotsHeld[x]
        BY <1>0, <2>0 DEF RetryType
      <4> QED
        BY <2>2, <4>1, PairMore
    <3> QED
      BY <2>0, <3>1 DEF RetryInv, SlotsExact, UpTo
  <2>8. SlotsReserved'
    BY <2>0, <2>5, <1>c, RetryAssumption DEF RetryInv, SlotsReserved
  <2>9. RatioReserved'
    BY <2>0, <2>5 DEF RetryInv, RatioReserved, RetriesReserved
  <2>10. RetriesBegun'
    BY <1>0, <1>d, <2>0, <2>3 DEF Begun, GoTo, Preparing, RetryType
  <2> QED
    BY <2>3, <2>4, <2>6, <2>7, <2>8, <2>9, <2>10 DEF RetryInv
<1>9. ASSUME NEW c \in Calls, CountRetry(c) PROVE RetryInv'
  <2>0. /\ retryAt[c] = "count" /\ retriedRequests' = retriedRequests + 1 /\ GoTo(c, "invoke")
        /\ "invoke" \in Places
        /\ UNCHANGED <<Enabled, MaxRetryRatio, currentRetries, totalRequests, attempt, slotsHeld, cancelled,
           result>>
    BY <1>9 DEF CountRetry, Places
  <2>1. RetryType'
    BY <1>0, <2>0, Moved DEF RetryType
  <2>2. SlotPerRetry'
    BY <1>0, <2>0 DEF RetryInv, RetryType, SlotPerRetry, GoTo, Preparing
  <2>3. N' = N /\ S' = S /\ R' = R - 1
    BY <1>0, <2>0, Moved DEF Places, PastSlots, PastRatio
  <2>4. RequestsCounted' /\ SlotsExact' /\ SlotsReserved'
    BY <2>0, <2>3 DEF RetryInv, RequestsCounted, SlotsExact, SlotsReserved
  <2>5. RatioReserved'
    BY <2>0, <2>3, <1>c DEF RetryInv, RatioReserved, RetriesReserved
  <2>6. RetriesBegun'
    <3>1. /\ Begun \in [Calls -> 0 .. MaxAttempts] /\ Begun[c] < MaxAttempts
          /\ Begun'[c] = Begun[c] + 1 /\ \A x \in Calls : x # c => Begun'[x] = Begun[x]
      <4>1. attempt[c] > 0 /\ \A x \in Calls : attempt[x] \in 0 .. MaxAttempts
        BY <1>0, <2>0 DEF RetryInv, RetryType, SlotPerRetry
      <4>2. \A x \in Calls : retryAt[x] \in Preparing \cup {"count"} => attempt[x] > 0
        BY <1>0 DEF RetryInv, RetryType, SlotPerRetry, Preparing
      <4>3. Begun \in [Calls -> 0 .. MaxAttempts]
        BY <4>1, <4>2, RetryAssumption DEF Begun
      <4>4. Begun[c] = attempt[c] - 1 /\ Begun'[c] = attempt[c]
        BY <1>0, <2>0 DEF Begun, GoTo, Preparing, RetryType
      <4>5. \A x \in Calls \ {c} : Begun'[x] = Begun[x]
        BY <1>0, <2>0 DEF Begun, GoTo, RetryType
      <4> QED
        BY <4>1, <4>3, <4>4, <4>5, RetryAssumption
    <3>2. Cardinality(UpTo(Begun')) = Cardinality(UpTo(Begun)) + 1
      BY <3>1, PairMore
    <3> QED
      BY <1>b, <1>c, <2>0, <3>2 DEF RetryInv, RetriesBegun, UpTo
  <2> QED
    BY <2>1, <2>2, <2>4, <2>5, <2>6 DEF RetryInv
<1>10. ASSUME NEW c \in Calls, ReleaseRetry(c) PROVE RetryInv'
  <2>0. /\ retryAt[c] = "return" /\ slotsHeld[c] > 0 /\ currentRetries' = currentRetries - 1
        /\ slotsHeld' = [slotsHeld EXCEPT ![c] = slotsHeld[c] - 1]
        /\ UNCHANGED <<Enabled, MaxRetryRatio, totalRequests, retriedRequests, retryAt, attempt, cancelled, result>>
    BY <1>10 DEF ReleaseRetry
  <2>1. slotsHeld[c] \in 1 .. MaxAttempts /\ slotsHeld' \in [Calls -> 0 .. MaxAttempts] /\ slotsHeld'[c] < MaxAttempts
    BY <1>0, <2>0, RetryAssumption DEF RetryType
  <2>2. slotsHeld[c] = slotsHeld'[c] + 1 /\ \A x \in Calls : x # c => slotsHeld[x] = slotsHeld'[x]
    BY <1>0, <2>0, <2>1 DEF RetryType
  <2>3. Cardinality(UpTo(slotsHeld)) = Cardinality(UpTo(slotsHeld')) + 1
    BY <2>1, <2>2, PairMore
  <2>4. Cardinality(UpTo(slotsHeld')) \in Nat
    BY <2>1, PairsBounded, RetryAssumption
  <2>5. currentRetries' \in Nat /\ currentRetries' = Cardinality(UpTo(slotsHeld'))
    BY <2>0, <2>3, <2>4 DEF RetryInv, SlotsExact
  <2>6. RetryType'
    BY <1>0, <2>0, <2>1, <2>5 DEF RetryType
  <2>7. SlotPerRetry'
    BY <1>0, <2>0 DEF RetryInv, RetryType, SlotPerRetry, Preparing
  <2>8. SlotsExact'
    BY <2>5 DEF SlotsExact, UpTo
  <2>9. S' = S /\ R' = R /\ N' = N
    BY <2>0 DEF At
  <2>10. RequestsCounted' /\ RatioReserved'
    BY <2>0, <2>9 DEF RetryInv, RequestsCounted, RatioReserved, RetriesReserved
  <2>11. SlotsReserved'
    BY <2>0, <2>9, <1>c, RetryAssumption DEF RetryInv, SlotsReserved
  <2>12. RetriesBegun'
    BY <1>0, <1>d, <2>0, <2>6 DEF Begun, Preparing, RetryType
  <2> QED
    BY <2>6, <2>7, <2>8, <2>10, <2>11, <2>12 DEF RetryInv
<1>11. ASSUME NEW c \in Calls, ReturnCall(c) PROVE RetryInv'
  BY <1>0, <1>11, MoveKeeps DEF ReturnCall, RetryType
<1>12. ASSUME UNCHANGED <<Enabled, MaxRetryRatio, currentRetries, totalRequests, retriedRequests, retryAt, attempt,
                          slotsHeld, result>>, cancelled' \subseteq Calls
       PROVE  RetryInv'
  BY <1>12 DEF RetryInv, RetryType, SlotPerRetry, RequestsCounted, SlotsExact, SlotsReserved, RatioReserved,
     RetriesReserved, RetriesBegun, Begun, At, UpTo
<1>13. ASSUME NEW c \in Calls, Cancel(c) PROVE RetryInv'
  BY <1>0, <1>12, <1>13 DEF Cancel, RetryType
<1>14. CASE UNCHANGED retryVars
  BY <1>0, <1>12, <1>14 DEF retryVars, RetryType
<1> QED
  BY <1>1, <1>2, <1>3, <1>4, <1>5, <1>6, <1>7, <1>8, <1>9, <1>10, <1>11, <1>13, <1>14 DEF RetryNext, Proceed

(* However the checks, the delays, the retries and the releases of the     *)
(* calls interleave, the slots in use are exactly those of the retries     *)
(* whose calls have not returned, and the budget of slots and the ratio of *)
(* retries to requests are exceeded by less than one per call.             *)
THEOREM RetryBudget == RetrySpec => []BudgetHolds
<1>1. NewRetryInterceptor => RetryInv
  BY RetryInitInv
<1>2. RetryInv /\ [RetryNext]_retryVars => RetryInv'
  BY RetryStepInv
<1>3. RetryInv => BudgetHolds
  <2> SUFFICES ASSUME RetryInv PROVE BudgetHolds
    OBVIOUS
  <2>0. RetryType /\ Cardinality(Calls) \in Nat
    BY PlaceCounts DEF RetryInv
  <2>1. totalRequests \in 0 .. Cardinality(Calls)
    BY <2>0, PlaceCounts DEF RetryInv, RequestsCounted
  <2>2. retriedRequests \in 0 .. Cardinality(Calls) * MaxAttempts
    <3>1. Begun \in [Calls -> Int]
      BY <2>0, RetryAssumption DEF RetryType, Begun
    <3>2. /\ Cardinality(UpTo(Begun)) <= Cardinality(Calls) * MaxAttempts /\ Cardinality(UpTo(Begun)) \in Nat
          /\ Cardinality(Calls) * MaxAttempts \in Nat
      BY <2>0, <3>1, PairsBounded, RetryAssumption
    <3>3. retriedRequests \in Nat /\ retriedRequests <= Cardinality(UpTo(Begun))
      BY <2>0 DEF RetryInv, RetryType, RetriesBegun
    <3> QED
      BY <3>2, <3>3
  <2>3. RetryTypeOK
    BY <2>0, <2>1, <2>2 DEF RetryType, RetryTypeOK, Places
  <2>4. SlotOvershootBounded
    <3>1. Cardinality(At(retryAt, PastSlots)) \in Nat
      BY <2>0, PlaceCounts
    <3> QED
      BY <2>0, <3>1, RetryAssumption DEF RetryInv, RetryType, SlotsReserved, SlotOvershootBounded
  <2>5. RatioOvershootBounded
    <3>1. Cardinality(At(retryAt, PastRatio)) \in Nat
      BY <2>0, PlaceCounts
    <3>2. MaxRetryRatio * totalRequests \in Nat /\ retriedRequests \in Nat
      BY <2>0 DEF RetryType
    <3> QED
      BY <2>0, <3>1, <3>2 DEF RetryInv, RatioReserved, RetriesReserved, RatioOvershootBounded
  <2> QED
    BY <2>3, <2>4, <2>5 DEF RetryInv, BudgetHolds
<1> QED
  BY <1>1, <1>2, <1>3, PTL DEF RetrySpec

-----------------------------------------------------------------------------
(* Cluster calls *)

(* The goroutines against the interceptor that started them.               *)
TasksOfCall ==
    /\ call \in {"new", "list"} => \A i \in Instances : task[i] = "none"
    /\ call = "wait" => \A i \in Instances : task[i] # "none"
    /\ call = "returned" => (\A i \in Instances : task[i] = "none") \/ (\A i \in Instances : task[i] = "end")
    /\ ch = "closed" => call = "returned"

(* The errgroup of broadcast keeps an error as long as there is one.       *)
GroupKeepsErrors ==
    cluster = "broadcast" =>
        /\ groupErr \in {"ok", "error"}
        /\ \A i \in Instances : /\ task[i] \in {"none", "dial", "invoke", "end"}
                                /\ task[i] = "end" => answer[i] \in {"ok", "error"}
                                /\ answer[i] = "error" => groupErr = "error"
        /\ call = "returned" => (\A i \in Instances : task[i] = "none") \/ callErr = groupErr

(* A receiver that was ready early is ready still, or has been served.     *)
EarlyWaits ==
    cluster = "fastest" /\ early /\ received = {} =>
        reader = "ready" /\ \A i \in Instances : task[i] # "end"

ClusterInv == ClusterTypeOK /\ TasksOfCall /\ GroupKeepsErrors /\ EarlyWaits

(* No step of the call, of a task or of the receiver breaks the invariant. *)
LEMMA ClusterStepInv ==
    ASSUME ClusterInv, [ClusterNext]_clusterVars
    PROVE  ClusterInv'
<1> USE DEF ClusterInv, ClusterTypeOK, TasksOfCall, GroupKeepsErrors, EarlyWaits, UsesChannel, Clusters
<1>1. CASE Broadcast \/ Direct
  BY <1>1 DEF Broadcast, Direct
<1>2. CASE ListFails
  BY <1>2 DEF ListFails, CloseIfUsed
<1>3. CASE ListServices
  BY <1>3 DEF ListServices
<1>4. ASSUME NEW i \in Instances, Dial(i) PROVE ClusterInv'
  <2>1. CASE i \in unreachable /\ UsesChannel
    BY <1>4, <2>1 DEF Dial
  <2>2. CASE i \in unreachable /\ ~UsesChannel
    BY <1>4, <2>2 DEF Dial, GroupReturns
  <2>3. CASE i \notin unreachable
    BY <1>4, <2>3 DEF Dial
  <2> QED
    BY <2>1, <2>2, <2>3
<1>5. ASSUME NEW i \in Instances, InvokeOn(i) PROVE ClusterInv'
  <2>1. CASE UsesChannel
    BY <1>5, <2>1 DEF InvokeOn
  <2>2. CASE ~UsesChannel
    BY <1>5, <2>2 DEF InvokeOn, GroupReturns
  <2> QED
    BY <2>1, <2>2
<1>6. ASSUME NEW i \in Instances, Deliver(i) PROVE ClusterInv'
  BY <1>6 DEF Deliver
<1>7. ASSUME NEW i \in Instances, Drop(i) PROVE ClusterInv'
  BY <1>7 DEF Drop, Drops
<1>8. CASE Return
  BY <1>8 DEF Return, AllEnded, CloseIfUsed
<1>9. CASE ReaderReady
  <2>1. early' => early \/ call \in {"new", "list"}
    BY <1>9 DEF ReaderReady
  <2> QED
    BY <1>9, <2>1 DEF ReaderReady
<1>10. CASE ReaderLeaves
  BY <1>10 DEF ReaderLeaves
<1>11. CASE CancelCall
  BY <1>11 DEF CancelCall
<1>12. CASE UNCHANGED clusterVars
  BY <1>12 DEF clusterVars
<1> QED
  BY <1>1, <1>2, <1>3, <1>4, <1>5, <1>6, <1>7, <1>8, <1>9, <1>10, <1>11,
     <1>12 DEF ClusterNext, Program, Work

(* Whatever the order in which instances answer, fail, are cancelled or    *)
(* find no receiver: the channel is closed after its last sender, nil from *)
(* a broadcast means that every instance answered without an error, and a  *)
(* receiver that was ready before the answers gets one of the fastest call.*)
THEOREM ClusterAnswers == ClusterSpec => []AnswersRight
<1>1. ClusterInit => ClusterInv
  BY DEF ClusterInit, NewClusterBuilder, Clusters, ClusterInv, ClusterTypeOK, TasksOfCall, GroupKeepsErrors,
     EarlyWaits
<1>2. ClusterInv /\ [ClusterNext]_clusterVars => ClusterInv'
  BY ClusterStepInv
<1>3. ClusterInv => AnswersRight
  BY DEF ClusterInv, ClusterTypeOK, TasksOfCall, GroupKeepsErrors, EarlyWaits, AnswersRight, ClosedAfterSenders,
     NilMeansEveryInstance, EarlyReaderIsServed
<1> QED
  BY <1>1, <1>2, <1>3, PTL DEF ClusterSpec

-----------------------------------------------------------------------------
(* Dial *)

ClientType ==
    /\ enablePool \in BOOLEAN /\ enableCircuitBreaker \in BOOLEAN /\ poolWaits \in BOOLEAN
    /\ made \in [pools : Nat, breakers : Nat]
    /\ pools \in [Targets -> 0 .. made.pools] /\ poolsMu \in Dialers \cup {NoDialer}
    /\ circuitBreakers \in [Targets -> 0 .. made.breakers]
    /\ shut \subseteq 1 .. made.pools /\ lent \in [1 .. made.pools -> 0 .. MaxActive]
    /\ dial \in [Dialers -> DialSteps] /\ target \in [Dialers -> Targets]
    /\ pool \in [Dialers -> 0 .. made.pools] /\ breaker \in [Dialers -> 0 .. made.breakers]
    /\ ctxOver \subseteq Dialers /\ misplaced \subseteq Dialers
    /\ outcome \in [Dialers -> {"none", "pooled", "direct", "failed", "rejected"}]
    /\ closing \in {"no", "breakers"} /\ closes \in 0 .. MaxCloses /\ seenCloses \in [Dialers -> 0 .. MaxCloses]
    /\ closing = "breakers" => closes < MaxCloses

(* A caller asks a pool that exists.                                       *)
PoolFound == \A d \in Dialers : dial[d] = "get" => pool[d] # 0

(* As long as no Close has emptied the map of the breakers, the breaker    *)
(* that allowed a caller is the one the map has.                           *)
BreakerStays ==
    \A d \in Dialers :
        /\ dial[d] \in {"report", "makeAgain"} => enableCircuitBreaker
        /\ seenCloses[d] <= closes
        /\ dial[d] \in {"lookup", "lock", "get", "direct", "report", "makeAgain"} /\ enableCircuitBreaker
              /\ seenCloses[d] = closes
           => breaker[d] # 0 /\ circuitBreakers[target[d]] = breaker[d]

ClientInv == ClientType /\ PoolFound /\ BreakerStays /\ NoOrphanPool /\ OutcomeReachesBreaker

(* A new client has made nothing.                                          *)
LEMMA ClientInitInv == ClientInit => ClientInv
<1> SUFFICES ASSUME NEW p \in BOOLEAN, NEW b \in BOOLEAN, NEW w \in BOOLEAN, NewClient(p, b, w) PROVE ClientInv
  BY DEF ClientInit
<1>1. lent \in [1 .. made.pools -> 0 .. MaxActive]
  BY DEF NewClient
<1>2. ClientType
  BY <1>1, ClientAssumption DEF NewClient, ClientType, DialSteps, NoDialer
<1>3. PoolFound /\ BreakerStays
  BY ClientAssumption DEF NewClient, PoolFound, BreakerStays
<1>4. NoOrphanPool /\ OutcomeReachesBreaker
  BY DEF NewClient, NoOrphanPool, OutcomeReachesBreaker
<1> QED
  BY <1>2, <1>3, <1>4 DEF ClientInv

(* What was numbered up to m is numbered up to every larger n.             *)
LEMMA Widened ==
    ASSUME NEW S, NEW m \in Nat, NEW n \in Nat, m <= n, NEW f \in [S -> 0 .. m]
    PROVE  f \in [S -> 0 .. n]
<1>1. \A x \in S : f[x] \in 0 .. n
  OBVIOUS
<1> QED
  BY <1>1

(* Counting one more pool, or one more breaker, leaves the other count.    *)
LEMMA Counted ==
    ASSUME NEW r \in [pools : Nat, breakers : Nat], NEW n \in Nat
    PROVE  /\ [r EXCEPT !.breakers = n] \in [pools : Nat, breakers : Nat]
           /\ [r EXCEPT !.pools = n] \in [pools : Nat, breakers : Nat]
           /\ [r EXCEPT !.breakers = n].pools = r.pools /\ [r EXCEPT !.breakers = n].breakers = n
           /\ [r EXCEPT !.pools = n].pools = n /\ [r EXCEPT !.pools = n].breakers = r.breakers
  OBVIOUS

(* Making the breaker of a target that has none disturbs no caller.        *)
LEMMA BreakerMade ==
    ASSUME ClientInv, NEW t \in Targets, MakeBreaker(t)
    PROVE  /\ made' \in [pools : Nat, breakers : Nat] /\ made'.pools = made.pools /\ made.breakers <= made'.breakers
           /\ circuitBreakers' \in [Targets -> 0 .. made'.breakers] /\ circuitBreakers'[t] # 0
           /\ \A u \in Targets : circuitBreakers[u] # 0 => circuitBreakers'[u] = circuitBreakers[u]
<1>1. CASE MakeNeeded(t)
  <2> DEFINE n == made.breakers + 1
  <2>1. made \in [pools : Nat, breakers : Nat] /\ n \in Nat /\ made.breakers <= n
    BY DEF ClientInv, ClientType
  <2>2. made' = [made EXCEPT !.breakers = n] /\ circuitBreakers' = [circuitBreakers EXCEPT ![t] = n]
    BY <1>1 DEF MakeBreaker
  <2>3. circuitBreakers \in [Targets -> 0 .. n] /\ circuitBreakers[t] = 0
    BY <1>1, <2>1, Widened DEF ClientInv, ClientType, MakeNeeded
  <2>4. /\ made' \in [pools : Nat, breakers : Nat] /\ made'.pools = made.pools /\ made'.breakers = n
    BY <2>1, <2>2, Counted
  <2> HIDE DEF n
  <2>5. /\ circuitBreakers' \in [Targets -> 0 .. n] /\ circuitBreakers'[t] = n
        /\ \A u \in Targets : u # t => circuitBreakers'[u] = circuitBreakers[u]
    BY <2>1, <2>2, <2>3
  <2>6. n # 0
    BY <2>1 DEF n
  <2> QED
    BY <2>1, <2>3, <2>4, <2>5, <2>6
<1>2. CASE ~MakeNeeded(t)
  BY <1>2 DEF ClientInv, ClientType, MakeBreaker, MakeNeeded
<1> QED
  BY <1>1, <1>2

(* Allow, by the breaker the map has or has just got.                      *)
LEMMA AllowKeeps ==
    ASSUME ClientInv, NEW d \in Dialers, Allowed(d), UNCHANGED <<options, poolVars, closeVars, ctxOver>>,
           made' \in [pools : Nat, breakers : Nat], made'.pools = made.pools, made.breakers <= made'.breakers,
           circuitBreakers' \in [Targets -> 0 .. made'.breakers], circuitBreakers'[target[d]] # 0,
           \A u \in Targets : circuitBreakers[u] # 0 => circuitBreakers'[u] = circuitBreakers[u]
    PROVE  ClientInv'
<1> USE ClientAssumption
<1>0. PICK ok \in BOOLEAN : /\ DialAt(d, IF ok THEN "lookup" ELSE "done")
                            /\ outcome' = [outcome EXCEPT ![d] = IF ok THEN outcome[d] ELSE "rejected"]
  BY DEF Allowed
<1>1. /\ breaker' = [breaker EXCEPT ![d] = circuitBreakers'[target[d]]]
      /\ seenCloses' = [seenCloses EXCEPT ![d] = closes] /\ UNCHANGED misplaced
      /\ dial'[d] \in {"lookup", "done"} /\ \A x \in Dialers : x # d => dial'[x] = dial[x]
      /\ dial' \in [Dialers -> DialSteps]
  BY <1>0 DEF Allowed, DialAt, ClientInv, ClientType, DialSteps
<1>2. ClientType'
  <2>1. outcome' \in [Dialers -> {"none", "pooled", "direct", "failed", "rejected"}]
    BY <1>0 DEF ClientInv, ClientType
  <2>2. breaker' \in [Dialers -> 0 .. made'.breakers]
    <3>1. made.breakers \in Nat /\ made'.breakers \in Nat
      BY DEF ClientInv, ClientType
    <3>2. breaker \in [Dialers -> 0 .. made'.breakers]
      BY <3>1, Widened DEF ClientInv, ClientType
    <3> QED
      BY <1>1, <3>2 DEF ClientInv, ClientType
  <2> QED
    BY <1>1, <2>1, <2>2 DEF ClientInv, ClientType, options, poolVars, closeVars
<1>3. PoolFound'
  BY <1>1 DEF ClientInv, PoolFound, poolVars
<1>4. BreakerStays'
  <2>1. /\ target[d] \in Targets /\ breaker'[d] = circuitBreakers'[target[d]] /\ seenCloses'[d] = closes
        /\ \A x \in Dialers : x # d => breaker'[x] = breaker[x] /\ seenCloses'[x] = seenCloses[x]
        /\ \A x \in Dialers : target[x] \in Targets
        /\ closes \in Nat
    BY <1>1 DEF ClientInv, ClientType
  <2>2. UNCHANGED <<enableCircuitBreaker, target, closes>>
    BY DEF options, closeVars
  <2> QED
    BY <1>1, <2>1, <2>2 DEF ClientInv, BreakerStays
<1>5. NoOrphanPool' /\ OutcomeReachesBreaker'
  BY <1>1 DEF ClientInv, NoOrphanPool, OutcomeReachesBreaker, InMap, poolVars
<1> QED
  BY <1>2, <1>3, <1>4, <1>5 DEF ClientInv

(* The report of an outcome, to the breaker the map has or has just got.   *)
LEMMA ReportKeeps ==
    ASSUME ClientInv, NEW d \in Dialers, dial[d] \in {"report", "makeAgain"}, Reported(d),
           UNCHANGED <<options, poolVars, breaker, seenCloses, closeVars, ctxOver, outcome>>,
           made' \in [pools : Nat, breakers : Nat], made'.pools = made.pools, made.breakers <= made'.breakers,
           circuitBreakers' \in [Targets -> 0 .. made'.breakers],
           \A u \in Targets : circuitBreakers[u] # 0 => circuitBreakers'[u] = circuitBreakers[u]
    PROVE  ClientInv'
<1> USE ClientAssumption
<1>1. UNCHANGED misplaced
  BY DEF ClientInv, ClientType, BreakerStays, Reported
<1>2. dial' = [dial EXCEPT ![d] = "done"]
  BY DEF Reported, DialAt
<1>3. ClientType'
  <2>1. made.breakers \in Nat /\ made'.breakers \in Nat
    BY DEF ClientInv, ClientType
  <2>2. breaker \in [Dialers -> 0 .. made'.breakers]
    BY <2>1, Widened DEF ClientInv, ClientType
  <2>3. dial' \in [Dialers -> DialSteps]
    BY <1>2 DEF ClientInv, ClientType, DialSteps
  <2> QED
    BY <1>1, <2>2, <2>3 DEF ClientInv, ClientType, options, poolVars, closeVars
<1>4. PoolFound'
  BY <1>2 DEF ClientInv, ClientType, PoolFound, poolVars
<1>5. BreakerStays'
  BY <1>2 DEF ClientInv, ClientType, BreakerStays, options, closeVars
<1>6. NoOrphanPool' /\ OutcomeReachesBreaker'
  BY <1>1 DEF ClientInv, NoOrphanPool, OutcomeReachesBreaker, InMap, poolVars
<1> QED
  BY <1>3, <1>4, <1>5, <1>6 DEF ClientInv

(* A caller that gets on while the maps stay as they are.                  *)
LEMMA DialGoesOn ==
    ASSUME ClientInv, NEW d \in Dialers, NEW step \in DialSteps \ {"new", "allow", "makeBreaker"}, DialAt(d, step),
           dial[d] \in {"lookup", "get", "direct", "report"}, step = "makeAgain" => dial[d] = "report",
           step = "report" => enableCircuitBreaker,
           UNCHANGED <<options, pools, shut, breakerVars, closeVars, made, ctxOver>>,
           poolsMu' \in Dialers \cup {NoDialer}, lent' \in [1 .. made.pools -> 0 .. MaxActive],
           outcome' \in [Dialers -> {"none", "pooled", "direct", "failed", "rejected"}],
           pool' \in [Dialers -> 0 .. made.pools], \A x \in Dialers : x # d => pool'[x] = pool[x],
           step = "get" => pool'[d] # 0
    PROVE  ClientInv'
<1> USE ClientAssumption
<1>1. dial' \in [Dialers -> DialSteps] /\ dial'[d] = step /\ \A x \in Dialers : x # d => dial'[x] = dial[x]
  BY DEF DialAt, ClientInv, ClientType
<1>2. ClientType'
  BY <1>1 DEF ClientInv, ClientType, options, breakerVars, closeVars
<1>3. PoolFound'
  BY <1>1 DEF ClientInv, PoolFound
<1>4. BreakerStays'
  BY <1>1 DEF ClientInv, BreakerStays, options, breakerVars, closeVars
<1>5. NoOrphanPool' /\ OutcomeReachesBreaker'
  BY DEF ClientInv, NoOrphanPool, OutcomeReachesBreaker, InMap, breakerVars
<1> QED
  BY <1>2, <1>3, <1>4, <1>5 DEF ClientInv

(* Every step of a caller or of Close keeps the invariant.                 *)
LEMMA ClientStepInv ==
    ASSUME ClientInv, [ClientNext]_clientVars
    PROVE  ClientInv'
<1> USE ClientAssumption
<1>0. ClientType
  BY DEF ClientInv
<1>1. ASSUME NEW d \in Dialers, StartDial(d) PROVE ClientInv'
  <2>1. ClientType'
    BY <1>1 DEF ClientInv, ClientType, StartDial, DialAt, DialSteps, options, poolVars, breakerVars, closeVars
  <2>2. PoolFound'
    BY <1>1 DEF ClientInv, ClientType, PoolFound, StartDial, DialAt, poolVars
  <2>3. BreakerStays'
    BY <1>1 DEF ClientInv, ClientType, BreakerStays, StartDial, DialAt, options, breakerVars, closeVars
  <2>4. NoOrphanPool' /\ OutcomeReachesBreaker'
    BY <1>1 DEF ClientInv, NoOrphanPool, OutcomeReachesBreaker, InMap, StartDial, poolVars, breakerVars
  <2> QED
    BY <2>1, <2>2, <2>3, <2>4 DEF ClientInv
<1>2. ASSUME NEW d \in Dialers, FindBreaker(d) PROVE ClientInv'
  <2>1. CASE circuitBreakers[target[d]] = 0
    <3>1. ClientType'
      BY <1>2, <2>1 DEF ClientInv, ClientType, FindBreaker, DialAt, DialSteps, options, poolVars, breakerVars,
         closeVars
    <3>2. PoolFound'
      BY <1>2, <2>1 DEF ClientInv, ClientType, PoolFound, FindBreaker, DialAt, poolVars
    <3>3. BreakerStays'
      BY <1>2, <2>1 DEF ClientInv, ClientType, BreakerStays, FindBreaker, DialAt, options, breakerVars, closeVars
    <3>4. NoOrphanPool' /\ OutcomeReachesBreaker'
      BY <1>2, <2>1 DEF ClientInv, NoOrphanPool, OutcomeReachesBreaker, InMap, FindBreaker, poolVars, breakerVars
    <3> QED
      BY <3>1, <3>2, <3>3, <3>4 DEF ClientInv
  <2>2. CASE circuitBreakers[target[d]] # 0
    <3>1. UNCHANGED circuitBreakers /\ Allowed(d) /\ UNCHANGED <<options, poolVars, closeVars, made, ctxOver>>
      BY <1>2, <2>2 DEF FindBreaker
    <3>2. /\ made' \in [pools : Nat, breakers : Nat] /\ made'.pools = made.pools /\ made.breakers <= made'.breakers
          /\ circuitBreakers' \in [Targets -> 0 .. made'.breakers]
      BY <1>0, <3>1 DEF ClientType
    <3> QED
      BY <2>2, <3>1, <3>2, AllowKeeps
  <2> QED
    BY <2>1, <2>2
<1>3. ASSUME NEW d \in Dialers, MakeFirstBreaker(d) PROVE ClientInv'
  <2>1. target[d] \in Targets
    BY <1>0 DEF ClientType
  <2>2. MakeBreaker(target[d]) /\ Allowed(d) /\ UNCHANGED <<options, poolVars, closeVars, ctxOver>>
    BY <1>3 DEF MakeFirstBreaker
  <2> QED
    BY <2>1, <2>2, BreakerMade, AllowKeeps
<1>4. ASSUME NEW d \in Dialers, LookupPool(d) PROVE ClientInv'
  <2>1. /\ dial[d] = "lookup" /\ pool' = [pool EXCEPT ![d] = pools[target[d]]]
        /\ UNCHANGED <<options, pools, poolsMu, shut, lent, breakerVars, closeVars, made, ctxOver, outcome>>
    BY <1>4 DEF LookupPool
  <2>2. PICK step \in {"direct", "get", "lock"} : DialAt(d, step) /\ (step = "get" => pools[target[d]] # 0)
    BY <1>4 DEF LookupPool
  <2>3. /\ pool' \in [Dialers -> 0 .. made.pools] /\ pool'[d] = pools[target[d]]
        /\ \A x \in Dialers : x # d => pool'[x] = pool[x]
    BY <1>0, <2>1 DEF ClientType
  <2> QED
    BY <1>0, <2>1, <2>2, <2>3, DialGoesOn DEF ClientType, DialSteps
<1>5. ASSUME NEW d \in Dialers, LockPools(d) PROVE ClientInv'
  <2>0. /\ dial[d] = "lock" /\ poolsMu' = d /\ pool' = [pool EXCEPT ![d] = pools'[target[d]]] /\ DialAt(d, "get")
        /\ UNCHANGED <<options, shut, breakerVars, closeVars, ctxOver, outcome>> /\ target[d] \in Targets
    BY <1>0, <1>5 DEF LockPools, ClientType
  <2>1. /\ made' \in [pools : Nat, breakers : Nat] /\ made'.breakers = made.breakers /\ made.pools <= made'.pools
        /\ pools' \in [Targets -> 0 .. made'.pools] /\ pools'[target[d]] # 0
        /\ lent' \in [1 .. made'.pools -> 0 .. MaxActive]
        /\ 1 .. made'.pools \subseteq shut \cup InMap'
    <3>1. CASE SecondLook(target[d])
      <4>1. /\ made' = [made EXCEPT !.pools = made.pools + 1]
            /\ pools' = [pools EXCEPT ![target[d]] = made.pools + 1]
            /\ lent' = [p \in 1 .. made.pools + 1 |-> IF p \in DOMAIN lent THEN lent[p] ELSE 0]
        BY <1>5, <3>1 DEF LockPools
      <4>2. /\ made' \in [pools : Nat, breakers : Nat] /\ made'.breakers = made.breakers
            /\ made'.pools = made.pools + 1 /\ made.pools \in Nat
        <5>1. made \in [pools : Nat, breakers : Nat] /\ made.pools + 1 \in Nat /\ made.pools \in Nat
          BY <1>0 DEF ClientType
        <5> QED
          BY <4>1, <5>1, Counted
      <4>3. pools' \in [Targets -> 0 .. made'.pools] /\ pools'[target[d]] # 0
        BY <1>0, <2>0, <4>1, <4>2 DEF ClientType
      <4>4. lent' \in [1 .. made'.pools -> 0 .. MaxActive]
        BY <1>0, <4>1, <4>2 DEF ClientType
      <4>5. InMap' = InMap \cup {made.pools + 1}
        BY <1>0, <2>0, <3>1, <4>1, <4>2 DEF ClientType, InMap, SecondLook
      <4>6. 1 .. made'.pools \subseteq shut \cup InMap'
        BY <4>2, <4>5 DEF ClientInv, NoOrphanPool
      <4> QED
        BY <4>2, <4>3, <4>4, <4>6
    <3>2. CASE ~SecondLook(target[d])
      BY <1>0, <1>5, <3>2 DEF LockPools, ClientType, ClientInv, NoOrphanPool, InMap, SecondLook
    <3> QED
      BY <3>1, <3>2
  <2>2. /\ pool' \in [Dialers -> 0 .. made'.pools] /\ pool'[d] # 0
        /\ \A x \in Dialers : x # d => pool'[x] = pool[x]
    BY <1>0, <2>0, <2>1 DEF ClientType
  <2>3. dial' \in [Dialers -> DialSteps] /\ dial'[d] = "get" /\ \A x \in Dialers : x # d => dial'[x] = dial[x]
    BY <1>0, <2>0 DEF ClientType, DialAt, DialSteps
  <2>4. ClientType'
    <3>1. shut \subseteq 1 .. made'.pools
      BY <1>0, <2>1 DEF ClientType
    <3>2. poolsMu' \in Dialers
      BY <2>0
    <3> QED
      BY <1>0, <2>0, <2>1, <2>2, <2>3, <3>1, <3>2 DEF ClientType, options, breakerVars, closeVars
  <2>5. PoolFound'
    BY <2>2, <2>3 DEF ClientInv, PoolFound
  <2>6. BreakerStays'
    BY <2>0, <2>3 DEF ClientInv, BreakerStays, options, breakerVars, closeVars
  <2>7. NoOrphanPool' /\ OutcomeReachesBreaker'
    BY <2>0, <2>1 DEF ClientInv, NoOrphanPool, OutcomeReachesBreaker, breakerVars
  <2> QED
    BY <2>4, <2>5, <2>6, <2>7 DEF ClientInv
<1>6. ASSUME NEW d \in Dialers, NEW how \in {"pooled", "direct", "failed"}, Connected(d, how),
             dial[d] \in {"get", "direct"}, lent' \in [1 .. made.pools -> 0 .. MaxActive],
             UNCHANGED <<options, pools, shut, pool, breakerVars, closeVars, made, ctxOver>>
      PROVE  ClientInv'
  <2>1. PICK step \in {"report", "done"} : DialAt(d, step) /\ (step = "report" => enableCircuitBreaker)
    BY <1>6 DEF Connected
  <2>2. /\ poolsMu' \in Dialers \cup {NoDialer}
        /\ outcome' \in [Dialers -> {"none", "pooled", "direct", "failed", "rejected"}]
        /\ pool' \in [Dialers -> 0 .. made.pools]
    BY <1>0, <1>6 DEF ClientType, Connected, Unlocks
  <2> QED
    BY <1>6, <2>1, <2>2, DialGoesOn DEF DialSteps
<1>7. ASSUME NEW d \in Dialers, GetConn(d) PROVE ClientInv'
  <2>1. pool[d] \in 1 .. made.pools
    BY <1>0, <1>7 DEF ClientInv, ClientType, PoolFound, GetConn
  <2>2. lent' \in [1 .. made.pools -> 0 .. MaxActive]
    <3>1. lent[pool[d]] + 1 \in 0 .. MaxActive
      <4>1. lent[pool[d]] \in 0 .. MaxActive
        BY <1>0, <2>1 DEF ClientType
      <4>2. lent[pool[d]] < MaxActive
        BY <1>7 DEF GetConn
      <4> QED
        BY <4>1, <4>2
    <3>2. lent \in [1 .. made.pools -> 0 .. MaxActive] /\ lent' = [lent EXCEPT ![pool[d]] = lent[pool[d]] + 1]
      BY <1>0, <1>7 DEF ClientType, GetConn
    <3> QED
      BY <2>1, <3>1, <3>2
  <2> QED
    BY <1>6, <1>7, <2>2 DEF GetConn
<1>8. ASSUME NEW d \in Dialers, GetFails(d) PROVE ClientInv'
  <2>1. /\ dial[d] = "get" /\ DialAt(d, "direct")
        /\ UNCHANGED <<options, poolVars, breakerVars, closeVars, made, ctxOver, outcome>>
    BY <1>8 DEF GetFails
  <2> QED
    BY <1>0, <2>1, DialGoesOn DEF ClientType, DialSteps, poolVars
<1>9. ASSUME NEW d \in Dialers, DialTarget(d) PROVE ClientInv'
  BY <1>0, <1>6, <1>9 DEF DialTarget, ClientType
<1>10. ASSUME NEW d \in Dialers, Report(d) PROVE ClientInv'
  <2>1. CASE circuitBreakers[target[d]] = 0
    <3>1. /\ dial[d] = "report" /\ DialAt(d, "makeAgain")
          /\ UNCHANGED <<options, poolVars, breakerVars, closeVars, made, ctxOver, outcome>>
      BY <1>10, <2>1 DEF Report, breakerVars
    <3> QED
      BY <1>0, <3>1, DialGoesOn DEF ClientType, DialSteps, poolVars
  <2>2. CASE circuitBreakers[target[d]] # 0
    <3>1. /\ dial[d] = "report" /\ Reported(d) /\ UNCHANGED <<circuitBreakers, made>>
          /\ UNCHANGED <<options, poolVars, breaker, seenCloses, closeVars, ctxOver, outcome>>
      BY <1>10, <2>2 DEF Report
    <3>2. /\ made' \in [pools : Nat, breakers : Nat] /\ made'.pools = made.pools /\ made.breakers <= made'.breakers
          /\ circuitBreakers' \in [Targets -> 0 .. made'.breakers]
      BY <1>0, <3>1 DEF ClientType
    <3> QED
      BY <3>1, <3>2, ReportKeeps
  <2> QED
    BY <2>1, <2>2
<1>11. ASSUME NEW d \in Dialers, MakeAndReport(d) PROVE ClientInv'
  <2>1. target[d] \in Targets
    BY <1>0 DEF ClientType
  <2>2. /\ dial[d] = "makeAgain" /\ MakeBreaker(target[d]) /\ Reported(d)
        /\ UNCHANGED <<options, poolVars, breaker, seenCloses, closeVars, ctxOver, outcome>>
    BY <1>11 DEF MakeAndReport
  <2> QED
    BY <2>1, <2>2, BreakerMade, ReportKeeps
<1>12. CASE ClosePools
  <2>1. ClientType'
    <3>1. shut' \subseteq 1 .. made.pools
      <4>1. shut \subseteq 1 .. made.pools /\ \A t \in Targets : pools[t] \in 0 .. made.pools
        BY <1>0 DEF ClientType
      <4>2. made.pools \in Nat
        BY <1>0 DEF ClientType
      <4>3. InMap \subseteq 1 .. made.pools
        BY <4>1, <4>2 DEF InMap
      <4> QED
        BY <1>12, <4>1, <4>3 DEF ClosePools
    <3>2. pools' \in [Targets -> 0 .. made.pools]
      BY <1>0, <1>12 DEF ClosePools, ClientType
    <3> QED
      BY <1>0, <1>12, <3>1, <3>2 DEF ClosePools, ClientType, options, breakerVars
  <2>2. PoolFound' /\ OutcomeReachesBreaker'
    BY <1>12 DEF ClosePools, ClientInv, PoolFound, OutcomeReachesBreaker, breakerVars
  <2>3. BreakerStays'
    BY <1>12 DEF ClosePools, ClientInv, BreakerStays, options, breakerVars
  <2>4. NoOrphanPool'
    BY <1>12 DEF ClosePools, ClientInv, NoOrphanPool
  <2> QED
    BY <2>1, <2>2, <2>3, <2>4 DEF ClientInv
<1>13. CASE CloseBreakers
  <2>1. ClientType'
    BY <1>0, <1>13 DEF CloseBreakers, ClientType, options, poolVars
  <2>2. PoolFound' /\ OutcomeReachesBreaker'
    BY <1>13 DEF CloseBreakers, ClientInv, PoolFound, OutcomeReachesBreaker, poolVars
  <2>3. BreakerStays'
    <3>1. /\ closes \in Nat /\ closes' = closes + 1 /\ seenCloses \in [Dialers -> Nat]
          /\ UNCHANGED <<seenCloses, dial, enableCircuitBreaker>>
      BY <1>0, <1>13 DEF CloseBreakers, ClientType, options
    <3>2. ASSUME NEW d \in Dialers
          PROVE  /\ seenCloses'[d] <= closes' /\ seenCloses'[d] # closes'
                 /\ dial'[d] \in {"report", "makeAgain"} => enableCircuitBreaker'
      <4>1. seenCloses[d] <= closes /\ (dial[d] \in {"report", "makeAgain"} => enableCircuitBreaker)
        BY DEF ClientInv, BreakerStays
      <4> QED
        BY <3>1, <4>1
    <3> QED
      BY <3>2 DEF BreakerStays
  <2>4. NoOrphanPool'
    BY <1>13 DEF CloseBreakers, ClientInv, NoOrphanPool, InMap, poolVars
  <2> QED
    BY <2>1, <2>2, <2>3, <2>4 DEF ClientInv
<1>14. ASSUME ctxOver' \subseteq Dialers,
              UNCHANGED <<options, poolVars, breakerVars, closeVars, made, dial, outcome>>
       PROVE  ClientInv'
  <2>1. ClientType'
    BY <1>0, <1>14 DEF ClientType, options, poolVars, breakerVars, closeVars
  <2>2. PoolFound' /\ BreakerStays'
    BY <1>14 DEF ClientInv, PoolFound, BreakerStays, options, poolVars, breakerVars, closeVars
  <2>3. NoOrphanPool' /\ OutcomeReachesBreaker'
    BY <1>14 DEF ClientInv, NoOrphanPool, OutcomeReachesBreaker, InMap, poolVars, breakerVars
  <2> QED
    BY <2>1, <2>2, <2>3 DEF ClientInv
<1>15. ASSUME NEW d \in Dialers, ContextOver(d) PROVE ClientInv'
  BY <1>0, <1>14, <1>15 DEF ContextOver, ClientType
<1>16. CASE UNCHANGED clientVars
  BY <1>0, <1>14, <1>16 DEF clientVars, ClientType, options, poolVars, breakerVars, closeVars
<1> QED
  BY <1>1, <1>2, <1>3, <1>4, <1>5, <1>7, <1>8, <1>9, <1>10, <1>11, <1>12, <1>13, <1>15, <1>16 DEF ClientNext,
     DialStep

(* However the lookups, the second looks under the lock and Close          *)
(* interleave, every pool that was made is one that Close will find or has *)
(* closed, and the outcome of a dial is reported to the breaker that       *)
(* allowed it unless a Close has emptied the map since.                    *)
THEOREM DialSharing == ClientSpec => []DialsShare
<1>1. ClientInit => ClientInv
  BY ClientInitInv
<1>2. ClientInv /\ [ClientNext]_clientVars => ClientInv'
  BY ClientStepInv
<1>3. ClientInv => DialsShare
  BY DEF ClientInv, ClientType, ClientTypeOK, DialsShare
<1> QED
  BY <1>1, <1>2, <1>3, PTL DEF ClientSpec

-----------------------------------------------------------------------------
(* Start, Close and the signal handler *)

Began == {"listen", "register", "serve", "serving", "cleanup", "reset"}
InClose == {"unregister", "closeRegistry", "stop", "drain"}

ServerType ==
    /\ registry \in BOOLEAN /\ mu \in AllClosers \cup {NoOne} /\ running \in BOOLEAN
    /\ listener \in Starters \cup {NoOne} /\ listening \subseteq Starters /\ listed \subseteq Starters
    /\ grpcState \in {"new", "serving", "draining", "stopped"} /\ session \in {"open", "closed"}
    /\ start \in [Starters -> StartSteps] /\ close \in [AllClosers -> CloseSteps]
    /\ handler \in {"none", "wait", "closing", "over"} /\ crashed \in BOOLEAN /\ refused \in BOOLEAN

(* Who is in Close holds the mutex, and closes the registry before it      *)
(* stops the server.                                                       *)
CloseOrder ==
    /\ \A c \in AllClosers : close[c] \in InClose => mu = c
    /\ registry => \A c \in AllClosers : close[c] \in {"stop", "drain"} => session = "closed"
    /\ session = "closed" \/ ~registry => listed = {}
    /\ ~registry => /\ \A s \in Starters : start[s] # "register"
                    /\ \A c \in AllClosers : close[c] \notin {"unregister", "closeRegistry"}

(* Until a Close can have reset running, there is one Start that counts,   *)
(* running says that there is, and only this Start has served or is in     *)
(* the registry.                                                           *)
Untouched == grpcState \in {"new", "serving"} \/ (registry /\ session = "open")
OneStart ==
    Untouched =>
        /\ \A s, t \in Starters : start[s] \in Began \cup {"ok"} /\ start[t] \in Began \cup {"ok"} => s = t
        /\ \A s \in Starters : start[s] \in Began \cup {"ok"} => running
        /\ grpcState # "new" \/ handler # "none" => \E s \in Starters : start[s] \in {"serving", "ok"}
        /\ listed # {} => \E s \in Starters : start[s] \in {"serve", "serving", "ok"}

(* A running server has a Start that will end it or a Close that does, and *)
(* once grpc has stopped, the Start is not one that serves.                *)
SomebodyRuns ==
    running /\ mu = NoOne /\ ~refused =>
        \E s \in Starters : /\ start[s] \in Began
                            /\ grpcState \in {"draining", "stopped"} => start[s] # "serving"

ServerInv == ServerType /\ CloseOrder /\ OneStart /\ SomebodyRuns

(* No step of Start, of Close or of the signal handler breaks it.          *)
LEMMA ServerStepInv ==
    ASSUME ServerInv, [ServerNext]_serverVars
    PROVE  ServerInv'
<1> USE ServerAssumption
<1>1. ASSUME NEW s \in Starters, StartServer(s) PROVE ServerInv'
  <2>1. ServerType'
    BY <1>1 DEF ServerInv, ServerType, StartSteps, StartServer, StartAt
  <2>2. CloseOrder'
    BY <1>1 DEF ServerInv, ServerType, CloseOrder, StartServer, StartAt
  <2>3. OneStart'
    BY <1>1 DEF ServerInv, ServerType, OneStart, Untouched, Began, StartServer, StartAt
  <2>4. SomebodyRuns'
    BY <1>1 DEF ServerInv, ServerType, SomebodyRuns, Began, StartServer, StartAt
  <2> QED
    BY <2>1, <2>2, <2>3, <2>4 DEF ServerInv
<1>2. ASSUME NEW s \in Starters, Listen(s) PROVE ServerInv'
  <2>1. ServerType'
    BY <1>2 DEF ServerInv, ServerType, StartSteps, Listen, StartAt
  <2>2. CloseOrder'
    BY <1>2 DEF ServerInv, ServerType, CloseOrder, Listen, StartAt
  <2>3. OneStart'
    BY <1>2 DEF ServerInv, ServerType, OneStart, Untouched, Began, Listen, StartAt
  <2>4. SomebodyRuns'
    BY <1>2 DEF ServerInv, ServerType, SomebodyRuns, Began, Listen, StartAt
  <2> QED
    BY <2>1, <2>2, <2>3, <2>4 DEF ServerInv
<1>3. ASSUME NEW s \in Starters, ListenFails(s) PROVE ServerInv'
  <2>1. ServerType'
    BY <1>3 DEF ServerInv, ServerType, StartSteps, ListenFails, StartAt
  <2>2. CloseOrder'
    BY <1>3 DEF ServerInv, ServerType, CloseOrder, ListenFails, StartAt
  <2>3. OneStart'
    BY <1>3 DEF ServerInv, ServerType, OneStart, Untouched, Began, ListenFails, StartAt
  <2>4. SomebodyRuns'
    BY <1>3 DEF ServerInv, ServerType, SomebodyRuns, Began, ListenFails, StartAt
  <2> QED
    BY <2>1, <2>2, <2>3, <2>4 DEF ServerInv
<1>4. ASSUME NEW s \in Starters, Register(s) PROVE ServerInv'
  <2>1. ServerType'
    BY <1>4 DEF ServerInv, ServerType, StartSteps, Register, StartAt, LeaseHolds
  <2>2. CloseOrder'
    BY <1>4 DEF ServerInv, ServerType, CloseOrder, Register, StartAt, LeaseHolds
  <2>3. OneStart'
    BY <1>4 DEF ServerInv, ServerType, OneStart, Untouched, Began, Register, StartAt, LeaseHolds
  <2>4. SomebodyRuns'
    BY <1>4 DEF ServerInv, ServerType, SomebodyRuns, Began, Register, StartAt, LeaseHolds
  <2> QED
    BY <2>1, <2>2, <2>3, <2>4 DEF ServerInv
<1>5. ASSUME NEW s \in Starters, RegisterFails(s) PROVE ServerInv'
  <2>1. ServerType'
    BY <1>5 DEF ServerInv, ServerType, StartSteps, RegisterFails, StartAt
  <2>2. CloseOrder'
    BY <1>5 DEF ServerInv, ServerType, CloseOrder, RegisterFails, StartAt
  <2>3. OneStart'
    BY <1>5 DEF ServerInv, ServerType, OneStart, Untouched, Began, RegisterFails, StartAt
  <2>4. SomebodyRuns'
    BY <1>5 DEF ServerInv, ServerType, SomebodyRuns, Began, RegisterFails, StartAt
  <2> QED
    BY <2>1, <2>2, <2>3, <2>4 DEF ServerInv
<1>6. ASSUME NEW s \in Starters, Serve(s) PROVE ServerInv'
  <2>1. ServerType'
    BY <1>6 DEF ServerInv, ServerType, StartSteps, Serve, StartAt
  <2>2. CloseOrder'
    BY <1>6 DEF ServerInv, ServerType, CloseOrder, Serve, StartAt
  <2>3. OneStart'
    BY <1>6 DEF ServerInv, ServerType, OneStart, Untouched, Began, Serve, StartAt
  <2>4. SomebodyRuns'
    BY <1>6 DEF ServerInv, ServerType, SomebodyRuns, Began, Serve, StartAt
  <2> QED
    BY <2>1, <2>2, <2>3, <2>4 DEF ServerInv
<1>7. ASSUME NEW s \in Starters, ServeReturns(s) PROVE ServerInv'
  <2>1. ServerType'
    BY <1>7 DEF ServerInv, ServerType, StartSteps, ServeReturns, StartAt
  <2>2. CloseOrder'
    BY <1>7 DEF ServerInv, ServerType, CloseOrder, ServeReturns, StartAt
  <2>3. OneStart'
    BY <1>7 DEF ServerInv, ServerType, OneStart, Untouched, Began, ServeReturns, StartAt
  <2>4. SomebodyRuns'
    BY <1>7 DEF ServerInv, ServerType, SomebodyRuns, Began, ServeReturns, StartAt
  <2> QED
    BY <2>1, <2>2, <2>3, <2>4 DEF ServerInv
<1>8. ASSUME NEW s \in Starters, CloseListener(s) PROVE ServerInv'
  <2>1. ServerType'
    BY <1>8 DEF ServerInv, ServerType, StartSteps, CloseListener, StartAt
  <2>2. CloseOrder'
    BY <1>8 DEF ServerInv, ServerType, CloseOrder, CloseListener, StartAt
  <2>3. OneStart'
    BY <1>8 DEF ServerInv, ServerType, OneStart, Untouched, Began, CloseListener, StartAt
  <2>4. SomebodyRuns'
    BY <1>8 DEF ServerInv, ServerType, SomebodyRuns, Began, CloseListener, StartAt
  <2> QED
    BY <2>1, <2>2, <2>3, <2>4 DEF ServerInv
<1>9. ASSUME NEW s \in Starters, FailStart(s) PROVE ServerInv'
  <2>1. ServerType'
    BY <1>9 DEF ServerInv, ServerType, StartSteps, FailStart, StartAt, ResetRunning
  <2>2. CloseOrder'
    BY <1>9 DEF ServerInv, ServerType, CloseOrder, FailStart, StartAt, ResetRunning
  <2>3. OneStart'
    BY <1>9 DEF ServerInv, ServerType, OneStart, Untouched, Began, FailStart, StartAt, ResetRunning
  <2>4. SomebodyRuns'
    BY <1>9 DEF ServerInv, ServerType, SomebodyRuns, Began, FailStart, StartAt, ResetRunning
  <2> QED
    BY <2>1, <2>2, <2>3, <2>4 DEF ServerInv
<1>10. ASSUME NEW c \in AllClosers, BeginClose(c) PROVE ServerInv'
  <2>1. ServerType'
    BY <1>10 DEF ServerInv, ServerType, CloseSteps, BeginClose, CloseAt
  <2>2. CloseOrder'
    BY <1>10 DEF ServerInv, ServerType, CloseOrder, InClose, AllClosers, NoOne, Handler, BeginClose, CloseAt
  <2>3. OneStart'
    BY <1>10 DEF ServerInv, ServerType, OneStart, Untouched, CloseOrder, BeginClose, CloseAt
  <2>4. SomebodyRuns'
    BY <1>10 DEF ServerInv, ServerType, SomebodyRuns, CloseOrder, InClose, BeginClose, CloseAt
  <2> QED
    BY <2>1, <2>2, <2>3, <2>4 DEF ServerInv
<1>11. ASSUME NEW c \in AllClosers, UnRegister(c) PROVE ServerInv'
  <2>1. ServerType'
    BY <1>11 DEF ServerInv, ServerType, CloseSteps, UnRegister, CloseAt
  <2>2. CloseOrder'
    BY <1>11 DEF ServerInv, ServerType, CloseOrder, InClose, UnRegister, CloseAt
  <2>3. OneStart'
    BY <1>11 DEF ServerInv, ServerType, OneStart, Untouched, CloseOrder, UnRegister, CloseAt
  <2>4. SomebodyRuns'
    BY <1>11 DEF ServerInv, ServerType, SomebodyRuns, CloseOrder, InClose, UnRegister, CloseAt
  <2> QED
    BY <2>1, <2>2, <2>3, <2>4 DEF ServerInv
<1>12. ASSUME NEW c \in AllClosers, CloseRegistry(c) PROVE ServerInv'
  <2>1. ServerType'
    BY <1>12 DEF ServerInv, ServerType, CloseSteps, CloseRegistry, CloseAt
  <2>2. CloseOrder'
    BY <1>12 DEF ServerInv, ServerType, CloseOrder, InClose, CloseRegistry, CloseAt
  <2>3. OneStart'
    BY <1>12 DEF ServerInv, ServerType, OneStart, Untouched, CloseOrder, CloseRegistry, CloseAt
  <2>4. SomebodyRuns'
    BY <1>12 DEF ServerInv, ServerType, SomebodyRuns, CloseOrder, InClose, CloseRegistry, CloseAt
  <2> QED
    BY <2>1, <2>2, <2>3, <2>4 DEF ServerInv
<1>13. ASSUME NEW c \in AllClosers, CloseRegistryFails(c) PROVE ServerInv'
  <2>1. ServerType'
    BY <1>13 DEF ServerInv, ServerType, CloseSteps, CloseRegistryFails, CloseAt
  <2>2. CloseOrder'
    BY <1>13 DEF ServerInv, ServerType, CloseOrder, InClose, CloseRegistryFails, CloseAt
  <2>3. OneStart'
    BY <1>13 DEF ServerInv, ServerType, OneStart, Untouched, CloseOrder, CloseRegistryFails, CloseAt
  <2>4. SomebodyRuns'
    BY <1>13 DEF ServerInv, ServerType, SomebodyRuns, CloseOrder, InClose, CloseRegistryFails, CloseAt
  <2> QED
    BY <2>1, <2>2, <2>3, <2>4 DEF ServerInv
<1>14. ASSUME NEW c \in AllClosers, GracefulStop(c) PROVE ServerInv'
  <2>1. ServerType'
    BY <1>14 DEF ServerInv, ServerType, CloseSteps, GracefulStop, CloseAt
  <2>2. CloseOrder'
    BY <1>14 DEF ServerInv, ServerType, CloseOrder, InClose, GracefulStop, CloseAt
  <2>3. OneStart'
    BY <1>14 DEF ServerInv, ServerType, OneStart, Untouched, CloseOrder, GracefulStop, CloseAt
  <2>4. SomebodyRuns'
    BY <1>14 DEF ServerInv, ServerType, SomebodyRuns, CloseOrder, InClose, NoOne, AllClosers, Handler,
       GracefulStop, CloseAt
  <2> QED
    BY <2>1, <2>2, <2>3, <2>4 DEF ServerInv
<1>15. ASSUME NEW c \in AllClosers, EndClose(c) PROVE ServerInv'
  <2>1. ServerType'
    BY <1>15 DEF ServerInv, ServerType, CloseSteps, EndClose, CloseAt
  <2>2. CloseOrder'
    BY <1>15 DEF ServerInv, ServerType, CloseOrder, InClose, EndClose, CloseAt
  <2>3. OneStart'
    BY <1>15 DEF ServerInv, ServerType, OneStart, Untouched, CloseOrder, EndClose, CloseAt
  <2>4. SomebodyRuns'
    BY <1>15 DEF ServerInv, ServerType, SomebodyRuns, CloseOrder, InClose, EndClose, CloseAt
  <2> QED
    BY <2>1, <2>2, <2>3, <2>4 DEF ServerInv
<1>16. CASE NilListener
  <2>1. ServerType'
    BY <1>16 DEF ServerInv, ServerType, NilListener
  <2>2. CloseOrder'
    BY <1>16 DEF ServerInv, ServerType, CloseOrder, NilListener
  <2>3. OneStart'
    BY <1>16 DEF ServerInv, ServerType, OneStart, Untouched, NilListener
  <2>4. SomebodyRuns'
    BY <1>16 DEF ServerInv, ServerType, SomebodyRuns, NilListener
  <2> QED
    BY <2>1, <2>2, <2>3, <2>4 DEF ServerInv
<1>17. CASE LeaseExpires
  <2>1. ServerType'
    BY <1>17 DEF ServerInv, ServerType, LeaseExpires
  <2>2. CloseOrder'
    BY <1>17 DEF ServerInv, ServerType, CloseOrder, LeaseExpires
  <2>3. OneStart'
    BY <1>17 DEF ServerInv, ServerType, OneStart, Untouched, LeaseExpires
  <2>4. SomebodyRuns'
    BY <1>17 DEF ServerInv, ServerType, SomebodyRuns, LeaseExpires
  <2> QED
    BY <2>1, <2>2, <2>3, <2>4 DEF ServerInv
<1>18. CASE Drained
  <2>1. ServerType'
    BY <1>18 DEF ServerInv, ServerType, Drained
  <2>2. CloseOrder'
    BY <1>18 DEF ServerInv, ServerType, CloseOrder, Drained
  <2>3. OneStart'
    BY <1>18 DEF ServerInv, ServerType, OneStart, Untouched, Drained
  <2>4. SomebodyRuns'
    BY <1>18 DEF ServerInv, ServerType, SomebodyRuns, Drained
  <2> QED
    BY <2>1, <2>2, <2>3, <2>4 DEF ServerInv
<1>19. CASE Signal
  <2>1. ServerType'
    BY <1>19 DEF ServerInv, ServerType, Signal
  <2>2. CloseOrder'
    BY <1>19 DEF ServerInv, ServerType, CloseOrder, Signal
  <2>3. OneStart'
    BY <1>19 DEF ServerInv, ServerType, OneStart, Untouched, Signal
  <2>4. SomebodyRuns'
    BY <1>19 DEF ServerInv, ServerType, SomebodyRuns, Signal
  <2> QED
    BY <2>1, <2>2, <2>3, <2>4 DEF ServerInv
<1>20. CASE HandlerEnds
  <2>1. ServerType'
    BY <1>20 DEF ServerInv, ServerType, HandlerEnds
  <2>2. CloseOrder'
    BY <1>20 DEF ServerInv, ServerType, CloseOrder, HandlerEnds
  <2>3. OneStart'
    BY <1>20 DEF ServerInv, ServerType, OneStart, Untouched, HandlerEnds
  <2>4. SomebodyRuns'
    BY <1>20 DEF ServerInv, ServerType, SomebodyRuns, HandlerEnds
  <2> QED
    BY <2>1, <2>2, <2>3, <2>4 DEF ServerInv
<1>21. CASE HandlerStops
  <2>1. ServerType'
    BY <1>21 DEF ServerInv, ServerType, HandlerStops
  <2>2. CloseOrder'
    BY <1>21 DEF ServerInv, ServerType, CloseOrder, HandlerStops
  <2>3. OneStart'
    BY <1>21 DEF ServerInv, ServerType, OneStart, Untouched, HandlerStops
  <2>4. SomebodyRuns'
    BY <1>21 DEF ServerInv, ServerType, SomebodyRuns, HandlerStops
  <2> QED
    BY <2>1, <2>2, <2>3, <2>4 DEF ServerInv
<1>22. CASE UNCHANGED serverVars
  BY <1>22 DEF serverVars, ServerInv, ServerType, CloseOrder, OneStart, SomebodyRuns, Untouched
<1> QED
  BY <1>1, <1>2, <1>3, <1>4, <1>5, <1>6, <1>7, <1>8, <1>9, <1>10, <1>11, <1>12, <1>13, <1>14, <1>15, <1>16, <1>17,
     <1>18, <1>19, <1>20, <1>21, <1>22 DEF ServerNext, StartStep, CloseStep

(* However Start, Close, the signal handler and the lease of the registry  *)
(* are ordered, a server that was closed is not in the registry, and       *)
(* running tells whether somebody serves.                                  *)
THEOREM ServerTells == ServerSpec => []ServerTold
<1>1. ServerInit => ServerInv
  <2> SUFFICES ASSUME NEW r \in Registries, NewServer(r) PROVE ServerInv
    BY DEF ServerInit
  <2>1. ServerType
    BY ServerAssumption DEF NewServer, ServerType, StartSteps, CloseSteps, NoOne
  <2>2. CloseOrder
    BY DEF NewServer, CloseOrder, InClose
  <2>3. OneStart /\ SomebodyRuns
    BY DEF NewServer, OneStart, SomebodyRuns, Began
  <2> QED
    BY <2>1, <2>2, <2>3 DEF ServerInv
<1>2. ServerInv /\ [ServerNext]_serverVars => ServerInv'
  BY ServerStepInv
<1>3. ServerInv => ServerTold
  <2> SUFFICES ASSUME ServerInv PROVE ServerTold
    OBVIOUS
  <2>1. ServerTypeOK
    BY DEF ServerInv, ServerType, ServerTypeOK
  <2>2. NotListedOnceClosed
    BY DEF ServerInv, ServerType, CloseOrder, OneStart, Untouched, Began, NotListedOnceClosed
  <2>3. RunningTellsTruth
    BY DEF ServerInv, OneStart, Untouched, SomebodyRuns, Began, RunningTellsTruth
  <2> QED
    BY <2>1, <2>2, <2>3 DEF ServerTold
<1> QED
  BY <1>1, <1>2, <1>3, PTL DEF ServerSpec

-----------------------------------------------------------------------------
(* resolve *)

ResolverType ==
    /\ fallback \in BOOLEAN /\ periodic \in BOOLEAN /\ up \in BOOLEAN /\ fresh \in BOOLEAN /\ overlap \in BOOLEAN
    /\ registered \subseteq Servers /\ faults \in 0 .. MaxFaults /\ pending \in 0 .. faults
    /\ channel \in {"none", "open", "closed"}
    /\ cache \subseteq Servers /\ lastServices \subseteq Servers
    /\ pushed \in (SUBSET Servers) \cup {Fallback}
    /\ routine \in [Routines -> RoutineSteps] /\ services \in [Routines -> SUBSET Servers]
    /\ tries \in [Routines -> 0 .. RetryAttempts]
    /\ resolver \in {"building", "failed", "open", "closing", "closed"}

(* While Build resolves, no other goroutine runs.                          *)
BuildsAlone ==
    /\ routine["build"] # "off" => resolver = "building"
    /\ resolver = "building" => \A g \in Routines : g # "build" => routine[g] = "off"

(* Without an overlap one goroutine at most has pushed and not recorded,   *)
(* and what it is about to record is what it pushed.                       *)
RecordFollows ==
    ~overlap =>
        /\ \A g, h \in Routines : routine[g] = "record" /\ routine[h] = "record" => g = h
        /\ \A g \in Routines : routine[g] = "record" => pushed = services[g]
        /\ (\A g \in Routines : routine[g] # "record") => pushed \in {Fallback, {}} \/ lastServices = pushed

ResolverInv == ResolverType /\ BuildsAlone /\ RecordFollows

(* No step of a goroutine, of Close or of the registry breaks it.          *)
LEMMA ResolverStepInv ==
    ASSUME ResolverInv, [ResolverNext]_resolverVars
    PROVE  ResolverInv'
<1> USE ResolverAssumption
<1>1. ASSUME NEW g \in Routines, CheckCache(g) PROVE ResolverInv'
  <2>1. ResolverType'
    BY <1>1 DEF ResolverInv, ResolverType, RoutineSteps, CheckCache, Go, Keep, registryVars, sharedVars
  <2>2. BuildsAlone'
    BY <1>1 DEF ResolverInv, ResolverType, BuildsAlone, Routines, CheckCache, Go
  <2>3. RecordFollows'
    BY <1>1 DEF ResolverInv, ResolverType, RecordFollows, CheckCache, Go, Keep, sharedVars
  <2> QED
    BY <2>1, <2>2, <2>3 DEF ResolverInv
<1>2. ASSUME NEW g \in Routines, ListInstances(g) PROVE ResolverInv'
  <2>1. ResolverType'
    BY <1>2 DEF ResolverInv, ResolverType, RoutineSteps, ListInstances, Go, Keep, registryVars, sharedVars
  <2>2. BuildsAlone'
    BY <1>2 DEF ResolverInv, ResolverType, BuildsAlone, ListInstances, Go
  <2>3. RecordFollows'
    BY <1>2 DEF ResolverInv, ResolverType, RecordFollows, ListInstances, Go, Keep, sharedVars
  <2> QED
    BY <2>1, <2>2, <2>3 DEF ResolverInv
<1>3. ASSUME NEW g \in Routines, ListErr(g) PROVE ResolverInv'
  <2>1. ResolverType'
    BY <1>3 DEF ResolverInv, ResolverType, RoutineSteps, ListErr, Go, Resolved, MayRetry, registryVars, sharedVars
  <2>2. BuildsAlone'
    BY <1>3 DEF ResolverInv, ResolverType, BuildsAlone, Routines, ListErr, Go, Resolved
  <2>3. RecordFollows'
    BY <1>3 DEF ResolverInv, ResolverType, RecordFollows, BuildsAlone, ListErr, Go, Resolved, sharedVars
  <2> QED
    BY <2>1, <2>2, <2>3 DEF ResolverInv
<1>4. ASSUME NEW g \in Routines, RetryDelayOver(g) PROVE ResolverInv'
  <2>1. ResolverType'
    BY <1>4 DEF ResolverInv, ResolverType, RoutineSteps, RetryDelayOver, Go, registryVars, sharedVars
  <2>2. BuildsAlone'
    BY <1>4 DEF ResolverInv, ResolverType, BuildsAlone, RetryDelayOver, Go
  <2>3. RecordFollows'
    BY <1>4 DEF ResolverInv, ResolverType, RecordFollows, RetryDelayOver, Go, sharedVars
  <2> QED
    BY <2>1, <2>2, <2>3 DEF ResolverInv
<1>5. ASSUME NEW g \in Routines, RetryDelayClosed(g) PROVE ResolverInv'
  <2>1. ResolverType'
    BY <1>5 DEF ResolverInv, ResolverType, RoutineSteps, RetryDelayClosed, Resolved, Go, registryVars, sharedVars
  <2>2. BuildsAlone'
    BY <1>5 DEF ResolverInv, ResolverType, BuildsAlone, Routines, RetryDelayClosed, Resolved, Go
  <2>3. RecordFollows'
    BY <1>5 DEF ResolverInv, ResolverType, RecordFollows, BuildsAlone, RetryDelayClosed, Resolved, Go, sharedVars
  <2> QED
    BY <2>1, <2>2, <2>3 DEF ResolverInv
<1>6. ASSUME NEW g \in Routines, SetCache(g) PROVE ResolverInv'
  <2>1. ResolverType'
    BY <1>6 DEF ResolverInv, ResolverType, RoutineSteps, SetCache, Go, registryVars
  <2>2. BuildsAlone'
    BY <1>6 DEF ResolverInv, ResolverType, BuildsAlone, SetCache, Go
  <2>3. RecordFollows'
    BY <1>6 DEF ResolverInv, ResolverType, RecordFollows, SetCache, Go
  <2> QED
    BY <2>1, <2>2, <2>3 DEF ResolverInv
<1>7. ASSUME NEW g \in Routines, Compare(g) PROVE ResolverInv'
  <2>1. ResolverType'
    BY <1>7 DEF ResolverInv, ResolverType, RoutineSteps, Compare, Go, Resolved, registryVars, sharedVars
  <2>2. BuildsAlone'
    BY <1>7 DEF ResolverInv, ResolverType, BuildsAlone, Routines, Compare, Go, Resolved
  <2>3. RecordFollows'
    BY <1>7 DEF ResolverInv, ResolverType, RecordFollows, BuildsAlone, Compare, Go, Resolved, sharedVars
  <2> QED
    BY <2>1, <2>2, <2>3 DEF ResolverInv
<1>8. ASSUME NEW g \in Routines, PushFallback(g) PROVE ResolverInv'
  <2>1. ResolverType'
    <3>1. overlap' \in BOOLEAN
      BY <1>8 DEF PushFallback, ResolverInv, ResolverType
    <3>2. /\ routine' \in [Routines -> RoutineSteps] /\ services' \in [Routines -> SUBSET Servers]
          /\ tries' \in [Routines -> 0 .. RetryAttempts]
          /\ resolver' \in {"building", "failed", "open", "closing", "closed"}
      BY <1>8 DEF PushFallback, Resolved, Go, ResolverInv, ResolverType, RoutineSteps, Routines
    <3> QED
      BY <1>8, <3>1, <3>2 DEF PushFallback, ResolverInv, ResolverType, registryVars
  <2>2. BuildsAlone'
    BY <1>8 DEF ResolverInv, ResolverType, BuildsAlone, Routines, PushFallback, Resolved, Go
  <2>3. RecordFollows'
    BY <1>8 DEF ResolverInv, ResolverType, RecordFollows, BuildsAlone, PushFallback, Resolved, Go, OthersRecord
  <2> QED
    BY <2>1, <2>2, <2>3 DEF ResolverInv
<1>9. ASSUME NEW g \in Routines, PushState(g) PROVE ResolverInv'
  <2>1. ResolverType'
    BY <1>9 DEF ResolverInv, ResolverType, RoutineSteps, PushState, Resolved, Go, registryVars
  <2>2. BuildsAlone'
    BY <1>9 DEF ResolverInv, ResolverType, BuildsAlone, Routines, PushState, Resolved, Go
  <2>3. RecordFollows'
    <3>1. CASE services[g] = {}
      <4>1. /\ pushed' = {} /\ routine'[g] # "record" /\ \A h \in Routines : h # g => routine'[h] = routine[h]
        BY <1>9, <3>1 DEF PushState, Resolved, Go, ResolverInv, ResolverType
      <4>2. ~overlap' => \A h \in Routines : h # g => routine[h] # "record"
        BY <1>9 DEF PushState, OthersRecord
      <4> QED
        BY <4>1, <4>2 DEF RecordFollows
    <3>2. CASE services[g] # {}
      <4>1. /\ pushed' = services[g] /\ services' = services /\ lastServices' = lastServices
            /\ routine'[g] = "record" /\ \A h \in Routines : h # g => routine'[h] = routine[h]
        BY <1>9, <3>2 DEF PushState, Go, ResolverInv, ResolverType
      <4>2. ~overlap' => \A h \in Routines : h # g => routine[h] # "record"
        BY <1>9 DEF PushState, OthersRecord
      <4> QED
        BY <4>1, <4>2 DEF RecordFollows
    <3> QED
      BY <3>1, <3>2
  <2> QED
    BY <2>1, <2>2, <2>3 DEF ResolverInv
<1>10. ASSUME NEW g \in Routines, RecordServices(g) PROVE ResolverInv'
  <2>1. ResolverType'
    BY <1>10 DEF ResolverInv, ResolverType, RoutineSteps, RecordServices, Resolved, Go, Recorded, registryVars
  <2>2. BuildsAlone'
    BY <1>10 DEF ResolverInv, ResolverType, BuildsAlone, Routines, RecordServices, Resolved, Go
  <2>3. RecordFollows'
    BY <1>10 DEF ResolverInv, ResolverType, RecordFollows, BuildsAlone, RecordServices, Resolved, Go, Recorded
  <2> QED
    BY <2>1, <2>2, <2>3 DEF ResolverInv
<1>11. ASSUME NEW g \in Routines, Leave(g) PROVE ResolverInv'
  <2>1. ResolverType'
    BY <1>11 DEF ResolverInv, ResolverType, RoutineSteps, Leave, Go, registryVars, sharedVars
  <2>2. BuildsAlone'
    BY <1>11 DEF ResolverInv, ResolverType, BuildsAlone, Leave, Go
  <2>3. RecordFollows'
    BY <1>11 DEF ResolverInv, ResolverType, RecordFollows, Leave, Go, SeesClose, sharedVars
  <2> QED
    BY <2>1, <2>2, <2>3 DEF ResolverInv
<1>12. ASSUME NEW S \in SUBSET Servers, Change(S) PROVE ResolverInv'
  <2>1. ResolverType'
    BY <1>12 DEF ResolverInv, ResolverType, Change, sharedVars
  <2>2. BuildsAlone'
    BY <1>12 DEF ResolverInv, ResolverType, BuildsAlone, Change
  <2>3. RecordFollows'
    BY <1>12 DEF ResolverInv, ResolverType, RecordFollows, Change, sharedVars
  <2> QED
    BY <2>1, <2>2, <2>3 DEF ResolverInv
<1>13. CASE Event
  <2>1. ResolverType'
    BY <1>13 DEF ResolverInv, ResolverType, RoutineSteps, Routines, Event, Resolves, Go, sharedVars
  <2>2. BuildsAlone'
    BY <1>13 DEF ResolverInv, ResolverType, BuildsAlone, Event, Resolves, Go
  <2>3. RecordFollows'
    BY <1>13 DEF ResolverInv, ResolverType, RecordFollows, Event, Resolves, Go, sharedVars
  <2> QED
    BY <2>1, <2>2, <2>3 DEF ResolverInv
<1>14. CASE Tick
  <2>1. ResolverType'
    BY <1>14 DEF ResolverInv, ResolverType, RoutineSteps, Tick, Resolves, Go, registryVars, sharedVars
  <2>2. BuildsAlone'
    BY <1>14 DEF ResolverInv, ResolverType, BuildsAlone, Tick, Resolves, Go
  <2>3. RecordFollows'
    BY <1>14 DEF ResolverInv, ResolverType, RecordFollows, Tick, Resolves, Go, sharedVars
  <2> QED
    BY <2>1, <2>2, <2>3 DEF ResolverInv
<1>15. CASE ResolveNow
  <2>1. ResolverType'
    BY <1>15 DEF ResolverInv, ResolverType, RoutineSteps, ResolveNow, Resolves, Go, registryVars, sharedVars
  <2>2. BuildsAlone'
    BY <1>15 DEF ResolverInv, ResolverType, BuildsAlone, ResolveNow, Resolves, Go
  <2>3. RecordFollows'
    BY <1>15 DEF ResolverInv, ResolverType, RecordFollows, ResolveNow, Resolves, Go, sharedVars
  <2> QED
    BY <2>1, <2>2, <2>3 DEF ResolverInv
<1>16. CASE Subscribe
  <2>1. ResolverType'
    BY <1>16 DEF ResolverInv, ResolverType, RoutineSteps, Subscribe, Go, MayRetry, sharedVars
  <2>2. BuildsAlone'
    BY <1>16 DEF ResolverInv, ResolverType, BuildsAlone, Routines, Subscribe, Go
  <2>3. RecordFollows'
    BY <1>16 DEF ResolverInv, ResolverType, RecordFollows, Subscribe, Go, sharedVars
  <2> QED
    BY <2>1, <2>2, <2>3 DEF ResolverInv
<1>17. CASE CloseResolver
  <2>1. ResolverType'
    BY <1>17 DEF ResolverInv, ResolverType, CloseResolver, registryVars, sharedVars
  <2>2. BuildsAlone'
    BY <1>17 DEF ResolverInv, ResolverType, BuildsAlone, CloseResolver
  <2>3. RecordFollows'
    BY <1>17 DEF ResolverInv, ResolverType, RecordFollows, CloseResolver, sharedVars
  <2> QED
    BY <2>1, <2>2, <2>3 DEF ResolverInv
<1>18. CASE Waited
  <2>1. ResolverType'
    BY <1>18 DEF ResolverInv, ResolverType, Waited, registryVars, sharedVars
  <2>2. BuildsAlone'
    BY <1>18 DEF ResolverInv, ResolverType, BuildsAlone, Waited
  <2>3. RecordFollows'
    BY <1>18 DEF ResolverInv, ResolverType, RecordFollows, Waited, sharedVars
  <2> QED
    BY <2>1, <2>2, <2>3 DEF ResolverInv
<1>19. CASE Outage
  <2>1. ResolverType'
    <3>1. faults' \in 0 .. MaxFaults /\ pending' \in 0 .. faults'
      <4>1. MaxFaults \in Nat /\ faults \in 0 .. MaxFaults /\ pending \in 0 .. faults
        BY DEF ResolverInv, ResolverType
      <4>2. faults < MaxFaults /\ faults' = faults + 1 /\ pending' = pending
        BY <1>19 DEF Outage
      <4> QED
        BY <4>1, <4>2
    <3>2. up' \in BOOLEAN
      BY <1>19 DEF Outage
    <3> QED
      BY <1>19, <3>1, <3>2 DEF ResolverInv, ResolverType, Outage, sharedVars
  <2>2. BuildsAlone'
    BY <1>19 DEF ResolverInv, ResolverType, BuildsAlone, Outage
  <2>3. RecordFollows'
    BY <1>19 DEF ResolverInv, ResolverType, RecordFollows, Outage, sharedVars
  <2> QED
    BY <2>1, <2>2, <2>3 DEF ResolverInv
<1>20. CASE Recover
  <2>1. ResolverType'
    BY <1>20 DEF ResolverInv, ResolverType, Recover, sharedVars
  <2>2. BuildsAlone'
    BY <1>20 DEF ResolverInv, ResolverType, BuildsAlone, Recover
  <2>3. RecordFollows'
    BY <1>20 DEF ResolverInv, ResolverType, RecordFollows, Recover, sharedVars
  <2> QED
    BY <2>1, <2>2, <2>3 DEF ResolverInv
<1>21. CASE CancelWatch
  <2>1. ResolverType'
    BY <1>21 DEF ResolverInv, ResolverType, CancelWatch, sharedVars
  <2>2. BuildsAlone'
    BY <1>21 DEF ResolverInv, ResolverType, BuildsAlone, CancelWatch
  <2>3. RecordFollows'
    BY <1>21 DEF ResolverInv, ResolverType, RecordFollows, CancelWatch, sharedVars
  <2> QED
    BY <2>1, <2>2, <2>3 DEF ResolverInv
<1>22. CASE Expire
  <2>1. ResolverType'
    BY <1>22 DEF ResolverInv, ResolverType, Expire, registryVars
  <2>2. BuildsAlone'
    BY <1>22 DEF ResolverInv, ResolverType, BuildsAlone, Expire
  <2>3. RecordFollows'
    BY <1>22 DEF ResolverInv, ResolverType, RecordFollows, Expire
  <2> QED
    BY <2>1, <2>2, <2>3 DEF ResolverInv
<1>23. CASE UNCHANGED resolverVars
  BY <1>23 DEF resolverVars, ResolverInv, ResolverType, BuildsAlone, RecordFollows
<1> QED
  BY <1>1, <1>2, <1>3, <1>4, <1>5, <1>6, <1>7, <1>8, <1>9, <1>10, <1>11, <1>12, <1>13, <1>14, <1>15, <1>16, <1>17,
     <1>18, <1>19, <1>20, <1>21, <1>22, <1>23 DEF ResolverNext, ResolveStep

(* Whichever goroutines resolve at the same time, the record that decides  *)
(* whether the next push is needed is what gRPC has, unless two pushes     *)
(* have overlapped.                                                        *)
THEOREM RecordKept == ResolverSpec => []RecordRight
<1>1. ResolverInit => ResolverInv
  <2> SUFFICES ASSUME NEW f \in Fallbacks, NEW p \in BOOLEAN, NEW S \in SUBSET Servers, NewResolver(f, p, S)
               PROVE  ResolverInv
    BY DEF ResolverInit
  <2>1. ResolverType
    <3>1. f \in BOOLEAN
      BY ResolverAssumption
    <3>2. faults \in 0 .. MaxFaults /\ pending \in 0 .. faults /\ tries \in [Routines -> 0 .. RetryAttempts]
      BY ResolverAssumption DEF NewResolver
    <3>3. routine \in [Routines -> RoutineSteps] /\ services \in [Routines -> SUBSET Servers]
      BY DEF NewResolver, RoutineSteps
    <3> QED
      BY <3>1, <3>2, <3>3 DEF NewResolver, ResolverType
  <2>2. BuildsAlone /\ RecordFollows
    BY DEF NewResolver, BuildsAlone, RecordFollows, Routines
  <2> QED
    BY <2>1, <2>2 DEF ResolverInv
<1>2. ResolverInv /\ [ResolverNext]_resolverVars => ResolverInv'
  BY ResolverStepInv
<1>3. ResolverInv => RecordRight
  <2> SUFFICES ASSUME ResolverInv PROVE RecordRight
    OBVIOUS
  <2>1. ResolverTypeOK
    <3>1. pending \in 0 .. MaxFaults
      BY ResolverAssumption DEF ResolverInv, ResolverType
    <3> QED
      BY <3>1 DEF ResolverInv, ResolverType, ResolverTypeOK
  <2>2. RecordIsPushed
    BY DEF ResolverInv, RecordFollows, RecordIsPushed
  <2> QED
    BY <2>1, <2>2 DEF RecordRight
<1> QED
  BY <1>1, <1>2, <1>3, PTL DEF ResolverSpec
=============================================================================
