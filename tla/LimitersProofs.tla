--------------------------- MODULE LimitersProofs ---------------------------
(***************************************************************************)
(* Proofs about the limiters of ratelimit/ for any finite set of calls,    *)
(* any rate, interval, capacity, bucket and bounds of the rate, and any    *)
(* length of time: the windows admit what their rates allow, and the       *)
(* buckets let a call through only for a token that was supplied.  Each    *)
(* limiter has an inductive invariant of its own; SubjectInv puts them     *)
(* together for MCLimiters.                                                *)
(***************************************************************************)
EXTENDS MCLimiters, TLAPS, FiniteSetTheorems

-----------------------------------------------------------------------------
(* What the limiters share                                                 *)

CallOK ==
    /\ now \in 0 .. MaxTime /\ ended \subseteq Calls
    /\ outcome \in [Calls -> Outcomes] /\ onReject \in rejectStrategy

(* A call that returns has an outcome.                                     *)
LEMMA ReturnKeeps ==
    ASSUME CallOK, NEW c \in Calls, NEW o \in Outcomes, Return(c, o), UNCHANGED <<now, ended, onReject>>
    PROVE  CallOK'
BY DEF CallOK, Return

(* What a reject strategy makes of a call is an outcome.                   *)
LEMMA RejectedOutcome == Rejected \in Outcomes
BY DEF Rejected, Outcomes

(* Time passes up to its bound.                                            *)
LEMMA PassKeeps ==
    ASSUME CallOK, Pass
    PROVE  CallOK' /\ now' = now + 1 /\ pc' = pc /\ outcome' = outcome
BY LimitedCallAssumption DEF CallOK, Pass

(* The number of calls in a set.                                           *)
LEMMA CallsCount ==
    ASSUME NEW S \in SUBSET Calls
    PROVE  IsFiniteSet(S) /\ Cardinality(S) \in Nat /\ Cardinality(S) <= Cardinality(Calls)
           /\ Cardinality(Calls) \in Nat
<1>1. IsFiniteSet(Calls)
  BY LimitedCallAssumption
<1>2. IsFiniteSet(S) /\ Cardinality(S) <= Cardinality(Calls)
  BY <1>1, FS_Subset
<1> QED
  BY <1>1, <1>2, FS_CardinalityType

(* One call more or less.                                                  *)
LEMMA CallsMore ==
    ASSUME NEW S \in SUBSET Calls, NEW c \in Calls, c \notin S
    PROVE  Cardinality(S \cup {c}) = Cardinality(S) + 1
BY CallsCount, FS_AddElement

(* A part of a set of calls.                                               *)
LEMMA CallsFewer ==
    ASSUME NEW S \in SUBSET Calls, NEW T \in SUBSET S
    PROVE  Cardinality(T) <= Cardinality(S)
BY CallsCount, FS_Subset

-----------------------------------------------------------------------------
(* The fixed window                                                        *)

DoneCalls == {c \in Calls : pc[c] = "done"}
Least(a, b) == IF a <= b THEN a ELSE b

(* The admitted of a window are at most the rate for every reset, and what *)
(* the counter shows since the last one; the counter never counts more     *)
(* calls than have returned.                                               *)
FixInv ==
    /\ CallOK /\ FixTypeOK
    /\ inWindow \in Nat /\ stores \in Nat
    /\ cnt <= Cardinality(DoneCalls)
    /\ inWindow <= Rate * stores + Least(cnt, Rate)

(* A product with one more.                                                *)
LEMMA TimesOneMore ==
    ASSUME NEW r \in Nat, NEW s \in Nat
    PROVE  /\ r * s \in Nat /\ r * (s + 1) = r * s + r /\ r * (1 + s) = r * s + r
           /\ r * 0 = 0
OBVIOUS

(* A new limiter has counted nothing.                                      *)
LEMMA FixInitInv == FixInit => FixInv
<1> SUFFICES ASSUME FixInit PROVE FixInv
  OBVIOUS
<1>1. MaxTime \in Nat /\ Rate \in Nat /\ Rate * 0 = 0
  BY LimitedCallAssumption
<1>2. DoneCalls \in SUBSET Calls
  BY DEF DoneCalls
<1>3. Cardinality(DoneCalls) \in Nat /\ Cardinality(Calls) \in Nat
  BY <1>2, CallsCount
<1>4. CallOK
  BY <1>1 DEF FixInit, CallInit, CallOK, Outcomes
<1>5. FixTypeOK
  <2>1. /\ current \in [Calls -> {0}] /\ seen \in [Calls -> {0}] /\ timestamp = 0 /\ cnt = 0
        /\ pc \in [Calls -> {"idle"}]
    BY DEF FixInit, CallInit, NewFixWindowLimiter
  <2>2. current \in [Calls -> 0 .. MaxTime] /\ seen \in [Calls -> 0 .. MaxTime]
    BY <1>1, <2>1
  <2> QED
    BY <1>1, <1>3, <1>4, <2>1, <2>2 DEF FixTypeOK, CallOK
<1>6. inWindow = 0 /\ stores = 0 /\ cnt = 0
  BY DEF FixInit, NewFixWindowLimiter
<1>7. inWindow <= Rate * stores + Least(cnt, Rate)
  BY <1>1, <1>6 DEF Least
<1> QED
  BY <1>3, <1>4, <1>5, <1>6, <1>7 DEF FixInv

(* The atomic operations of calls in any order: a swap of the timestamp    *)
(* opens a window, every store of 0 grants the rate once more.             *)
LEMMA FixStepInv ==
    ASSUME FixInv, FixNext
    PROVE  FixInv'
<1>0. /\ Rate \in Nat /\ MaxTime \in Nat /\ CallOK /\ FixTypeOK /\ now \in 0 .. MaxTime
      /\ pc \in [Calls -> {"idle", "load", "test", "reset", "count", "done"}]
      /\ cnt \in Nat /\ inWindow \in Nat /\ stores \in Nat /\ outcome \in [Calls -> Outcomes]
  <2>1. cnt \in 0 .. Cardinality(Calls) /\ Cardinality(Calls) \in Nat
    BY CallsCount DEF FixInv, FixTypeOK
  <2> QED
    BY <2>1, LimitedCallAssumption DEF FixInv, FixTypeOK, CallOK
<1>1. DoneCalls \in SUBSET Calls /\ DoneCalls' \in SUBSET Calls
  BY DEF DoneCalls
<1>2. /\ Cardinality(DoneCalls) \in Nat /\ Cardinality(DoneCalls') \in Nat /\ Cardinality(Calls) \in Nat
      /\ Cardinality(DoneCalls) <= Cardinality(Calls) /\ Cardinality(DoneCalls') <= Cardinality(Calls)
  BY <1>1, CallsCount
<1>3. Rate * stores \in Nat /\ Rate * (stores + 1) = Rate * stores + Rate /\ Rate * 0 = 0
  BY <1>0, TimesOneMore
<1>4. ASSUME NEW c \in Calls, NEW p \in {"load", "test", "reset", "count"}, pc[c] # "done",
             pc' = [pc EXCEPT ![c] = p]
      PROVE  DoneCalls' = DoneCalls /\ pc' \in [Calls -> {"idle", "load", "test", "reset", "count", "done"}]
  BY <1>0, <1>4 DEF DoneCalls
<1>5. CASE Pass /\ UNCHANGED fixVars
  <2>1. CallOK' /\ pc' = pc /\ outcome' = outcome
    BY <1>0, <1>5, PassKeeps
  <2>2. DoneCalls' = DoneCalls
    BY <2>1 DEF DoneCalls
  <2> QED
    BY <1>5, <2>1, <2>2 DEF FixInv, FixTypeOK, fixVars
<1>6. ASSUME NEW c \in Calls, ReadClock(c) PROVE FixInv'
  <2>1. /\ current' = [current EXCEPT ![c] = now] /\ pc' = [pc EXCEPT ![c] = "load"] /\ pc[c] = "idle"
        /\ UNCHANGED <<now, ended, onReject, outcome, timestamp, cnt, seen, inWindow, stores>>
    BY <1>6 DEF ReadClock, Goto
  <2>2. DoneCalls' = DoneCalls /\ pc' \in [Calls -> {"idle", "load", "test", "reset", "count", "done"}]
    BY <1>4, <2>1
  <2>3. CallOK' /\ FixTypeOK'
    BY <1>0, <2>1, <2>2 DEF CallOK, FixTypeOK
  <2> QED
    BY <2>1, <2>2, <2>3 DEF FixInv
<1>7. ASSUME NEW c \in Calls, LoadTimestamp(c) PROVE FixInv'
  <2>1. /\ seen' = [seen EXCEPT ![c] = timestamp] /\ pc' = [pc EXCEPT ![c] = "test"] /\ pc[c] = "load"
        /\ UNCHANGED <<now, ended, onReject, outcome, timestamp, cnt, current, inWindow, stores>>
    BY <1>7 DEF LoadTimestamp, Goto
  <2>2. DoneCalls' = DoneCalls /\ pc' \in [Calls -> {"idle", "load", "test", "reset", "count", "done"}]
    BY <1>4, <2>1
  <2>3. CallOK' /\ FixTypeOK'
    BY <1>0, <2>1, <2>2 DEF CallOK, FixTypeOK
  <2> QED
    BY <2>1, <2>2, <2>3 DEF FixInv
<1>8. ASSUME NEW c \in Calls, Test(c) PROVE FixInv'
  <2>1. pc[c] = "test" /\ UNCHANGED <<now, ended, onReject, outcome, cnt, current, seen>>
    BY <1>8 DEF Test
  <2>2. CASE Expired(c) /\ Swaps(c)
    <3>1. timestamp' = current[c] /\ inWindow' = 0 /\ stores' = 0 /\ pc' = [pc EXCEPT ![c] = "reset"]
      BY <1>8, <2>2 DEF Test, Goto
    <3>2. DoneCalls' = DoneCalls /\ pc' \in [Calls -> {"idle", "load", "test", "reset", "count", "done"}]
      BY <1>4, <2>1, <3>1
    <3>3. CallOK' /\ FixTypeOK'
      BY <1>0, <2>1, <3>1, <3>2 DEF CallOK, FixTypeOK
    <3>4. inWindow' <= Rate * stores' + Least(cnt', Rate)
      BY <1>0, <1>3, <2>1, <3>1 DEF Least
    <3> QED
      BY <2>1, <3>1, <3>2, <3>3, <3>4 DEF FixInv
  <2>3. CASE ~(Expired(c) /\ Swaps(c))
    <3>1. UNCHANGED <<timestamp, inWindow, stores>> /\ pc' = [pc EXCEPT ![c] = "count"]
      BY <1>8, <2>3 DEF Test, Goto
    <3>2. DoneCalls' = DoneCalls /\ pc' \in [Calls -> {"idle", "load", "test", "reset", "count", "done"}]
      BY <1>4, <2>1, <3>1
    <3>3. CallOK' /\ FixTypeOK'
      BY <1>0, <2>1, <3>1, <3>2 DEF CallOK, FixTypeOK
    <3> QED
      BY <2>1, <3>1, <3>2, <3>3 DEF FixInv
  <2> QED
    BY <2>2, <2>3
<1>9. ASSUME NEW c \in Calls, ResetCount(c) PROVE FixInv'
  <2>1. /\ pc[c] = "reset" /\ cnt' = 0 /\ stores' = stores + 1 /\ pc' = [pc EXCEPT ![c] = "count"]
        /\ UNCHANGED <<now, ended, onReject, outcome, timestamp, current, seen, inWindow>>
    BY <1>9 DEF ResetCount, Goto
  <2>2. DoneCalls' = DoneCalls /\ pc' \in [Calls -> {"idle", "load", "test", "reset", "count", "done"}]
    BY <1>4, <2>1
  <2>3. CallOK' /\ FixTypeOK'
    BY <1>0, <1>2, <2>1, <2>2 DEF CallOK, FixTypeOK
  <2>4. Least(cnt, Rate) <= Rate /\ Least(cnt, Rate) \in Nat /\ Least(0, Rate) = 0
    BY <1>0 DEF Least
  <2>5. inWindow <= Rate * stores + Least(cnt, Rate)
    BY DEF FixInv
  <2>6. inWindow' <= Rate * stores' + Least(cnt', Rate)
    BY <1>0, <1>3, <2>1, <2>4, <2>5
  <2> QED
    BY <1>0, <1>2, <2>1, <2>2, <2>3, <2>6 DEF FixInv
<1>10. ASSUME NEW c \in Calls, Count(c) PROVE FixInv'
  <2>0. PICK o \in Outcomes : Return(c, o)
    BY <1>10, RejectedOutcome DEF Count, Outcomes
  <2>1. /\ pc[c] = "count" /\ cnt' = cnt + 1 /\ pc' = [pc EXCEPT ![c] = "done"]
        /\ UNCHANGED <<now, ended, onReject, timestamp, current, seen, stores>>
        /\ (cnt + 1 <= Rate /\ inWindow' = inWindow + 1) \/ (~(cnt + 1 <= Rate) /\ inWindow' = inWindow)
    BY <1>10, <2>0 DEF Count, Goto, Return, WithinRate
  <2>2. DoneCalls' = DoneCalls \cup {c} /\ c \notin DoneCalls
        /\ pc' \in [Calls -> {"idle", "load", "test", "reset", "count", "done"}]
    BY <1>0, <2>1 DEF DoneCalls
  <2>3. Cardinality(DoneCalls') = Cardinality(DoneCalls) + 1
    BY <1>1, <2>2, CallsMore
  <2>4. CallOK'
    BY <1>0, <2>0, <2>1, ReturnKeeps
  <2>5. cnt <= Cardinality(DoneCalls) /\ inWindow <= Rate * stores + Least(cnt, Rate)
    BY DEF FixInv
  <2>6. cnt' <= Cardinality(DoneCalls') /\ cnt' \in 0 .. Cardinality(Calls)
    BY <1>0, <1>2, <2>1, <2>3, <2>5
  <2>7. FixTypeOK'
    BY <1>0, <2>1, <2>2, <2>4, <2>6 DEF FixTypeOK, CallOK
  <2>8. inWindow' \in Nat /\ inWindow' <= Rate * stores + Least(cnt + 1, Rate)
    BY <1>0, <1>3, <2>1, <2>5 DEF Least
  <2> QED
    BY <1>0, <2>1, <2>4, <2>6, <2>7, <2>8 DEF FixInv
<1> QED
  BY <1>5, <1>6, <1>7, <1>8, <1>9, <1>10 DEF FixNext

(* The invariant gives the property.                                       *)
LEMMA FixInvGives == FixInv => WindowAdmitsRatePerReset
<1> SUFFICES ASSUME FixInv PROVE WindowAdmitsRatePerReset
  OBVIOUS
<1>1. Rate \in Nat /\ stores \in Nat /\ inWindow \in Nat /\ cnt \in Nat
  <2>1. cnt \in 0 .. Cardinality(Calls) /\ Cardinality(Calls) \in Nat
    BY CallsCount DEF FixInv, FixTypeOK
  <2> QED
    BY <2>1, LimitedCallAssumption DEF FixInv
<1>2. Least(cnt, Rate) <= Rate /\ Least(cnt, Rate) \in Nat
  BY <1>1 DEF Least
<1>3. Rate * stores \in Nat /\ Rate * (1 + stores) = Rate * stores + Rate
  BY <1>1, TimesOneMore
<1> QED
  BY <1>1, <1>2, <1>3 DEF FixInv, WindowAdmitsRatePerReset

-----------------------------------------------------------------------------
(* The sliding window                                                      *)

(* What is in the queue was let through, at most Rate at a time, and of    *)
(* the calls let through every one stamped since the latest boundary is in *)
(* the queue still.                                                        *)
SlideInv ==
    /\ CallOK /\ SlideTypeOK /\ passed \subseteq Calls
    /\ \A c \in passed : pc[c] \notin {"idle", "lock"}
    /\ queue \subseteq passed /\ Cardinality(queue) <= Rate
    /\ \A c \in passed : stamp[c] >= boundary => c \in queue

(* A new limiter has let nothing through.                                  *)
LEMMA SlideInitInv == SlideInit => SlideInv
<1> SUFFICES ASSUME SlideInit PROVE SlideInv
  OBVIOUS
<1>1. MaxTime \in Nat /\ Rate \in Nat /\ Interval \in Nat
  BY LimitedCallAssumption
<1>2. CallOK
  BY <1>1 DEF SlideInit, CallInit, CallOK, Outcomes
<1>3. stamp \in [Calls -> {0}] /\ pc \in [Calls -> {"idle"}] /\ queue = {} /\ passed = {} /\ mutex = {}
      /\ boundary = -Interval
  BY DEF SlideInit, CallInit, NewSlideWindowLimiter
<1>4. stamp \in [Calls -> 0 .. MaxTime] /\ boundary \in -Interval .. MaxTime
  BY <1>1, <1>3
<1>5. Cardinality(queue) = 0
  BY <1>3, FS_EmptySet
<1> QED
  BY <1>1, <1>2, <1>3, <1>4, <1>5 DEF SlideInv, SlideTypeOK

(* Calls reach the mutex out of the order of their stamps: one with an old *)
(* stamp removes less, never what a newer boundary kept.                   *)
LEMMA SlideStepInv ==
    ASSUME SlideInv, SlideNext
    PROVE  SlideInv'
<1>0. /\ Rate \in Nat /\ MaxTime \in Nat /\ Interval \in Nat /\ CallOK /\ SlideTypeOK /\ now \in 0 .. MaxTime
      /\ pc \in [Calls -> {"idle", "lock", "handler", "reject", "done"}]
      /\ stamp \in [Calls -> 0 .. MaxTime] /\ boundary \in -Interval .. MaxTime
      /\ queue \subseteq passed /\ passed \subseteq Calls /\ queue \in SUBSET Calls
      /\ Cardinality(queue) <= Rate
      /\ \A c \in passed : pc[c] \notin {"idle", "lock"}
      /\ \A c \in passed : stamp[c] >= boundary => c \in queue
  BY LimitedCallAssumption DEF SlideInv, SlideTypeOK, CallOK
<1>1. CASE Pass /\ UNCHANGED slideVars
  <2>1. CallOK' /\ pc' = pc
    BY <1>0, <1>1, PassKeeps
  <2> QED
    BY <1>1, <2>1 DEF SlideInv, SlideTypeOK, slideVars
<1>2. ASSUME NEW c \in Calls, ReadNow(c) PROVE SlideInv'
  <2>1. /\ pc[c] = "idle" /\ stamp' = [stamp EXCEPT ![c] = now] /\ pc' = [pc EXCEPT ![c] = "lock"]
        /\ UNCHANGED <<now, ended, onReject, outcome, queue, mutex, boundary, passed>>
    BY <1>2 DEF ReadNow, Goto
  <2>2. c \notin passed
    BY <1>0, <2>1
  <2>3. \A d \in passed : stamp'[d] = stamp[d] /\ pc'[d] = pc[d]
    BY <1>0, <2>1, <2>2
  <2>4. CallOK' /\ SlideTypeOK'
    BY <1>0, <2>1 DEF CallOK, SlideTypeOK
  <2> QED
    BY <1>0, <2>1, <2>3, <2>4 DEF SlideInv
<1>3. ASSUME NEW c \in Calls, Lock(c) PROVE SlideInv'
  <2> DEFINE b == stamp[c] - Interval
             K == Kept(b)
  <2>1. /\ pc[c] = "lock" /\ mutex' = {c} /\ boundary' = IF b > boundary THEN b ELSE boundary
        /\ UNCHANGED <<now, ended, onReject, outcome, stamp>>
    BY <1>3 DEF Lock
  <2>2. K \in SUBSET queue /\ K \in SUBSET Calls /\ c \notin passed
    BY <1>0, <2>1 DEF Kept
  <2>3. Cardinality(K) <= Cardinality(queue) /\ Cardinality(K) \in Nat /\ Cardinality(queue) \in Nat
    BY <1>0, <2>2, CallsFewer, CallsCount
  <2>4. b \in Int /\ boundary' \in -Interval .. MaxTime /\ boundary' >= b /\ boundary' >= boundary
    BY <1>0, <2>1
  <2>5. \A d \in passed : stamp[d] >= boundary' => d \in K
    <3> SUFFICES ASSUME NEW d \in passed, stamp[d] >= boundary' PROVE d \in K
      OBVIOUS
    <3>1. stamp[d] \in Nat /\ boundary \in Int /\ boundary' \in Int
      BY <1>0, <2>4
    <3>2. stamp[d] >= boundary /\ ~(stamp[d] < b)
      BY <2>4, <3>1
    <3> QED
      BY <1>0, <3>2 DEF Kept, Outside
  <2> HIDE DEF K, b
  <2>6. CASE /\ Cardinality(K) < Rate /\ queue' = K \cup {c} /\ passed' = passed \cup {c}
             /\ pc' = [pc EXCEPT ![c] = "handler"]
    <3>1. Cardinality(queue') <= Rate
      <4>1. c \notin K
        BY <1>0, <2>2
      <4>2. Cardinality(K \cup {c}) = Cardinality(K) + 1
        BY <2>2, <4>1, CallsMore
      <4> QED
        BY <1>0, <2>3, <2>6, <4>2
    <3>2. CallOK' /\ SlideTypeOK'
      BY <1>0, <2>1, <2>2, <2>4, <2>6 DEF CallOK, SlideTypeOK
    <3>3. \A d \in passed' : pc'[d] \notin {"idle", "lock"}
      BY <1>0, <2>6
    <3> QED
      BY <1>0, <2>1, <2>2, <2>5, <2>6, <3>1, <3>2, <3>3 DEF SlideInv
  <2>7. CASE queue' = K /\ passed' = passed /\ pc' = [pc EXCEPT ![c] = "reject"]
    <3>1. Cardinality(queue') <= Rate
      BY <1>0, <2>3, <2>7
    <3>2. CallOK' /\ SlideTypeOK'
      BY <1>0, <2>1, <2>2, <2>4, <2>7 DEF CallOK, SlideTypeOK
    <3>3. \A d \in passed' : pc'[d] \notin {"idle", "lock"}
      BY <1>0, <2>7
    <3> QED
      BY <1>0, <2>1, <2>2, <2>5, <2>7, <3>1, <3>2, <3>3 DEF SlideInv
  <2> QED
    BY <1>3, <2>6, <2>7 DEF Lock, Goto, K, b
<1>4. ASSUME NEW c \in Calls, Unlock(c) PROVE SlideInv'
  <2>0. PICK o \in Outcomes : Return(c, o)
    BY <1>4, RejectedOutcome DEF Unlock, Outcomes
  <2>1. /\ mutex' = {} /\ pc' = [pc EXCEPT ![c] = "done"]
        /\ UNCHANGED <<now, ended, onReject, queue, stamp, boundary, passed>>
    BY <1>4, <2>0 DEF Unlock, Return, Goto
  <2>2. CallOK'
    BY <1>0, <2>0, <2>1, ReturnKeeps
  <2>3. SlideTypeOK'
    BY <1>0, <2>1 DEF SlideTypeOK
  <2>4. \A d \in passed : pc'[d] \notin {"idle", "lock"}
    BY <1>0, <2>1
  <2> QED
    BY <1>0, <2>1, <2>2, <2>3, <2>4 DEF SlideInv
<1> QED
  BY <1>1, <1>2, <1>3, <1>4 DEF SlideNext

(* The invariant gives the property.                                       *)
LEMMA SlideInvGives == SlideInv => NewestWindowWithinRate
<1> SUFFICES ASSUME SlideInv PROVE NewestWindowWithinRate
  OBVIOUS
<1>1. queue \in SUBSET Calls /\ {c \in passed : stamp[c] >= boundary} \in SUBSET queue
  BY DEF SlideInv
<1>2. /\ Cardinality({c \in passed : stamp[c] >= boundary}) <= Cardinality(queue)
      /\ Cardinality(queue) \in Nat /\ Cardinality({c \in passed : stamp[c] >= boundary}) \in Nat
  <2> DEFINE S == {c \in passed : stamp[c] >= boundary}
  <2> HIDE DEF S
  <2>1. S \in SUBSET queue /\ S \in SUBSET Calls
    BY <1>1 DEF S
  <2>2. Cardinality(S) <= Cardinality(queue) /\ Cardinality(queue) \in Nat /\ Cardinality(S) \in Nat
    BY <1>1, <2>1, CallsFewer, CallsCount
  <2> QED
    BY <2>2 DEF S
<1> QED
  BY <1>2, LimitedCallAssumption DEF SlideInv, NewestWindowWithinRate

-----------------------------------------------------------------------------
(* The leaky bucket and the token bucket                                   *)

Ticks == IF tick THEN 1 ELSE 0

(* A tick that has not been used counts for the token it will be.          *)
TokenInv ==
    /\ CallOK /\ TokenTypeOK
    /\ \A c \in Calls : pc[c] = "select" => reads[c] # "none" /\ outcome[c] = "none"
    /\ \A c \in Calls : pc[c] = "idle" => outcome[c] = "none"
    /\ kind = "leaky" => Cardinality(LetThrough) + Ticks <= produced /\ produced <= now
    /\ kind = "token" => Cardinality(LetThrough) + tokens = produced /\ produced + Ticks <= now

(* A new limiter has let nothing through.                                  *)
LEMMA TokenInitInv == TokenInit => TokenInv
<1> SUFFICES ASSUME NEW k \in {"leaky", "token"}, CallInit, NewLimiter(k) PROVE TokenInv
  BY DEF TokenInit
<1>1. MaxTime \in Nat /\ Rate \in Nat /\ Capacity \in Nat
  BY LimitedCallAssumption, CapacityAssumption
<1>2. CallOK
  BY <1>1 DEF CallInit, CallOK, Outcomes
<1>3. TokenTypeOK
  <2>1. reads \in [Calls -> {"none"}] /\ pc \in [Calls -> {"idle"}]
    BY DEF CallInit, NewLimiter
  <2>2. tokens \in 0 .. Capacity /\ produced \in 0 .. MaxTime
    BY <1>1 DEF NewLimiter
  <2> QED
    BY <2>1, <2>2 DEF NewLimiter, TokenTypeOK
<1>4. LetThrough = {}
  BY DEF LetThrough, NewLimiter
<1>5. Cardinality(LetThrough) = 0
  BY <1>4, FS_EmptySet
<1>6. Ticks = 0 /\ produced = 0 /\ now = 0 /\ tokens = 0
  BY DEF Ticks, NewLimiter, CallInit
<1>7. \A c \in Calls : pc[c] = "idle" /\ outcome[c] = "none"
  BY DEF CallInit
<1> QED
  BY <1>2, <1>3, <1>5, <1>6, <1>7 DEF TokenInv

(* Ticks, tokens, calls and Close in any order.                            *)
LEMMA TokenStepInv ==
    ASSUME TokenInv, TokenNext
    PROVE  TokenInv'
<1>0. /\ MaxTime \in Nat /\ Capacity \in Nat /\ CallOK /\ TokenTypeOK /\ now \in 0 .. MaxTime
      /\ kind \in {"leaky", "token"} /\ tick \in BOOLEAN /\ tokens \in 0 .. Capacity /\ produced \in 0 .. MaxTime
      /\ pc \in [Calls -> {"idle", "select", "done"}] /\ outcome \in [Calls -> Outcomes]
      /\ reads \in [Calls -> {"none", "channel", "nil"}]
  BY LimitedCallAssumption, CapacityAssumption DEF TokenInv, TokenTypeOK, CallOK
<1>1. LetThrough \in SUBSET Calls /\ LetThrough' \in SUBSET Calls
  BY DEF LetThrough
<1>2. Cardinality(LetThrough) \in Nat /\ Cardinality(LetThrough') \in Nat
  BY <1>1, CallsCount
<1>3. /\ kind = "leaky" => Cardinality(LetThrough) + Ticks <= produced /\ produced <= now
      /\ kind = "token" => Cardinality(LetThrough) + tokens = produced /\ produced + Ticks <= now
      /\ \A c \in Calls : pc[c] = "select" => reads[c] # "none" /\ outcome[c] = "none"
      /\ \A c \in Calls : pc[c] = "idle" => outcome[c] = "none"
  BY DEF TokenInv
<1>4. Ticks \in Nat /\ (tick => Ticks = 1) /\ (~tick => Ticks = 0) /\ (tick' => Ticks' = 1) /\ (~tick' => Ticks' = 0)
  BY DEF Ticks
<1>5. outcome' = outcome /\ reads' = reads => LetThrough' = LetThrough
  BY DEF LetThrough
<1>6. CASE Ticker
  <2>1. CallOK' /\ now' = now + 1 /\ pc' = pc /\ outcome' = outcome
    BY <1>0, <1>6, PassKeeps DEF Ticker
  <2>2. /\ tick' = TRUE /\ UNCHANGED <<kind, stopped, tokens, close, closeCh, reads>>
        /\ produced' = IF kind = "leaky" /\ ~tick THEN produced + 1 ELSE produced
    BY <1>6 DEF Ticker
  <2>3. LetThrough' = LetThrough /\ Ticks' = 1
    BY <1>4, <1>5, <2>1, <2>2
  <2>4. now' \in 0 .. MaxTime
    BY <2>1 DEF CallOK
  <2>5. CASE kind = "leaky"
    <3>1. Cardinality(LetThrough') + Ticks' <= produced' /\ produced' <= now' /\ produced' \in 0 .. MaxTime
      BY <1>0, <1>2, <1>3, <1>4, <2>1, <2>2, <2>3, <2>4, <2>5
    <3> QED
      BY <1>0, <1>3, <2>1, <2>2, <2>5, <3>1 DEF TokenInv, TokenTypeOK
  <2>6. CASE kind = "token"
    <3>1. Cardinality(LetThrough') + tokens' = produced' /\ produced' + Ticks' <= now' /\ produced' = produced
      BY <1>0, <1>2, <1>3, <1>4, <2>1, <2>2, <2>3, <2>6
    <3> QED
      BY <1>0, <1>3, <2>1, <2>2, <2>6, <3>1 DEF TokenInv, TokenTypeOK
  <2> QED
    BY <1>0, <2>5, <2>6
<1>7. CASE Produce
  <2>1. /\ kind = "token" /\ kind' = "token" /\ tick /\ ~tick' /\ tick' = FALSE
        /\ UNCHANGED <<now, pc, ended, onReject, outcome, stopped, close, closeCh, reads>>
    BY <1>7 DEF Produce, callVars
  <2>2. LetThrough' = LetThrough /\ Ticks' = 0 /\ Ticks = 1
    BY <1>4, <1>5, <2>1
  <2>3. /\ tokens' \in 0 .. Capacity /\ produced' \in 0 .. MaxTime
        /\ Cardinality(LetThrough') + tokens' = produced' /\ produced' + Ticks' <= now'
    <3>1. CASE tokens < Capacity /\ tokens' = tokens + 1 /\ produced' = produced + 1
      BY <1>0, <1>2, <1>3, <2>1, <2>2, <3>1
    <3>2. CASE tokens' = tokens /\ produced' = produced
      BY <1>0, <1>2, <1>3, <2>1, <2>2, <3>2
    <3> QED
      BY <1>7, <3>1, <3>2 DEF Produce
  <2> QED
    BY <1>0, <1>3, <2>1, <2>3 DEF TokenInv, TokenTypeOK, CallOK
<1>8. CASE ProducerExit \/ CloseLeaky
  <2>1. /\ stopped' = TRUE /\ tick' = FALSE /\ ~tick'
        /\ UNCHANGED <<now, pc, ended, onReject, outcome, kind, tokens, close, closeCh, reads, produced>>
    BY <1>8 DEF ProducerExit, CloseLeaky, callVars
  <2>2. LetThrough' = LetThrough /\ Ticks' = 0
    BY <1>4, <1>5, <2>1
  <2>3. /\ kind = "leaky" => Cardinality(LetThrough') + Ticks' <= produced /\ produced <= now
        /\ kind = "token" => Cardinality(LetThrough') + tokens = produced /\ produced + Ticks' <= now
    BY <1>0, <1>2, <1>3, <1>4, <2>2
  <2> QED
    BY <1>0, <1>3, <2>1, <2>3 DEF TokenInv, TokenTypeOK, CallOK
<1>9. CASE CloseToken
  <2>1. /\ closeCh' = "closed" /\ close' = "nil"
        /\ UNCHANGED <<now, pc, ended, onReject, outcome, kind, tick, stopped, tokens, reads, produced>>
    BY <1>9 DEF CloseToken, ClosedChannel, callVars
  <2>2. LetThrough' = LetThrough /\ Ticks' = Ticks
    BY <1>5, <2>1 DEF Ticks
  <2> QED
    BY <1>0, <1>3, <2>1, <2>2 DEF TokenInv, TokenTypeOK, CallOK
<1>10. ASSUME NEW c \in Calls, Enter(c) PROVE TokenInv'
  <2>1. /\ pc[c] = "idle" /\ pc' = [pc EXCEPT ![c] = "select"] /\ reads' = [reads EXCEPT ![c] = close]
        /\ UNCHANGED <<now, ended, onReject, outcome, kind, tick, stopped, tokens, close, closeCh, produced>>
    BY <1>10 DEF Enter, Goto
  <2>2. outcome[c] = "none" /\ close \in {"channel", "nil"}
    BY <1>0, <1>3, <2>1 DEF TokenTypeOK
  <2>3. LetThrough' = LetThrough /\ Ticks' = Ticks
    BY <1>0, <2>1, <2>2 DEF Ticks, LetThrough
  <2>4. TokenTypeOK' /\ CallOK'
    BY <1>0, <2>1, <2>2 DEF TokenTypeOK, CallOK
  <2>5. /\ \A d \in Calls : pc'[d] = "select" => reads'[d] # "none" /\ outcome'[d] = "none"
        /\ \A d \in Calls : pc'[d] = "idle" => outcome'[d] = "none"
    BY <1>0, <1>3, <2>1, <2>2
  <2> QED
    BY <1>3, <2>1, <2>3, <2>4, <2>5 DEF TokenInv
<1>11. ASSUME NEW c \in Calls, NEW o \in Outcomes, o # "handled", pc[c] = "select", Return(c, o),
              UNCHANGED <<now, ended, onReject, tokenVars>>
       PROVE  TokenInv'
  <2>1. pc' = [pc EXCEPT ![c] = "done"] /\ outcome' = [outcome EXCEPT ![c] = o]
    BY <1>11 DEF Return, Goto
  <2>2. UNCHANGED <<kind, tick, stopped, tokens, close, closeCh, reads, produced>>
    BY <1>11 DEF tokenVars
  <2>3. LetThrough' = LetThrough /\ Ticks' = Ticks
    BY <1>0, <1>3, <1>11, <2>1, <2>2 DEF Ticks, LetThrough
  <2>4. CallOK'
    BY <1>0, <1>11, ReturnKeeps
  <2>5. TokenTypeOK'
    BY <1>0, <2>1, <2>2 DEF TokenTypeOK
  <2>6. /\ \A d \in Calls : pc'[d] = "select" => reads'[d] # "none" /\ outcome'[d] = "none"
        /\ \A d \in Calls : pc'[d] = "idle" => outcome'[d] = "none"
    BY <1>0, <1>3, <2>1, <2>2
  <2> QED
    BY <1>3, <1>11, <2>2, <2>3, <2>4, <2>5, <2>6 DEF TokenInv
<1>12. ASSUME NEW c \in Calls, SelectToken(c) PROVE TokenInv'
  <2>1. /\ pc[c] = "select" /\ pc' = [pc EXCEPT ![c] = "done"] /\ outcome' = [outcome EXCEPT ![c] = "handled"]
        /\ UNCHANGED <<now, ended, onReject, kind, stopped, close, closeCh, reads, produced>>
    BY <1>12 DEF SelectToken, Return, Goto
  <2>2. LetThrough' = LetThrough \cup {c} /\ c \notin LetThrough
    BY <1>0, <1>3, <2>1 DEF LetThrough
  <2>3. Cardinality(LetThrough') = Cardinality(LetThrough) + 1
    BY <1>1, <2>2, CallsMore
  <2>4. CallOK'
    BY <1>0, <2>1 DEF CallOK, Outcomes
  <2>5. /\ \A d \in Calls : pc'[d] = "select" => reads'[d] # "none" /\ outcome'[d] = "none"
        /\ \A d \in Calls : pc'[d] = "idle" => outcome'[d] = "none"
    BY <1>0, <1>3, <2>1
  <2>6. CASE kind = "leaky"
    <3>1. tick /\ ~tick' /\ tick' = FALSE /\ tokens' = tokens
      BY <1>12, <2>6 DEF SelectToken, TakeToken
    <3>2. Cardinality(LetThrough') + Ticks' <= produced' /\ produced' <= now'
      BY <1>0, <1>2, <1>3, <1>4, <2>1, <2>3, <2>6, <3>1
    <3>3. TokenTypeOK'
      BY <1>0, <2>1, <3>1 DEF TokenTypeOK
    <3> QED
      BY <2>1, <2>4, <2>5, <2>6, <3>2, <3>3 DEF TokenInv
  <2>7. CASE kind = "token"
    <3>1. tokens > 0 /\ tokens' = tokens - 1 /\ tick' = tick
      BY <1>12, <2>7 DEF SelectToken, TakeToken
    <3>2. Ticks' = Ticks
      BY <3>1 DEF Ticks
    <3>3. /\ tokens' \in 0 .. Capacity /\ Cardinality(LetThrough') + tokens' = produced'
          /\ produced' + Ticks' <= now'
      BY <1>0, <1>2, <1>3, <1>4, <2>1, <2>3, <2>7, <3>1, <3>2
    <3>4. TokenTypeOK'
      BY <1>0, <2>1, <3>1, <3>3 DEF TokenTypeOK
    <3> QED
      BY <2>1, <2>4, <2>5, <2>7, <3>3, <3>4 DEF TokenInv
  <2> QED
    BY <1>0, <2>6, <2>7
<1>13. ASSUME NEW c \in Calls, SelectContext(c) \/ SelectClose(c) PROVE TokenInv'
  <2>1. Rejected \in Outcomes /\ Rejected # "handled" /\ "limited" \in Outcomes
    BY DEF Rejected, Outcomes
  <2> QED
    BY <1>11, <1>13, <2>1 DEF SelectContext, SelectClose
<1>14. ASSUME NEW c \in Calls, EndContext(c), UNCHANGED tokenVars PROVE TokenInv'
  <2>1. UNCHANGED <<now, pc, onReject, outcome>> /\ ended' = ended \cup {c}
    BY <1>14 DEF EndContext
  <2>2. UNCHANGED <<kind, tick, stopped, tokens, close, closeCh, reads, produced>>
    BY <1>14 DEF tokenVars
  <2>3. LetThrough' = LetThrough /\ Ticks' = Ticks
    BY <1>5, <2>1, <2>2 DEF Ticks
  <2> QED
    BY <1>0, <1>3, <2>1, <2>2, <2>3 DEF TokenInv, TokenTypeOK, CallOK
<1> QED
  BY <1>6, <1>7, <1>8, <1>9, <1>10, <1>12, <1>13, <1>14 DEF TokenNext, TokenSelect

(* The invariant gives the property.                                       *)
LEMMA TokenInvGives == TokenInv => AdmittedByTokens
<1> SUFFICES ASSUME TokenInv PROVE AdmittedByTokens
  OBVIOUS
<1>1. LetThrough \in SUBSET Calls
  BY DEF LetThrough
<1>2. /\ Cardinality(LetThrough) \in Nat /\ Ticks \in Nat /\ tokens \in Nat /\ produced \in Nat
      /\ kind \in {"leaky", "token"}
  BY <1>1, CallsCount, LimitedCallAssumption, CapacityAssumption DEF Ticks, TokenInv, TokenTypeOK
<1> QED
  BY <1>2 DEF TokenInv, AdmittedByTokens

-----------------------------------------------------------------------------
(* The window in redis                                                     *)

(* How many calls f stamps from a on and before b; a call that was not let *)
(* through is stamped -1.                                                  *)
Between(f, a, b) == {c \in Calls : f[c] >= 0 /\ f[c] >= a /\ f[c] < b}
CountIn(f, a, b) == Cardinality(Between(f, a, b))

(* A count is a number of calls.                                           *)
LEMMA CountNat ==
    ASSUME NEW f \in [Calls -> Int], NEW a \in Int, NEW b \in Int
    PROVE  CountIn(f, a, b) \in Nat
<1>1. Between(f, a, b) \in SUBSET Calls
  BY DEF Between
<1> QED
  BY <1>1, CallsCount DEF CountIn

(* No call is stamped from a on.                                           *)
LEMMA CountNone ==
    ASSUME NEW f \in [Calls -> Int], NEW a \in Int, NEW b \in Int, \A c \in Calls : f[c] < 0 \/ f[c] < a
    PROVE  CountIn(f, a, b) = 0
<1>1. Between(f, a, b) = {}
  BY DEF Between
<1> QED
  BY <1>1, FS_EmptySet DEF CountIn

(* A longer stretch of time holds no fewer calls.                          *)
LEMMA CountWider ==
    ASSUME NEW f \in [Calls -> Int], NEW a \in Int, NEW b \in Int, NEW e \in Int, NEW h \in Int,
           e <= a, b <= h \/ (\A c \in Calls : f[c] < h)
    PROVE  CountIn(f, a, b) <= CountIn(f, e, h)
<1>1. Between(f, a, b) \in SUBSET Between(f, e, h) /\ Between(f, e, h) \in SUBSET Calls
  BY DEF Between
<1> QED
  BY <1>1, CallsFewer DEF CountIn

(* A stretch of time cut in two.                                           *)
LEMMA CountCut ==
    ASSUME NEW f \in [Calls -> Int], NEW a \in Int, NEW m \in Int, NEW b \in Int
    PROVE  CountIn(f, a, b) <= CountIn(f, a, m) + CountIn(f, m, b)
<1> DEFINE S == Between(f, a, m)
           T == Between(f, m, b)
           U == Between(f, a, b)
<1>1. S \in SUBSET Calls /\ T \in SUBSET Calls /\ U \in SUBSET (S \cup T)
  BY DEF Between
<1>2. CountIn(f, a, b) = Cardinality(U) /\ CountIn(f, a, m) = Cardinality(S) /\ CountIn(f, m, b) = Cardinality(T)
  BY DEF CountIn
<1> HIDE DEF S, T, U
<1>3. IsFiniteSet(S) /\ IsFiniteSet(T)
  BY <1>1, CallsCount
<1>4. Cardinality(S \cup T) = Cardinality(S) + Cardinality(T) - Cardinality(S \cap T)
  BY <1>3, FS_Union
<1>5. S \cap T \in SUBSET Calls /\ S \cup T \in SUBSET Calls
  BY <1>1
<1>6. /\ Cardinality(S \cap T) \in Nat /\ Cardinality(S) \in Nat /\ Cardinality(T) \in Nat
      /\ Cardinality(S \cup T) \in Nat
  BY <1>1, <1>5, CallsCount
<1>7. Cardinality(U) <= Cardinality(S \cup T)
  BY <1>1, <1>5, CallsFewer
<1>8. U \in SUBSET Calls
  BY <1>1
<1>9. Cardinality(U) \in Nat
  BY <1>8, CallsCount
<1> QED
  BY <1>2, <1>4, <1>6, <1>7, <1>9

(* A life of the key lasts Interval and admits what val counts; the one    *)
(* before it was over when it began, so the Interval before it meets that  *)
(* one alone.                                                              *)
KeyLives ==
    /\ val = 0 => \A c \in Calls : admittedAt[c] = -1
    /\ val > 0 =>
         /\ expiry - Interval \in 0 .. now
         /\ \A c \in Calls : admittedAt[c] < expiry
         /\ CountIn(admittedAt, expiry - Interval, expiry) <= val
         /\ CountIn(admittedAt, expiry - 2 * Interval, expiry - Interval) <= Rate

RedisInv ==
    /\ CallOK /\ RedisTypeOK
    /\ pc \in [Calls -> {"idle", "done"}]
    /\ \A c \in Calls : admittedAt[c] <= now
    /\ \A c \in Calls : pc[c] = "idle" => admittedAt[c] = -1
    /\ KeyLives
    /\ \A t \in Nat : CountIn(admittedAt, t, t + Interval) <= 2 * Rate

(* A new limiter: there is no key.                                         *)
LEMMA RedisInitInv == RedisInit => RedisInv
<1> SUFFICES ASSUME RedisInit PROVE RedisInv
  OBVIOUS
<1>1. MaxTime \in Nat /\ Rate \in Nat /\ Interval \in Nat /\ Interval >= 1
  BY LimitedCallAssumption
<1>2. CallOK
  BY <1>1 DEF RedisInit, CallInit, CallOK, Outcomes
<1>3. admittedAt \in [Calls -> {-1}] /\ pc \in [Calls -> {"idle"}] /\ val = 0 /\ expiry = 0 /\ now = 0
  BY DEF RedisInit, CallInit, NewRedisLimiter
<1>4. RedisTypeOK
  <2>1. -1 \in -1 .. MaxTime /\ 0 \in 0 .. Rate /\ 0 \in 0 .. MaxTime + Interval
    BY <1>1
  <2>2. admittedAt \in [Calls -> -1 .. MaxTime]
    BY <1>3, <2>1
  <2> QED
    BY <1>3, <2>1, <2>2 DEF RedisTypeOK
<1>5. ASSUME NEW t \in Nat PROVE CountIn(admittedAt, t, t + Interval) <= 2 * Rate
  <2>1. PICK b \in Int : b = t + Interval
    BY <1>1
  <2>2. admittedAt \in [Calls -> Int] /\ \A c \in Calls : admittedAt[c] < 0
    BY <1>3
  <2>3. CountIn(admittedAt, t, b) = 0
    BY <2>2, CountNone
  <2> QED
    BY <1>1, <2>1, <2>3
<1>6. \A c \in Calls : admittedAt[c] = -1 /\ admittedAt[c] <= now
  BY <1>3
<1> QED
  BY <1>1, <1>2, <1>3, <1>4, <1>5, <1>6 DEF RedisInv, KeyLives

(* Evaluating the script for a call c that is not let through yet, and     *)
(* letting it through or not (admits).                                     *)
LEMMA ScriptKeeps ==
    ASSUME RedisInv, NEW c \in Calls, admittedAt[c] = -1,
           val' = Script.val, expiry' = Script.expiry, now' = now,
           NEW admits \in BOOLEAN, admits => ~Script.over,
           admittedAt' = IF admits THEN [admittedAt EXCEPT ![c] = now] ELSE admittedAt
    PROVE  /\ RedisTypeOK' /\ KeyLives'
           /\ \A d \in Calls : admittedAt'[d] <= now
           /\ \A t \in Nat : CountIn(admittedAt', t, t + Interval) <= 2 * Rate
<1>0. /\ MaxTime \in Nat /\ Rate \in Nat /\ Interval \in Nat /\ Interval >= 1 /\ now \in 0 .. MaxTime
      /\ val \in 0 .. Rate /\ expiry \in 0 .. MaxTime + Interval /\ admittedAt \in [Calls -> -1 .. MaxTime]
      /\ \A d \in Calls : admittedAt[d] <= now /\ admittedAt[d] \in Int
  BY LimitedCallAssumption DEF RedisInv, RedisTypeOK, CallOK
<1>1. /\ admittedAt' \in [Calls -> -1 .. MaxTime] /\ \A d \in Calls : d # c => admittedAt'[d] = admittedAt[d]
      /\ admits => admittedAt'[c] = now
      /\ ~admits => admittedAt' = admittedAt
      /\ \A d \in Calls : admittedAt'[d] <= now
  BY <1>0
<1>2. admittedAt \in [Calls -> Int] /\ admittedAt' \in [Calls -> Int] /\ now \in Int /\ expiry \in Int
  BY <1>0, <1>1
<1>3. ASSUME NEW a \in Int, NEW b \in Int
      PROVE  /\ CountIn(admittedAt, a, b) \in Nat /\ CountIn(admittedAt', a, b) \in Nat
             /\ CountIn(admittedAt', a, b) <= CountIn(admittedAt, a, b) + 1
             /\ ~admits \/ now < a \/ now >= b => CountIn(admittedAt', a, b) = CountIn(admittedAt, a, b)
  <2>1. CountIn(admittedAt, a, b) \in Nat /\ CountIn(admittedAt', a, b) \in Nat
    BY <1>2, CountNat
  <2>2. CASE admits
    <3> DEFINE S == Between(admittedAt, a, b)
               T == Between(admittedAt', a, b)
    <3>1. S \in SUBSET Calls /\ c \notin S /\ T \in SUBSET (S \cup {c}) /\ T \in SUBSET Calls
      BY <1>1 DEF Between
    <3>2. now < a \/ now >= b => T = S
      BY <1>0, <1>1, <2>2 DEF Between
    <3>3. CountIn(admittedAt, a, b) = Cardinality(S) /\ CountIn(admittedAt', a, b) = Cardinality(T)
      BY DEF CountIn
    <3> HIDE DEF S, T
    <3>4. Cardinality(S \cup {c}) = Cardinality(S) + 1 /\ S \cup {c} \in SUBSET Calls
      BY <3>1, CallsMore
    <3>5. Cardinality(T) <= Cardinality(S \cup {c})
      BY <3>1, <3>4, CallsFewer
    <3> QED
      BY <2>1, <2>2, <3>2, <3>3, <3>4, <3>5
  <2>3. CASE ~admits
    BY <1>1, <2>1, <2>3
  <2> QED
    BY <2>2, <2>3
<1>5. \A t \in Nat : CountIn(admittedAt, t, t + Interval) <= 2 * Rate
  BY DEF RedisInv
<1>6. CASE ~Exists /\ Rate < 1
  <2>1. val' = 0 /\ expiry' = expiry /\ ~admits /\ val = 0
    BY <1>0, <1>6 DEF Script, Exists
  <2>2. admittedAt' = admittedAt /\ \A d \in Calls : admittedAt[d] = -1
    BY <1>1, <2>1 DEF RedisInv, KeyLives
  <2>3. KeyLives'
    BY <2>1, <2>2 DEF KeyLives
  <2> QED
    BY <1>0, <1>1, <1>5, <2>1, <2>2, <2>3 DEF RedisTypeOK
<1>7. CASE ~Exists /\ ~(Rate < 1)
  <2>1. val' = 1 /\ expiry' = now + Interval /\ Rate >= 1
    BY <1>0, <1>7 DEF Script
  <2>2. PICK s \in Int : s = now - Interval
    BY <1>0
  <2>3. ASSUME val > 0
        PROVE  /\ expiry <= now /\ \A d \in Calls : admittedAt[d] < expiry
               /\ CountIn(admittedAt, expiry - Interval, expiry) <= val
    BY <1>0, <1>7, <2>3 DEF RedisInv, KeyLives, Exists
  <2>4. ASSUME NEW b \in Int PROVE CountIn(admittedAt, now, b) = 0
    <3>1. CASE val = 0
      <4>1. \A d \in Calls : admittedAt[d] < 0
        BY <3>1 DEF RedisInv, KeyLives
      <4> QED
        BY <1>2, <4>1, CountNone
    <3>2. CASE val > 0
      <4>1. \A d \in Calls : admittedAt[d] < now
        BY <1>0, <2>3, <3>2
      <4> QED
        BY <1>2, <4>1, CountNone
    <3> QED
      BY <1>0, <3>1, <3>2
  <2>5. CountIn(admittedAt, s, now) <= Rate
    <3>1. CASE val = 0
      <4>1. \A d \in Calls : admittedAt[d] < 0
        BY <3>1 DEF RedisInv, KeyLives
      <4>2. CountIn(admittedAt, s, now) = 0
        BY <1>2, <4>1, CountNone
      <4> QED
        BY <1>0, <4>2
    <3>2. CASE val > 0
      <4>1. PICK e \in Int : e = expiry - Interval
        BY <1>0
      <4>2. e <= s /\ CountIn(admittedAt, e, expiry) <= val /\ \A d \in Calls : admittedAt[d] < expiry
        BY <1>0, <2>2, <2>3, <3>2, <4>1
      <4>3. CountIn(admittedAt, s, now) <= CountIn(admittedAt, e, expiry)
        BY <1>2, <4>2, CountWider
      <4>4. CountIn(admittedAt, s, now) \in Nat /\ CountIn(admittedAt, e, expiry) \in Nat
        BY <1>2, CountNat
      <4> QED
        BY <1>0, <4>2, <4>3, <4>4
    <3> QED
      BY <1>0, <3>1, <3>2
  <2>6. KeyLives'
    <3>1. PICK h \in Int : h = now + Interval
      BY <1>0
    <3>2. expiry' = h /\ expiry' - Interval = now /\ expiry' - 2 * Interval = s
      BY <1>0, <2>1, <2>2, <3>1
    <3>3. CountIn(admittedAt', now, h) <= 1
      <4>1. CountIn(admittedAt', now, h) \in Nat /\ CountIn(admittedAt', now, h) <= CountIn(admittedAt, now, h) + 1
        BY <1>2, <1>3
      <4> QED
        BY <2>4, <4>1
    <3>4. CountIn(admittedAt', s, now) <= Rate
      <4>1. now >= now
        BY <1>2
      <4>2. CountIn(admittedAt', s, now) = CountIn(admittedAt, s, now)
        BY <1>2, <1>3, <4>1
      <4> QED
        BY <2>5, <4>2
    <3>5. \A d \in Calls : admittedAt'[d] < h
      BY <1>0, <1>1, <3>1
    <3> QED
      BY <1>0, <2>1, <3>2, <3>3, <3>4, <3>5 DEF KeyLives
  <2>7. ASSUME NEW t \in Nat PROVE CountIn(admittedAt', t, t + Interval) <= 2 * Rate
    <3>0. PICK b \in Int : b = t + Interval /\ t \in Int
      BY <1>0
    <3>1. /\ CountIn(admittedAt, t, b) \in Nat /\ CountIn(admittedAt', t, b) \in Nat
          /\ CountIn(admittedAt', t, b) <= CountIn(admittedAt, t, b) + 1
          /\ now < t \/ now >= b => CountIn(admittedAt', t, b) = CountIn(admittedAt, t, b)
      BY <1>3, <3>0
    <3>2. CountIn(admittedAt, t, b) <= 2 * Rate
      BY <1>5, <3>0
    <3>3. CASE now >= t /\ now < b
      <4>1. CountIn(admittedAt, t, b) <= CountIn(admittedAt, t, now) + CountIn(admittedAt, now, b)
        BY <1>2, CountCut
      <4>2. s <= t
        BY <1>0, <2>2, <3>0, <3>3
      <4>3. CountIn(admittedAt, t, now) <= CountIn(admittedAt, s, now)
        BY <1>2, <4>2, CountWider
      <4>4. CountIn(admittedAt, t, now) \in Nat /\ CountIn(admittedAt, s, now) \in Nat
        BY <1>2, CountNat
      <4>5. CountIn(admittedAt, now, b) = 0
        BY <2>4
      <4>6. CountIn(admittedAt', t, b) <= 2 * Rate
        BY <1>0, <2>1, <2>5, <3>1, <4>1, <4>3, <4>4, <4>5
      <4> QED
        BY <3>0, <4>6
    <3>4. CASE now < t \/ now >= b
      BY <3>0, <3>1, <3>2, <3>4
    <3> QED
      BY <1>0, <3>0, <3>3, <3>4
  <2>8. RedisTypeOK'
    BY <1>0, <1>1, <2>1 DEF RedisTypeOK
  <2> QED
    BY <1>1, <2>6, <2>7, <2>8
<1>8. CASE Exists /\ val < Rate
  <2>1. val' = val + 1 /\ expiry' = expiry /\ val > 0 /\ now < expiry
    BY <1>0, <1>8 DEF Script, Exists, Below
  <2>2. PICK s \in Int : s = expiry - Interval
    BY <1>0
  <2>3. PICK q \in Int : q = s - Interval
    BY <1>0
  <2>4. q = expiry - 2 * Interval
    BY <1>0, <2>2, <2>3
  <2>5. /\ s \in 0 .. now
        /\ \A d \in Calls : admittedAt[d] < expiry
        /\ CountIn(admittedAt, s, expiry) <= val
        /\ CountIn(admittedAt, q, s) <= Rate
    BY <1>0, <2>1, <2>2, <2>4 DEF RedisInv, KeyLives
  <2>6. /\ CountIn(admittedAt, s, expiry) \in Nat /\ CountIn(admittedAt, q, s) \in Nat
        /\ CountIn(admittedAt', s, expiry) \in Nat
        /\ CountIn(admittedAt', s, expiry) <= CountIn(admittedAt, s, expiry) + 1
        /\ now < q \/ now >= s => CountIn(admittedAt', q, s) = CountIn(admittedAt, q, s)
    BY <1>2, <1>3
  <2>7. KeyLives'
    <3>1. CountIn(admittedAt', s, expiry) <= val + 1 /\ CountIn(admittedAt', q, s) <= Rate
      BY <1>0, <2>5, <2>6
    <3>2. \A d \in Calls : admittedAt'[d] < expiry
      BY <1>0, <1>1, <2>1
    <3>3. expiry' - Interval = s /\ expiry' - 2 * Interval = q
      BY <2>1, <2>2, <2>4
    <3> QED
      BY <1>0, <2>1, <2>5, <3>1, <3>2, <3>3 DEF KeyLives
  <2>8. ASSUME NEW t \in Nat PROVE CountIn(admittedAt', t, t + Interval) <= 2 * Rate
    <3>0. PICK b \in Int : b = t + Interval /\ t \in Int
      BY <1>0
    <3>1. /\ CountIn(admittedAt, t, b) \in Nat /\ CountIn(admittedAt', t, b) \in Nat
          /\ CountIn(admittedAt', t, b) <= CountIn(admittedAt, t, b) + 1
          /\ now < t \/ now >= b => CountIn(admittedAt', t, b) = CountIn(admittedAt, t, b)
      BY <1>3, <3>0
    <3>2. CountIn(admittedAt, t, b) <= 2 * Rate
      BY <1>5, <3>0
    <3>3. CASE now >= t /\ now < b
      <4>1. CountIn(admittedAt, t, b) <= CountIn(admittedAt, t, s) + CountIn(admittedAt, s, b)
        BY <1>2, CountCut
      <4>2. q <= t
        BY <1>0, <2>3, <2>5, <3>0, <3>3
      <4>3. CountIn(admittedAt, t, s) <= CountIn(admittedAt, q, s)
        BY <1>2, <4>2, CountWider
      <4>4. CountIn(admittedAt, s, b) <= CountIn(admittedAt, s, expiry)
        BY <1>2, <2>5, CountWider
      <4>5. CountIn(admittedAt, t, s) \in Nat /\ CountIn(admittedAt, s, b) \in Nat
        BY <1>2, CountNat
      <4>6. CountIn(admittedAt', t, b) <= 2 * Rate
        BY <1>0, <1>8, <2>5, <2>6, <3>1, <4>1, <4>3, <4>4, <4>5
      <4> QED
        BY <3>0, <4>6
    <3>4. CASE now < t \/ now >= b
      BY <3>0, <3>1, <3>2, <3>4
    <3> QED
      BY <1>0, <3>0, <3>3, <3>4
  <2>9. RedisTypeOK'
    BY <1>0, <1>1, <1>8, <2>1 DEF RedisTypeOK
  <2> QED
    BY <1>1, <2>7, <2>8, <2>9
<1>9. CASE Exists /\ ~(val < Rate)
  <2>1. val' = val /\ expiry' = expiry /\ ~admits
    BY <1>0, <1>9 DEF Script, Below
  <2>2. admittedAt' = admittedAt
    BY <1>1, <2>1
  <2>3. KeyLives' /\ RedisTypeOK'
    BY <2>1, <2>2 DEF RedisInv, RedisTypeOK, KeyLives
  <2> QED
    BY <1>1, <1>5, <2>2, <2>3
<1> QED
  BY <1>6, <1>7, <1>8, <1>9

(* Every call runs the script at most once, with its answer or without.    *)
LEMMA RedisStepInv ==
    ASSUME RedisInv, RedisNext
    PROVE  RedisInv'
<1>0. CallOK /\ pc \in [Calls -> {"idle", "done"}] /\ now \in 0 .. MaxTime /\ MaxTime \in Nat /\ Interval \in Nat
      /\ RedisTypeOK
  BY LimitedCallAssumption DEF RedisInv, CallOK
<1>1. CASE Pass /\ UNCHANGED redisVars
  <2>1. CallOK' /\ now' = now + 1 /\ pc' = pc /\ UNCHANGED <<val, expiry, admittedAt>>
    BY <1>0, <1>1, PassKeeps DEF redisVars
  <2>3. \A c \in Calls : admittedAt[c] \in Int /\ admittedAt[c] <= now
    BY <1>0 DEF RedisInv, RedisTypeOK
  <2>4. \A c \in Calls : admittedAt'[c] <= now'
    BY <1>0, <2>1, <2>3
  <2>5. KeyLives'
    <3>1. expiry \in Int /\ expiry - Interval \in Int
      BY <1>0 DEF RedisTypeOK
    <3>2. expiry - Interval \in 0 .. now => expiry - Interval \in 0 .. now'
      BY <1>0, <2>1, <3>1
    <3> QED
      BY <2>1, <3>2 DEF RedisInv, KeyLives
  <2>6. \A t \in Nat : CountIn(admittedAt', t, t + Interval) = CountIn(admittedAt, t, t + Interval)
    BY <2>1
  <2> QED
    BY <1>0, <2>1, <2>4, <2>5, <2>6 DEF RedisInv, RedisTypeOK
<1>2. ASSUME NEW c \in Calls, pc[c] = "idle", NEW o \in Outcomes, Return(c, o), UNCHANGED <<now, ended, onReject>>,
             RedisTypeOK', KeyLives', \A d \in Calls : admittedAt'[d] <= now,
             \A t \in Nat : CountIn(admittedAt', t, t + Interval) <= 2 * Rate,
             \A d \in Calls : d # c => admittedAt'[d] = admittedAt[d]
      PROVE  RedisInv'
  <2>1. pc' = [pc EXCEPT ![c] = "done"]
    BY <1>2 DEF Return, Goto
  <2>2. CallOK'
    BY <1>0, <1>2, ReturnKeeps
  <2>3. pc' \in [Calls -> {"idle", "done"}] /\ \A d \in Calls : pc'[d] = "idle" => admittedAt'[d] = -1
    BY <1>0, <1>2, <2>1 DEF RedisInv
  <2> QED
    BY <1>2, <2>2, <2>3 DEF RedisInv
<1>3. ASSUME NEW c \in Calls, Limit(c) PROVE RedisInv'
  <2>0. PICK o \in Outcomes : Return(c, o)
    BY <1>3, RejectedOutcome DEF Limit, Outcomes
  <2>1. /\ pc[c] = "idle" /\ val' = Script.val /\ expiry' = Script.expiry /\ UNCHANGED <<now, ended, onReject>>
    BY <1>3 DEF Limit
  <2>2. admittedAt[c] = -1
    BY <2>1 DEF RedisInv
  <2>3. PICK admits \in BOOLEAN : /\ admits => ~Script.over
                                  /\ admittedAt' = IF admits THEN [admittedAt EXCEPT ![c] = now] ELSE admittedAt
    <3>1. CASE Script.over
      BY <1>3, <3>1 DEF Limit
    <3>2. CASE ~Script.over
      BY <1>3, <3>2 DEF Limit
    <3> QED
      BY <3>1, <3>2
  <2>4. /\ RedisTypeOK' /\ KeyLives'
        /\ \A d \in Calls : admittedAt'[d] <= now
        /\ \A t \in Nat : CountIn(admittedAt', t, t + Interval) <= 2 * Rate
    BY <2>1, <2>2, <2>3, ScriptKeeps
  <2>5. \A d \in Calls : d # c => admittedAt'[d] = admittedAt[d]
    BY <1>0, <2>3 DEF RedisTypeOK
  <2> QED
    BY <1>2, <2>0, <2>1, <2>4, <2>5
<1>4. ASSUME NEW c \in Calls, LimitFails(c) PROVE RedisInv'
  <2>0. /\ pc[c] = "idle" /\ "error" \in Outcomes /\ Return(c, "error")
        /\ UNCHANGED <<now, ended, onReject, admittedAt>>
        /\ \A d \in Calls : d # c => admittedAt'[d] = admittedAt[d]
    BY <1>4 DEF LimitFails, Outcomes
  <2>1. CASE UNCHANGED <<val, expiry>>
    <3>1. RedisTypeOK' /\ KeyLives' /\ \A t \in Nat : CountIn(admittedAt', t, t + Interval) = CountIn(admittedAt,
        t, t + Interval)
      BY <2>0, <2>1 DEF RedisInv, RedisTypeOK, KeyLives
    <3>2. \A d \in Calls : admittedAt'[d] <= now
      BY <2>0 DEF RedisInv
    <3>3. \A t \in Nat : CountIn(admittedAt', t, t + Interval) <= 2 * Rate
      BY <3>1 DEF RedisInv
    <3> QED
      BY <1>2, <2>0, <3>1, <3>2, <3>3
  <2>2. CASE val' = Script.val /\ expiry' = Script.expiry
    <3>1. admittedAt[c] = -1 /\ admittedAt' = IF FALSE THEN [admittedAt EXCEPT ![c] = now] ELSE admittedAt
      BY <2>0 DEF RedisInv
    <3>2. /\ RedisTypeOK' /\ KeyLives'
          /\ \A d \in Calls : admittedAt'[d] <= now
          /\ \A t \in Nat : CountIn(admittedAt', t, t + Interval) <= 2 * Rate
      BY <2>0, <2>2, <3>1, ScriptKeeps
    <3> QED
      BY <1>2, <2>0, <3>2
  <2> QED
    BY <1>4, <2>1, <2>2 DEF LimitFails
<1> QED
  BY <1>1, <1>3, <1>4 DEF RedisNext

(* The invariant gives the property.                                       *)
LEMMA RedisInvGives == RedisInv => AnyIntervalWithinTwiceRate
<1> SUFFICES ASSUME RedisInv, NEW t \in 0 .. MaxTime
             PROVE  Cardinality({c \in Calls : admittedAt[c] \in t .. t + Interval - 1}) <= 2 * Rate
  BY DEF AnyIntervalWithinTwiceRate
<1>1. t \in Nat /\ Interval \in Nat /\ \A c \in Calls : admittedAt[c] \in Int
  BY LimitedCallAssumption DEF RedisInv, RedisTypeOK
<1>2. {c \in Calls : admittedAt[c] \in t .. t + Interval - 1} = Between(admittedAt, t, t + Interval)
  BY <1>1 DEF Between
<1> QED
  BY <1>1, <1>2 DEF RedisInv, CountIn

-----------------------------------------------------------------------------
(* The adaptive limiter                                                    *)

(* The time since the last refill is time of the clock.                    *)
AdaptiveInv ==
    /\ CallOK /\ AdaptiveTypeOK
    /\ elapsed <= now /\ supply \in Nat
    /\ GrantedWithinSupply /\ RateInRange

(* What the proofs below use of the state.                                 *)
LEMMA AdaptiveTypes ==
    ASSUME AdaptiveInv
    PROVE  /\ MaxTime \in Nat /\ BucketSize \in Nat /\ now \in 0 .. MaxTime
           /\ MinRate \in Nat /\ MaxRate \in Nat /\ MinRate <= MaxRate
           /\ bucket \in 0 .. BucketSize /\ elapsed \in Nat /\ elapsed <= now /\ supply \in Nat
           /\ rate \in Nat /\ currentRate \in Nat /\ elapsed * rate \in Nat
           /\ Granted \in SUBSET Calls /\ Cardinality(Granted) \in Nat
<1>1. /\ MaxTime \in Nat /\ BucketSize \in Nat /\ now \in 0 .. MaxTime
      /\ MinRate \in Nat /\ MaxRate \in Nat /\ MinRate <= MaxRate
      /\ bucket \in 0 .. BucketSize /\ elapsed \in Nat /\ elapsed <= now /\ supply \in Nat
      /\ rate \in Nat /\ currentRate \in Nat
  BY LimitedCallAssumption, AdaptiveLimiterAssumption DEF AdaptiveInv, CallOK, AdaptiveTypeOK, RateInRange
<1>2. Granted \in SUBSET Calls
  BY DEF Granted
<1>3. Cardinality(Granted) \in Nat
  BY <1>2, CallsCount
<1>4. elapsed * rate \in Nat
  BY <1>1, TimesOneMore
<1> QED
  BY <1>1, <1>2, <1>3, <1>4

(* A refill puts in at most what was supplied, and never overflows.        *)
LEMMA RefilledBounds ==
    ASSUME AdaptiveInv
    PROVE  /\ Refilled \in 0 .. BucketSize /\ Refilled <= bucket + elapsed * rate
           /\ 0 * rate = 0
<1>1. bucket \in 0 .. BucketSize /\ elapsed * rate \in Nat /\ BucketSize \in Nat /\ rate \in Nat
  BY AdaptiveTypes
<1> DEFINE p == elapsed * rate
<1>2. p \in Nat /\ Refilled = Smaller(BucketSize, bucket + p)
  BY <1>1 DEF Refilled
<1> HIDE DEF p
<1>3. Smaller(BucketSize, bucket + p) \in 0 .. BucketSize /\ Smaller(BucketSize, bucket + p) <= bucket + p
  BY <1>1, <1>2 DEF Smaller
<1> QED
  BY <1>1, <1>2, <1>3 DEF p

(* A new limiter is full and has granted nothing.                          *)
LEMMA AdaptiveInitInv == AdaptiveInit => AdaptiveInv
<1> SUFFICES ASSUME CallInit, NEW th \in Thresholds, NEW reject \in BOOLEAN, NewAdaptiveLimiter(th, reject)
             PROVE  AdaptiveInv
  BY DEF AdaptiveInit
<1>1. MaxTime \in Nat /\ BucketSize \in Nat /\ InitialRate \in MinRate .. MaxRate /\ InitialRate \in Nat
  BY LimitedCallAssumption, AdaptiveLimiterAssumption
<1>2. CallOK
  BY <1>1 DEF CallInit, CallOK, Outcomes
<1>3. /\ thresholds \in Thresholds /\ RejectOnOverload \in BOOLEAN /\ rate = InitialRate /\ currentRate = InitialRate
      /\ bucket = BucketSize /\ elapsed = 0 /\ control = "ticker" /\ stopCh = FALSE /\ supply = 0 /\ now = 0
      /\ allowed \in [Calls -> {FALSE}] /\ pc \in [Calls -> {"idle"}]
      /\ stats = [AllowedRequests |-> 0, RejectedRequests |-> 0, consecutiveRejects |-> 0]
  BY DEF NewAdaptiveLimiter, CallInit
<1>4. AdaptiveTypeOK
  <2>1. bucket \in 0 .. BucketSize /\ elapsed \in 0 .. MaxTime
    BY <1>1, <1>3
  <2>2. stats \in [AllowedRequests : Nat, RejectedRequests : Nat, consecutiveRejects : Nat]
    BY <1>3
  <2> QED
    BY <1>3, <2>1, <2>2 DEF AdaptiveTypeOK
<1>5. GrantedWithinSupply
  <2>1. Granted = {}
    BY <1>3 DEF Granted
  <2>2. Cardinality(Granted) = 0
    BY <2>1, FS_EmptySet
  <2>3. elapsed * rate = 0
    BY <1>1, <1>3
  <2> QED
    BY <1>1, <1>3, <2>2, <2>3 DEF GrantedWithinSupply
<1>6. RateInRange
  BY <1>1, <1>3 DEF RateInRange
<1> QED
  BY <1>2, <1>3, <1>4, <1>5, <1>6 DEF AdaptiveInv

(* The bucket gives a token to a call, or none.                            *)
LEMMA AllowKeeps ==
    ASSUME AdaptiveInv, NEW c \in Calls, Allow(c)
    PROVE  AdaptiveInv'
<1>1. /\ MaxTime \in Nat /\ BucketSize \in Nat /\ bucket \in 0 .. BucketSize /\ supply \in Nat /\ now \in 0 .. MaxTime
      /\ elapsed * rate \in Nat /\ Granted \in SUBSET Calls /\ Cardinality(Granted) \in Nat
  BY AdaptiveTypes
<1>2. Refilled \in 0 .. BucketSize /\ Refilled <= bucket + elapsed * rate /\ 0 * rate = 0
  BY RefilledBounds
<1>3. UNCHANGED <<now, ended, onReject, outcome, thresholds, RejectOnOverload, rate, currentRate,
                  stats, control, stopCh, supply>>
  BY DEF Allow
<1>4. elapsed' = 0 /\ pc' = [pc EXCEPT ![c] = IF pc[c] = "idle" THEN "record" ELSE "recordAgain"]
  BY DEF Allow, Takes, Goto
<1>5. Cardinality(Granted) + bucket + elapsed * rate <= BucketSize + supply
  BY DEF AdaptiveInv, GrantedWithinSupply
<1>6. /\ allowed' \in [Calls -> BOOLEAN] /\ bucket' \in 0 .. BucketSize
      /\ Cardinality(Granted') \in Nat /\ Cardinality(Granted') + bucket' <= Cardinality(Granted) + Refilled
  <2>1. CASE Refilled >= 1
    <3>1. bucket' = Refilled - 1 /\ allowed' = [allowed EXCEPT ![c] = TRUE] /\ allowed \in [Calls -> BOOLEAN]
      BY <2>1 DEF Allow, Takes, AdaptiveInv, AdaptiveTypeOK
    <3>2. Granted' = Granted \cup {c}
      BY <3>1 DEF Granted
    <3>3. Granted' \in SUBSET Calls
      BY <1>1, <3>2
    <3>4. Cardinality(Granted') \in Nat /\ Cardinality(Granted') <= Cardinality(Granted) + 1
      <4>1. CASE c \in Granted
        <5>1. Granted' = Granted
          BY <3>2, <4>1
        <5> QED
          BY <1>1, <5>1
      <4>2. CASE c \notin Granted
        BY <1>1, <3>2, <4>2, CallsMore
      <4> QED
        BY <4>1, <4>2
    <3>5. bucket' \in 0 .. BucketSize
      BY <1>1, <1>2, <2>1, <3>1
    <3>6. Cardinality(Granted') + bucket' <= Cardinality(Granted) + Refilled
      BY <1>1, <1>2, <2>1, <3>1, <3>4
    <3>7. allowed' \in [Calls -> BOOLEAN]
      BY <3>1
    <3> QED
      BY <3>4, <3>5, <3>6, <3>7
  <2>2. CASE ~(Refilled >= 1)
    <3>1. bucket' = Refilled /\ allowed' = [allowed EXCEPT ![c] = FALSE] /\ allowed \in [Calls -> BOOLEAN]
      BY <2>2 DEF Allow, Takes, AdaptiveInv, AdaptiveTypeOK
    <3>2. Granted' \in SUBSET Granted
      BY <3>1 DEF Granted
    <3>3. Granted' \in SUBSET Calls
      BY <1>1, <3>2
    <3>4. Cardinality(Granted') \in Nat /\ Cardinality(Granted') <= Cardinality(Granted)
      BY <1>1, <3>2, <3>3, CallsCount, CallsFewer
    <3>5. Cardinality(Granted') + bucket' <= Cardinality(Granted) + Refilled
      BY <1>1, <1>2, <3>1, <3>4
    <3>6. allowed' \in [Calls -> BOOLEAN]
      BY <3>1
    <3> QED
      BY <1>2, <3>1, <3>4, <3>5, <3>6
  <2> QED
    BY <2>1, <2>2
<1>7. GrantedWithinSupply'
  <2>1. elapsed' * rate' = 0
    BY <1>2, <1>3, <1>4
  <2>2. Cardinality(Granted') + bucket' <= BucketSize + supply
    BY <1>1, <1>2, <1>5, <1>6
  <2>3. Cardinality(Granted') + bucket' + elapsed' * rate' <= BucketSize + supply'
    BY <1>1, <1>3, <1>6, <2>1, <2>2
  <2> QED
    BY <2>3 DEF GrantedWithinSupply
<1>8. AdaptiveTypeOK'
  <2>1. pc' \in [Calls -> {"idle", "record", "wait", "again", "recordAgain", "done"}]
    BY <1>4 DEF AdaptiveInv, AdaptiveTypeOK
  <2>2. elapsed' \in 0 .. MaxTime
    BY <1>1, <1>4
  <2> QED
    BY <1>3, <1>6, <2>1, <2>2 DEF AdaptiveInv, AdaptiveTypeOK
<1>9. CallOK' /\ RateInRange'
  BY <1>3 DEF AdaptiveInv, CallOK, RateInRange
<1>10. elapsed' <= now' /\ supply' \in Nat
  BY <1>1, <1>3, <1>4
<1> QED
  BY <1>7, <1>8, <1>9, <1>10 DEF AdaptiveInv

(* A rate brought into its bounds.                                         *)
LEMMA ClampedInRange == ASSUME NEW r \in Int PROVE Clamped(r) \in MinRate .. MaxRate
BY AdaptiveLimiterAssumption DEF Clamped

(* The rate the load asks for is a number.                                 *)
LEMMA AdjustedInt == ASSUME currentRate \in Nat PROVE Adjusted \in Int
<1>1. DecreaseFactor \in Nat /\ IncreaseFactor \in Nat
  BY AdaptiveLimiterAssumption
<1>2. currentRate * DecreaseFactor \in Int /\ currentRate * IncreaseFactor \in Int
  BY <1>1, TimesOneMore
<1>3. (currentRate * DecreaseFactor) \div 100 \in Int /\ (currentRate * IncreaseFactor) \div 100 \in Int
  <2>1. \A x \in Int : x \div 100 \in Int
    OBVIOUS
  <2> QED
    BY <1>2, <2>1
<1> QED
  BY <1>3 DEF Adjusted

(* Calls, the control loop, Close and time in any order.                   *)
LEMMA AdaptiveStepInv ==
    ASSUME AdaptiveInv, AdaptiveNext
    PROVE  AdaptiveInv'
<1>0. /\ MaxTime \in Nat /\ BucketSize \in Nat /\ bucket \in 0 .. BucketSize /\ supply \in Nat /\ now \in 0 .. MaxTime
      /\ elapsed \in Nat /\ elapsed <= now /\ rate \in Nat /\ currentRate \in Nat
      /\ elapsed * rate \in Nat /\ Cardinality(Granted) \in Nat
  BY AdaptiveTypes
<1>1. CallOK /\ AdaptiveTypeOK /\ GrantedWithinSupply /\ RateInRange
  BY DEF AdaptiveInv
<1>2. UNCHANGED allowed => Granted' = Granted
  BY DEF Granted
<1>3. ASSUME UNCHANGED <<bucket, elapsed, rate, supply, allowed>>
      PROVE  GrantedWithinSupply'
  BY <1>1, <1>2, <1>3 DEF GrantedWithinSupply
<1>4. CASE PassSupplying
  <2>1. CallOK' /\ now' = now + 1 /\ pc' = pc
    BY <1>1, <1>4, PassKeeps DEF PassSupplying
  <2>2. /\ supply' = supply + rate /\ elapsed' = elapsed + 1
        /\ UNCHANGED <<thresholds, RejectOnOverload, rate, bucket, currentRate, stats, allowed, control, stopCh>>
    BY <1>4 DEF PassSupplying
  <2>3. now' \in 0 .. MaxTime
    BY <2>1 DEF CallOK
  <2>4. elapsed' \in 0 .. MaxTime /\ elapsed' <= now' /\ supply' \in Nat
    BY <1>0, <2>1, <2>2, <2>3
  <2>5. elapsed' * rate' = elapsed * rate + rate
    BY <1>0, <2>2
  <2>6. GrantedWithinSupply'
    <3>1. Cardinality(Granted) + bucket + elapsed * rate <= BucketSize + supply
      BY <1>1 DEF GrantedWithinSupply
    <3>2. Cardinality(Granted) + bucket + (elapsed * rate + rate) <= BucketSize + (supply + rate)
      BY <1>0, <3>1
    <3>3. Granted' = Granted
      BY <1>2, <2>2
    <3> QED
      BY <2>2, <2>5, <3>2, <3>3 DEF GrantedWithinSupply
  <2>7. AdaptiveTypeOK' /\ RateInRange'
    BY <1>1, <2>1, <2>2, <2>4 DEF AdaptiveTypeOK, RateInRange
  <2> QED
    BY <2>1, <2>4, <2>6, <2>7 DEF AdaptiveInv
<1>5. CASE SetCurrentRate
  <2>1. /\ control = "ticker" /\ control' = "update" /\ currentRate' = Clamped(Adjusted)
        /\ UNCHANGED <<now, pc, ended, onReject, outcome, thresholds, RejectOnOverload, rate, bucket, elapsed,
           stats,
                       allowed, stopCh, supply>>
    BY <1>5 DEF SetCurrentRate, callVars
  <2>2. currentRate' \in MinRate .. MaxRate
    BY <1>0, <2>1, AdjustedInt, ClampedInRange
  <2>3. RateInRange'
    BY <1>1, <2>1, <2>2 DEF RateInRange
  <2>4. CallOK' /\ AdaptiveTypeOK' /\ GrantedWithinSupply'
    BY <1>1, <1>3, <2>1 DEF CallOK, AdaptiveTypeOK
  <2> QED
    BY <1>0, <2>1, <2>3, <2>4 DEF AdaptiveInv
<1>6. CASE UpdateRate
  <2>1. /\ bucket' = Refilled /\ elapsed' = 0 /\ rate' = currentRate /\ control' = "ticker"
        /\ stats' = [stats EXCEPT !.consecutiveRejects = 0]
        /\ UNCHANGED <<now, pc, ended, onReject, outcome, thresholds, RejectOnOverload, currentRate, allowed,
                       stopCh, supply>>
    BY <1>6 DEF UpdateRate, RefillFirst, callVars
  <2>2. Refilled \in 0 .. BucketSize /\ Refilled <= bucket + elapsed * rate
    BY RefilledBounds
  <2>3. elapsed' * rate' = 0
    BY <1>0, <2>1
  <2>4. GrantedWithinSupply'
    <3>1. Cardinality(Granted) + bucket + elapsed * rate <= BucketSize + supply
      BY <1>1 DEF GrantedWithinSupply
    <3>2. Cardinality(Granted) + Refilled + 0 <= BucketSize + supply
      BY <1>0, <2>2, <3>1
    <3>3. Granted' = Granted
      BY <1>2, <2>1
    <3> QED
      BY <2>1, <2>3, <3>2, <3>3 DEF GrantedWithinSupply
  <2>5. elapsed' \in 0 .. MaxTime /\ elapsed' <= now'
    BY <1>0, <2>1
  <2>6. stats' \in [AllowedRequests : Nat, RejectedRequests : Nat, consecutiveRejects : Nat]
    BY <1>1, <2>1 DEF AdaptiveTypeOK
  <2>7. CallOK' /\ AdaptiveTypeOK' /\ RateInRange'
    BY <1>1, <2>1, <2>2, <2>5, <2>6 DEF CallOK, AdaptiveTypeOK, RateInRange
  <2> QED
    BY <1>0, <2>1, <2>4, <2>5, <2>7 DEF AdaptiveInv
<1>7. CASE CloseAdaptive \/ StopControl
  <2>1. /\ UNCHANGED <<now, pc, ended, onReject, outcome, thresholds, RejectOnOverload, rate, bucket, elapsed,
                       currentRate, stats, allowed, supply>>
        /\ control' \in {"ticker", "update", "done"} /\ stopCh' \in BOOLEAN
        /\ control' # "update" => rate = currentRate
    BY <1>1, <1>7 DEF CloseAdaptive, StopControl, callVars, AdaptiveTypeOK, RateInRange
  <2>2. CallOK' /\ AdaptiveTypeOK' /\ GrantedWithinSupply' /\ RateInRange'
    BY <1>1, <1>3, <2>1 DEF CallOK, AdaptiveTypeOK, RateInRange
  <2> QED
    BY <1>0, <2>1, <2>2 DEF AdaptiveInv
<1>8. ASSUME NEW c \in Calls, Record(c) PROVE AdaptiveInv'
  <2>1. UNCHANGED <<now, ended, onReject, thresholds, RejectOnOverload, rate, bucket, elapsed,
                    currentRate, allowed, control, stopCh, supply>>
    BY <1>8 DEF Record
  <2>2. /\ stats' \in [AllowedRequests : Nat, RejectedRequests : Nat, consecutiveRejects : Nat]
        /\ pc' \in [Calls -> {"idle", "record", "wait", "again", "recordAgain", "done"}]
        /\ outcome' \in [Calls -> Outcomes]
    <3>1. /\ stats \in [AllowedRequests : Nat, RejectedRequests : Nat, consecutiveRejects : Nat]
          /\ pc \in [Calls -> {"idle", "record", "wait", "again", "recordAgain", "done"}]
          /\ outcome \in [Calls -> Outcomes] /\ "handled" \in Outcomes /\ "limited" \in Outcomes
      BY <1>1 DEF AdaptiveTypeOK, CallOK, Outcomes
    <3>2. \/ stats' = [stats EXCEPT !.AllowedRequests = @ + 1]
          \/ stats' = [stats EXCEPT !.RejectedRequests = @ + 1, !.consecutiveRejects = @ + 1]
      BY <1>8 DEF Record
    <3>3. \/ pc' = [pc EXCEPT ![c] = "done"] /\ outcome' = [outcome EXCEPT ![c] = "handled"]
          \/ pc' = [pc EXCEPT ![c] = "done"] /\ outcome' = [outcome EXCEPT ![c] = "limited"]
          \/ pc' = [pc EXCEPT ![c] = "wait"] /\ outcome' = outcome
      BY <1>8 DEF Record, Return, Goto
    <3>4. stats' \in [AllowedRequests : Nat, RejectedRequests : Nat, consecutiveRejects : Nat]
      <4>1. /\ stats.AllowedRequests + 1 \in Nat /\ stats.RejectedRequests + 1 \in Nat
            /\ stats.consecutiveRejects + 1 \in Nat
        BY <3>1
      <4>2. CASE stats' = [stats EXCEPT !.AllowedRequests = @ + 1]
        BY <3>1, <4>1, <4>2
      <4>3. CASE stats' = [stats EXCEPT !.RejectedRequests = @ + 1, !.consecutiveRejects = @ + 1]
        BY <3>1, <4>1, <4>3
      <4> QED
        BY <3>2, <4>2, <4>3
    <3>5. /\ pc' \in [Calls -> {"idle", "record", "wait", "again", "recordAgain", "done"}]
          /\ outcome' \in [Calls -> Outcomes]
      BY <3>1, <3>3
    <3> QED
      BY <3>4, <3>5
  <2>3. CallOK' /\ AdaptiveTypeOK' /\ GrantedWithinSupply' /\ RateInRange'
    BY <1>1, <1>3, <2>1, <2>2 DEF CallOK, AdaptiveTypeOK, RateInRange
  <2> QED
    BY <1>0, <2>1, <2>3 DEF AdaptiveInv
<1>9. ASSUME NEW c \in Calls, GiveUp(c) \/ WaitOver(c) \/ (EndContext(c) /\ UNCHANGED adaptiveVars)
      PROVE  AdaptiveInv'
  <2>1. UNCHANGED <<now, onReject>> /\ UNCHANGED adaptiveVars
    BY <1>9 DEF GiveUp, WaitOver, EndContext
  <2>2. UNCHANGED <<thresholds, RejectOnOverload, rate, bucket, elapsed, currentRate, stats,
                    allowed, control, stopCh, supply>>
    BY <2>1 DEF adaptiveVars
  <2>3. /\ pc' \in [Calls -> {"idle", "record", "wait", "again", "recordAgain", "done"}]
        /\ outcome' \in [Calls -> Outcomes] /\ ended' \subseteq Calls
    <3>1. /\ pc \in [Calls -> {"idle", "record", "wait", "again", "recordAgain", "done"}]
          /\ outcome \in [Calls -> Outcomes] /\ "error" \in Outcomes /\ ended \subseteq Calls
      BY <1>1 DEF AdaptiveTypeOK, CallOK, Outcomes
    <3>2. \/ pc' = [pc EXCEPT ![c] = "done"] /\ outcome' = [outcome EXCEPT ![c] = "error"] /\ ended' = ended
          \/ pc' = [pc EXCEPT ![c] = "again"] /\ outcome' = outcome /\ ended' = ended
          \/ pc' = pc /\ outcome' = outcome /\ ended' = ended \cup {c}
      BY <1>9 DEF GiveUp, WaitOver, EndContext, Return, Goto
    <3> QED
      BY <3>1, <3>2
  <2>4. CallOK' /\ AdaptiveTypeOK' /\ GrantedWithinSupply' /\ RateInRange'
    BY <1>1, <1>3, <2>1, <2>2, <2>3 DEF CallOK, AdaptiveTypeOK, RateInRange
  <2> QED
    BY <1>0, <2>1, <2>2, <2>4 DEF AdaptiveInv
<1> QED
  BY <1>4, <1>5, <1>6, <1>7, <1>8, <1>9, AllowKeeps DEF AdaptiveNext

-----------------------------------------------------------------------------
(* The limiters one at a time                                              *)

(* A fixed-window limiter admits, between two starts of a window, at most  *)
(* its rate for each time a late goroutine cleared the counter and once    *)
(* more, however the atomic steps of LimitUnary interleave (fix_window.go).*)
THEOREM FixWindowRate == FixSpec => []WindowAdmitsRatePerReset
<1>1. FixInv /\ [FixNext]_<<callVars, fixVars>> => FixInv'
  <2> SUFFICES ASSUME FixInv, UNCHANGED <<callVars, fixVars>> PROVE FixInv'
    BY FixStepInv
  <2>1. UNCHANGED <<now, pc, ended, onReject, outcome, timestamp, cnt, current, seen, inWindow, stores>>
    BY DEF callVars, fixVars
  <2> QED
    BY <2>1 DEF FixInv, FixTypeOK, CallOK, DoneCalls
<1> QED
  BY <1>1, FixInitInv, FixInvGives, PTL DEF FixSpec

(* A sliding-window limiter holds at most its rate in the newest window,   *)
(* though calls reach its mutex out of the order of their stamps           *)
(* (slide_window.go).                                                      *)
THEOREM SlideWindowRate == SlideSpec => []NewestWindowWithinRate
<1>1. SlideInv /\ [SlideNext]_<<callVars, slideVars>> => SlideInv'
  <2> SUFFICES ASSUME SlideInv, UNCHANGED <<callVars, slideVars>> PROVE SlideInv'
    BY SlideStepInv
  <2>1. UNCHANGED <<now, pc, ended, onReject, outcome, queue, mutex, stamp, boundary, passed>>
    BY DEF callVars, slideVars
  <2> QED
    BY <2>1 DEF SlideInv, SlideTypeOK, CallOK
<1> QED
  BY <1>1, SlideInitInv, SlideInvGives, PTL DEF SlideSpec

(* A leaky or a token bucket lets a call through only for a tick or a      *)
(* token of its own, also while it is being closed (leaky_bucket.go,       *)
(* token_bucket.go).                                                       *)
THEOREM BucketTokens == TokenSpec => []AdmittedByTokens
<1>1. TokenInv /\ [TokenNext]_<<callVars, tokenVars>> => TokenInv'
  <2> SUFFICES ASSUME TokenInv, UNCHANGED <<callVars, tokenVars>> PROVE TokenInv'
    BY TokenStepInv
  <2>1. UNCHANGED <<now, pc, ended, onReject, outcome, kind, tick, stopped, tokens, close, closeCh, reads,
      produced>>
    BY DEF callVars, tokenVars
  <2> QED
    BY <2>1 DEF TokenInv, TokenTypeOK, CallOK, LetThrough, Ticks
<1> QED
  BY <1>1, TokenInitInv, TokenInvGives, PTL DEF TokenSpec

(* The window in redis admits at most twice its rate in any interval, also *)
(* when answers of the script are lost (fix_window.lua).                   *)
THEOREM RedisWindowRate == RedisSpec => []AnyIntervalWithinTwiceRate
<1>1. RedisInv /\ [RedisNext]_<<callVars, redisVars>> => RedisInv'
  <2> SUFFICES ASSUME RedisInv, UNCHANGED <<callVars, redisVars>> PROVE RedisInv'
    BY RedisStepInv
  <2>1. UNCHANGED <<now, pc, ended, onReject, outcome, val, expiry, admittedAt>>
    BY DEF callVars, redisVars
  <2> QED
    BY <2>1 DEF RedisInv, RedisTypeOK, KeyLives, CallOK
<1> QED
  BY <1>1, RedisInitInv, RedisInvGives, PTL DEF RedisSpec

(* The adaptive limiter never grants more than its bucket and the supply   *)
(* of the rates that were in force, and its rate keeps to its bounds       *)
(* (adaptive_limiter.go, token_bucket.go).                                 *)
THEOREM AdaptiveRate == AdaptiveSpec => [](GrantedWithinSupply /\ RateInRange)
<1>1. AdaptiveInv /\ [AdaptiveNext]_<<callVars, adaptiveVars>> => AdaptiveInv'
  <2> SUFFICES ASSUME AdaptiveInv, UNCHANGED <<callVars, adaptiveVars>> PROVE AdaptiveInv'
    BY AdaptiveStepInv
  <2>1. /\ UNCHANGED <<now, pc, ended, onReject, outcome, thresholds, RejectOnOverload, rate, bucket, elapsed>>
        /\ UNCHANGED <<currentRate, stats, allowed, control, stopCh, supply>>
    BY DEF callVars, adaptiveVars
  <2> QED
    BY <2>1 DEF AdaptiveInv, AdaptiveTypeOK, CallOK, GrantedWithinSupply, RateInRange, Granted
<1>2. AdaptiveInv => GrantedWithinSupply /\ RateInRange
  BY DEF AdaptiveInv
<1> QED
  BY <1>1, <1>2, AdaptiveInitInv, PTL DEF AdaptiveSpec

(* The limiter in use has its invariant, the others are as they were made. *)
SubjectInv ==
    /\ subject \in {"fix", "slide", "leaky", "token", "redis", "adaptive"}
    /\ CallOK
    /\ IF subject = "fix" THEN FixInv ELSE NewFixWindowLimiter
    /\ IF subject = "slide" THEN SlideInv ELSE NewSlideWindowLimiter
    /\ IF subject = "redis" THEN RedisInv ELSE NewRedisLimiter
    /\ IF subject \in {"leaky", "token"} THEN TokenInv ELSE NewLimiter("token")
    /\ IF subject = "adaptive" THEN AdaptiveInv
       ELSE \E th \in Thresholds, reject \in BOOLEAN : NewAdaptiveLimiter(th, reject)

(* Every limiter is made as in its own specification.                      *)
LEMMA SubjectInit == Init => SubjectInv
<1> SUFFICES ASSUME Init PROVE SubjectInv
  OBVIOUS
<1>1. CallOK
  BY LimitedCallAssumption DEF Init, CallInit, CallOK, Outcomes
<1>2. /\ subject \in {"fix", "slide", "leaky", "token", "redis", "adaptive"}
      /\ CallInit /\ NewFixWindowLimiter /\ NewSlideWindowLimiter /\ NewRedisLimiter
  BY DEF Init
<1>3. FixInv /\ SlideInv /\ RedisInv
  BY <1>2, FixInitInv, SlideInitInv, RedisInitInv DEF FixInit, SlideInit, RedisInit
<1>4. IF subject \in {"leaky", "token"} THEN TokenInv ELSE NewLimiter("token")
  <2>1. TokenInv
    <3>1. NewLimiter("leaky") \/ NewLimiter("token")
      BY DEF Init
    <3> QED
      BY <1>2, <3>1, TokenInitInv DEF TokenInit
  <2>2. subject \notin {"leaky", "token"} => NewLimiter("token")
    BY DEF Init
  <2> QED
    BY <2>1, <2>2
<1>5. \E th \in Thresholds, reject \in BOOLEAN : NewAdaptiveLimiter(th, reject)
  BY DEF Init
<1>6. AdaptiveInv
  BY <1>2, <1>5, AdaptiveInitInv DEF AdaptiveInit
<1> QED
  BY <1>1, <1>2, <1>3, <1>4, <1>5, <1>6 DEF SubjectInv

(* A limiter that is not in use stays as it was made.                      *)
LEMMA IdleKeeps ==
    /\ UNCHANGED fixVars /\ NewFixWindowLimiter => NewFixWindowLimiter'
    /\ UNCHANGED slideVars /\ NewSlideWindowLimiter => NewSlideWindowLimiter'
    /\ UNCHANGED redisVars /\ NewRedisLimiter => NewRedisLimiter'
    /\ UNCHANGED tokenVars /\ NewLimiter("token") => (NewLimiter("token"))'
    /\ /\ UNCHANGED adaptiveVars
       /\ \E th \in Thresholds, reject \in BOOLEAN : NewAdaptiveLimiter(th, reject)
       => \E th \in Thresholds, reject \in BOOLEAN : (NewAdaptiveLimiter(th, reject))'
<1>1. UNCHANGED fixVars /\ NewFixWindowLimiter => NewFixWindowLimiter'
  BY DEF fixVars, NewFixWindowLimiter
<1>2. UNCHANGED slideVars /\ NewSlideWindowLimiter => NewSlideWindowLimiter'
  BY DEF slideVars, NewSlideWindowLimiter
<1>3. UNCHANGED redisVars /\ NewRedisLimiter => NewRedisLimiter'
  BY DEF redisVars, NewRedisLimiter
<1>4. UNCHANGED tokenVars /\ NewLimiter("token") => (NewLimiter("token"))'
  BY DEF tokenVars, NewLimiter
<1>5. ASSUME UNCHANGED adaptiveVars, NEW th \in Thresholds, NEW reject \in BOOLEAN, NewAdaptiveLimiter(th, reject)
      PROVE  (NewAdaptiveLimiter(th, reject))'
  BY <1>5 DEF adaptiveVars, NewAdaptiveLimiter
<1> QED
  BY <1>1, <1>2, <1>3, <1>4, <1>5

(* A step is a step of the limiter in use.                                 *)
LEMMA SubjectStep ==
    ASSUME SubjectInv, [Next]_vars
    PROVE  SubjectInv'
<1>0. subject \in {"fix", "slide", "leaky", "token", "redis", "adaptive"}
  BY DEF SubjectInv
<1>1. CASE Fix
  <2>1. FixInv'
    BY <1>1, FixStepInv DEF Fix, SubjectInv
  <2>2. CallOK'
    BY <2>1 DEF FixInv
  <2> QED
    BY <1>1, <2>1, <2>2, IdleKeeps DEF Fix, SubjectInv
<1>2. CASE Slide
  <2>1. SlideInv'
    BY <1>2, SlideStepInv DEF Slide, SubjectInv
  <2>2. CallOK'
    BY <2>1 DEF SlideInv
  <2> QED
    BY <1>2, <2>1, <2>2, IdleKeeps DEF Slide, SubjectInv
<1>3. CASE Token
  <2>1. TokenInv'
    BY <1>3, TokenStepInv DEF Token, SubjectInv
  <2>2. CallOK'
    BY <2>1 DEF TokenInv
  <2> QED
    BY <1>3, <2>1, <2>2, IdleKeeps DEF Token, SubjectInv
<1>4. CASE Redis
  <2>1. RedisInv'
    BY <1>4, RedisStepInv DEF Redis, SubjectInv
  <2>2. CallOK'
    BY <2>1 DEF RedisInv
  <2> QED
    BY <1>4, <2>1, <2>2, IdleKeeps DEF Redis, SubjectInv
<1>5. CASE Adaptive
  <2>1. AdaptiveInv'
    BY <1>5, AdaptiveStepInv DEF Adaptive, SubjectInv
  <2>2. CallOK'
    BY <2>1 DEF AdaptiveInv
  <2> QED
    BY <1>5, <2>1, <2>2, IdleKeeps DEF Adaptive, SubjectInv
<1>6. CASE UNCHANGED vars
  <2>1. /\ UNCHANGED subject /\ UNCHANGED callVars /\ UNCHANGED fixVars /\ UNCHANGED slideVars
        /\ UNCHANGED tokenVars /\ UNCHANGED redisVars /\ UNCHANGED adaptiveVars
    BY <1>6 DEF vars
  <2>2. UNCHANGED <<now, pc, ended, onReject, outcome>>
    BY <2>1 DEF callVars
  <2>3. CallOK'
    BY <2>2 DEF SubjectInv, CallOK
  <2>4. FixInv => FixInv'
    BY <2>1, <2>2 DEF FixInv, FixTypeOK, CallOK, DoneCalls, fixVars
  <2>5. SlideInv => SlideInv'
    BY <2>1, <2>2 DEF SlideInv, SlideTypeOK, CallOK, slideVars
  <2>6. TokenInv => TokenInv'
    BY <2>1, <2>2 DEF TokenInv, TokenTypeOK, CallOK, tokenVars, LetThrough, Ticks
  <2>7. RedisInv => RedisInv'
    BY <2>1, <2>2 DEF RedisInv, RedisTypeOK, KeyLives, CallOK, redisVars
  <2>8. AdaptiveInv => AdaptiveInv'
    BY <2>1, <2>2 DEF AdaptiveInv, AdaptiveTypeOK, CallOK, GrantedWithinSupply, RateInRange, Granted, adaptiveVars
  <2> QED
    BY <2>1, <2>3, <2>4, <2>5, <2>6, <2>7, <2>8, IdleKeeps DEF SubjectInv
<1> QED
  BY <1>1, <1>2, <1>3, <1>4, <1>5, <1>6 DEF Next

(* A limiter nobody has used promises what it will promise in use.         *)
LEMMA NewPromises ==
    /\ NewFixWindowLimiter => WindowAdmitsRatePerReset
    /\ NewSlideWindowLimiter => NewestWindowWithinRate
    /\ NewRedisLimiter => AnyIntervalWithinTwiceRate
    /\ NewLimiter("token") => AdmittedByTokens
    /\ (\E th \in Thresholds, reject \in BOOLEAN : NewAdaptiveLimiter(th, reject))
         => GrantedWithinSupply /\ RateInRange
<1>0. MaxTime \in Nat /\ Rate \in Nat /\ Interval \in Nat /\ Cardinality({}) = 0
  BY LimitedCallAssumption, FS_EmptySet
<1>1. ASSUME NewFixWindowLimiter PROVE WindowAdmitsRatePerReset
  <2>1. inWindow = 0 /\ stores = 0
    BY <1>1 DEF NewFixWindowLimiter
  <2> QED
    BY <1>0, <2>1 DEF WindowAdmitsRatePerReset
<1>2. ASSUME NewSlideWindowLimiter PROVE NewestWindowWithinRate
  <2>1. {c \in passed : stamp[c] >= boundary} = {}
    BY <1>2 DEF NewSlideWindowLimiter
  <2> QED
    BY <1>0, <2>1 DEF NewestWindowWithinRate
<1>3. ASSUME NewRedisLimiter, NEW t \in 0 .. MaxTime
      PROVE  Cardinality({c \in Calls : admittedAt[c] \in t .. t + Interval - 1}) <= 2 * Rate
  <2> DEFINE S == {c \in Calls : admittedAt[c] \in t .. t + Interval - 1}
  <2>1. \A c \in Calls : admittedAt[c] = -1
    BY <1>3 DEF NewRedisLimiter
  <2>2. S = {}
    BY <1>0, <2>1
  <2> HIDE DEF S
  <2>3. Cardinality(S) <= 2 * Rate
    BY <1>0, <2>2
  <2> QED
    BY <2>3 DEF S
<1>4. ASSUME NewLimiter("token") PROVE AdmittedByTokens
  <2>1. LetThrough = {}
    BY <1>4 DEF NewLimiter, LetThrough
  <2>2. kind = "token" /\ produced = 0 /\ tokens = 0
    BY <1>4 DEF NewLimiter
  <2> QED
    BY <1>0, <2>1, <2>2 DEF AdmittedByTokens
<1>5. ASSUME NEW th \in Thresholds, NEW reject \in BOOLEAN, NewAdaptiveLimiter(th, reject)
      PROVE  GrantedWithinSupply /\ RateInRange
  <2>1. /\ rate = InitialRate /\ currentRate = InitialRate /\ bucket = BucketSize /\ elapsed = 0 /\ supply = 0
        /\ control = "ticker"
    BY <1>5 DEF NewAdaptiveLimiter
  <2>2. Granted = {}
    BY <1>5 DEF NewAdaptiveLimiter, Granted
  <2>3. BucketSize \in Nat /\ InitialRate \in MinRate .. MaxRate /\ InitialRate \in Nat
    BY AdaptiveLimiterAssumption
  <2>4. elapsed * rate = 0
    BY <2>1, <2>3
  <2> QED
    BY <1>0, <2>1, <2>2, <2>3, <2>4 DEF GrantedWithinSupply, RateInRange
<1>6. NewRedisLimiter => AnyIntervalWithinTwiceRate
  BY <1>3 DEF AnyIntervalWithinTwiceRate
<1> QED
  BY <1>1, <1>2, <1>4, <1>5, <1>6

(* The window limiters keep to their rates, each in use and unused, for    *)
(* every number of calls, rate, interval and length of time.               *)
THEOREM WindowRates == Spec => []WindowsWithinRate
<1>1. SubjectInv => WindowsWithinRate
  <2> SUFFICES ASSUME SubjectInv PROVE WindowsWithinRate
    OBVIOUS
  <2>1. TypeOK
    BY DEF SubjectInv, CallOK, TypeOK, FixInv, SlideInv, TokenInv, RedisInv, AdaptiveInv
  <2>2. WindowAdmitsRatePerReset
    BY FixInvGives, NewPromises DEF SubjectInv
  <2>3. NewestWindowWithinRate
    BY SlideInvGives, NewPromises DEF SubjectInv
  <2>4. AnyIntervalWithinTwiceRate
    BY RedisInvGives, NewPromises DEF SubjectInv
  <2> QED
    BY <2>1, <2>2, <2>3, <2>4 DEF WindowsWithinRate
<1> QED
  BY <1>1, SubjectInit, SubjectStep, PTL DEF Spec

(* The token limiters let a call through only for a token that was made,   *)
(* for every capacity, rate and number of calls.                           *)
THEOREM TokenSupply == Spec => []TokensWithinSupply
<1>1. SubjectInv => TokensWithinSupply
  <2> SUFFICES ASSUME SubjectInv PROVE TokensWithinSupply
    OBVIOUS
  <2>1. AdmittedByTokens
    BY TokenInvGives, NewPromises DEF SubjectInv
  <2>2. GrantedWithinSupply /\ RateInRange
    BY NewPromises DEF SubjectInv, AdaptiveInv
  <2> QED
    BY <2>1, <2>2 DEF TokensWithinSupply
<1> QED
  BY <1>1, SubjectInit, SubjectStep, PTL DEF Spec
=============================================================================
