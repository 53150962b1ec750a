------------------------ MODULE CircuitBreakerProofs ------------------------
(***************************************************************************)
(* Proofs about CircuitBreaker for any set of callers, any set of options  *)
(* and any width of the counters, and about AdaptiveBreaker, which is      *)
(* shown to implement it.                                                  *)
(***************************************************************************)
EXTENDS AdaptiveBreaker, FiniteSetTheorems, SequenceTheorems, TLAPS

-----------------------------------------------------------------------------
(* Lemmas about the helpers *)

(* n++ and the guarded n-- stay within uint32. *)
LEMMA IncDec ==
    ASSUME NEW n \in UInt
    PROVE  /\ Inc(n) \in UInt /\ Inc(n) <= n + 1
           /\ Dec(n) \in UInt /\ Dec(n) <= n
           /\ n > 0 => Dec(n) = n - 1
BY BoundsAssumption DEF UInt, Inc, Dec

(* History counters saturate at RunCap. *)
LEMMA CountType ==
    ASSUME NEW n \in 0 .. RunCap
    PROVE  Count(n) \in 0 .. RunCap /\ (n < RunCap => Count(n) = n + 1)
BY BoundsAssumption DEF Count

(* Thresholds are positive uint32 values the history can count to. *)
LEMMA OptionBounds ==
    /\ 0 < RunCap
    /\ \A o \in Options : /\ o.Threshold \in UInt /\ o.Threshold <= RunCap
                          /\ o.SuccessThreshold \in UInt /\ o.SuccessThreshold <= RunCap
<1>1. \A o \in Options : o.Threshold \in UInt \ {0} /\ o.SuccessThreshold \in UInt
  BY OptionsAssumption DEF OptionsType
<1>2. PICK o \in Options : TRUE
  BY OptionsAssumption
<1>3. 0 < o.Threshold /\ o.Threshold <= RunCap
  BY <1>1, OptionsAssumption, BoundsAssumption DEF UInt
<1>4. 0 < RunCap
  BY <1>1, <1>3, BoundsAssumption DEF UInt
<1> QED
  BY <1>1, <1>4, OptionsAssumption

(* changeState keeps the struct well formed and touches only the fields of *)
(* the state it enters.                                                    *)
LEMMA ChangeState ==
    ASSUME NEW b \in CircuitBreakerType, NEW new \in States
    PROVE  /\ changeState(b, new) \in CircuitBreakerType
           /\ changeState(b, new).state = new
           /\ changeState(b, new).concurrent = b.concurrent
           /\ changeState(b, new).opts = b.opts
           /\ new = "Closed" => /\ changeState(b, new).failures = 0
                                /\ changeState(b, new).failures_window = <<>>
                                /\ changeState(b, new).consecutiveFailures = 0
           /\ new = "HalfOpen" => /\ changeState(b, new).successes = 0
                                  /\ changeState(b, new).halfOpenAllowed = b.halfOpenOriginal
<1>1. 0 \in UInt /\ 0 \in 0 .. AgeCap /\ <<>> \in Seq(0 .. AgeCap)
  BY BoundsAssumption DEF UInt
<1>2. CASE new = "Closed"
  BY <1>1, <1>2 DEF changeState, CircuitBreakerType, States
<1>3. CASE new = "HalfOpen"
  BY <1>1, <1>3 DEF changeState, CircuitBreakerType, States
<1>4. CASE new = "Open"
  BY <1>1, <1>4 DEF changeState, CircuitBreakerType, States
<1> QED
  BY <1>2, <1>3, <1>4 DEF States

(* What the code grants after a success is a number. *)
LEMMA NewAllowed ==
    ASSUME cb \in CircuitBreakerType
    PROVE  newAllowed \in Nat
<1>0. cb.opts \in OptionsType /\ cb.halfOpenOriginal \in UInt
  BY OptionsAssumption DEF CircuitBreakerType
<1>1. cb.halfOpenOriginal \in Nat /\ cb.opts.Num \in Nat /\ cb.opts.Den \in Nat \ {0}
  BY <1>0, BoundsAssumption DEF OptionsType, UInt
<1>2. cb.halfOpenOriginal * cb.opts.Num \in Nat
  BY <1>1
<1> QED
  BY <1>1, <1>2 DEF newAllowed

(* Pruning failures_window yields a window that is no longer. *)
LEMMA RecentType ==
    ASSUME cb \in CircuitBreakerType, NEW w \in Seq(0 .. AgeCap)
    PROVE  Recent(w) \in Seq(0 .. AgeCap) /\ Len(Recent(w)) <= Len(w)
<1> DEFINE S == {i \in DOMAIN w : w[i] >= cb.opts.WindowSize}
           n == Cardinality(S)
<1>1. DOMAIN w = 1 .. Len(w) /\ Len(w) \in Nat
  BY LenProperties
<1>2. IsFiniteSet(1 .. Len(w)) /\ Cardinality(1 .. Len(w)) = Len(w)
  BY <1>1, FS_Interval
<1>3. n \in Nat /\ n <= Len(w)
  BY <1>1, <1>2, FS_Subset, FS_CardinalityType
<1> HIDE DEF n
<1>4. \A i \in 1 + n .. Len(w) : w[i] \in 0 .. AgeCap
  <2>1. \A i \in 1 .. Len(w) : w[i] \in 0 .. AgeCap
    BY ElementOfSeq
  <2>2. \A i \in 1 + n .. Len(w) : i \in 1 .. Len(w)
    BY <1>1, <1>3
  <2> QED
    BY <2>1, <2>2
<1>5. /\ SubSeq(w, 1 + n, Len(w)) \in Seq(0 .. AgeCap)
      /\ Len(SubSeq(w, 1 + n, Len(w))) <= Len(w)
  BY <1>1, <1>3, <1>4, SubSeqProperties
<1> QED
  BY <1>5 DEF Recent, n

(* What Success() does to the struct in each state. *)
LEMMA AfterSuccessFacts ==
    ASSUME cb \in CircuitBreakerType
    PROVE  /\ AfterSuccess \in CircuitBreakerType
           /\ AfterSuccess.concurrent = Dec(cb.concurrent)
           /\ cb.state # "HalfOpen" => AfterSuccess.state = cb.state
           /\ AfterSuccess.state = "Closed" =>
                 /\ AfterSuccess.failures = 0 /\ AfterSuccess.failures_window = <<>>
                 /\ AfterSuccess.consecutiveFailures = 0
           /\ cb.state = "HalfOpen" =>
                 /\ AfterSuccess.state \in {"Closed", "HalfOpen"}
                 /\ AfterSuccess.state = "Closed" <=>
                       Inc(cb.successes) >= cb.opts.SuccessThreshold
                 /\ AfterSuccess.state = "HalfOpen" =>
                       /\ AfterSuccess.successes = Inc(cb.successes)
                       /\ AfterSuccess.halfOpenAllowed <= cb.halfOpenAllowed + newAllowed
<1> DEFINE b == [cb EXCEPT !.concurrent = Dec(@), !.consecutiveFailures = 0]
           n == Inc(cb.successes)
           a == (cb.halfOpenAllowed + newAllowed) % UintMod
           bn == [b EXCEPT !.successes = n]
<1>1. /\ cb.concurrent \in UInt /\ cb.successes \in UInt /\ cb.halfOpenAllowed \in UInt
      /\ 0 \in UInt /\ <<>> \in Seq(0 .. AgeCap)
  BY BoundsAssumption DEF CircuitBreakerType, UInt
<1>2. n \in UInt /\ Dec(cb.concurrent) \in UInt
  BY <1>1, IncDec
<1>3. a \in UInt /\ a <= cb.halfOpenAllowed + newAllowed
  <2>1. cb.halfOpenAllowed + newAllowed \in Nat
    BY <1>1, NewAllowed, BoundsAssumption DEF UInt
  <2>2. \A x \in Nat : x % UintMod \in UInt /\ x % UintMod <= x
    BY BoundsAssumption DEF UInt
  <2> QED
    BY <2>1, <2>2
<1>4. /\ b \in CircuitBreakerType /\ b.concurrent = Dec(cb.concurrent)
      /\ b.state = cb.state /\ b.consecutiveFailures = 0
  BY <1>1, <1>2 DEF CircuitBreakerType
<1>5. CASE cb.state # "HalfOpen"
  <2>1. AfterSuccess = [b EXCEPT !.failures = 0, !.failures_window = <<>>]
    BY <1>5 DEF AfterSuccess
  <2> QED
    BY <1>1, <1>4, <1>5, <2>1 DEF CircuitBreakerType
<1>6. CASE cb.state = "HalfOpen" /\ n >= cb.opts.SuccessThreshold
  <2>1. AfterSuccess = changeState(bn, "Closed")
    BY <1>6 DEF AfterSuccess
  <2>2. bn \in CircuitBreakerType /\ bn.concurrent = Dec(cb.concurrent)
    BY <1>2, <1>4 DEF CircuitBreakerType
  <2> HIDE DEF bn
  <2> QED
    BY <1>6, <2>1, <2>2, ChangeState DEF States
<1>7. CASE cb.state = "HalfOpen" /\ ~(n >= cb.opts.SuccessThreshold)
  <2>1. AfterSuccess = [b EXCEPT !.successes = n,
                                 !.halfOpenAllowed = (@ + newAllowed) % UintMod]
    BY <1>7 DEF AfterSuccess
  <2>2. b.halfOpenAllowed = cb.halfOpenAllowed
    BY DEF CircuitBreakerType
  <2>3. AfterSuccess = [b EXCEPT !.successes = n, !.halfOpenAllowed = a]
    BY <1>4, <2>1, <2>2 DEF CircuitBreakerType
  <2> HIDE DEF a, b, n
  <2>4. /\ AfterSuccess \in CircuitBreakerType
        /\ AfterSuccess.concurrent = b.concurrent
        /\ AfterSuccess.state = b.state
        /\ AfterSuccess.successes = n
        /\ AfterSuccess.halfOpenAllowed = a
    BY <1>2, <1>3, <1>4, <2>3 DEF CircuitBreakerType
  <2> QED
    BY <1>3, <1>4, <1>7, <2>4 DEF n
<1> QED
  BY <1>5, <1>6, <1>7

(* What Failure() does to the struct in each state. *)
LEMMA AfterFailureFacts ==
    ASSUME cb \in CircuitBreakerType
    PROVE  /\ AfterFailure \in CircuitBreakerType
           /\ AfterFailure.concurrent = Dec(cb.concurrent)
           /\ cb.state # "Closed" => AfterFailure.state = "Open"
           /\ cb.state = "Closed" =>
                 /\ AfterFailure.state \in {"Closed", "Open"}
                 /\ Inc(cb.consecutiveFailures) >= cb.opts.Threshold =>
                       AfterFailure.state = "Open"
                 /\ AfterFailure.state = "Closed" =>
                       /\ AfterFailure.consecutiveFailures = Inc(cb.consecutiveFailures)
                       /\ \/ /\ AfterFailure.failures <= Inc(cb.failures)
                             /\ AfterFailure.failures_window = cb.failures_window
                          \/ /\ AfterFailure.failures <= Len(AfterFailure.failures_window)
                             /\ Len(AfterFailure.failures_window) <=
                                   Len(cb.failures_window) + 1
                 /\ AfterFailure.state = "Open" =>
                       \/ Inc(cb.consecutiveFailures) >= cb.opts.Threshold
                       \/ Inc(cb.failures) >= cb.opts.Threshold
                       \/ Len(cb.failures_window) + 1 >= cb.opts.Threshold
<1> DEFINE w == IF cb.opts.WindowSize > 0 THEN Recent(Append(cb.failures_window, 0))
                                          ELSE cb.failures_window
           f == IF cb.opts.WindowSize > 0 THEN Len(w) % UintMod ELSE Inc(cb.failures)
           n == Inc(cb.consecutiveFailures)
           b == [cb EXCEPT !.concurrent = Dec(@), !.consecutiveFailures = n,
                           !.failures_window = w, !.failures = f]
<1>1. /\ cb.concurrent \in UInt /\ cb.consecutiveFailures \in UInt /\ cb.failures \in UInt
      /\ cb.failures_window \in Seq(0 .. AgeCap) /\ cb.opts \in OptionsType
      /\ cb.opts.Threshold \in UInt /\ cb.state \in States
  BY OptionsAssumption DEF CircuitBreakerType, OptionsType
<1>2. n \in UInt /\ Dec(cb.concurrent) \in UInt /\ Inc(cb.failures) \in UInt
  BY <1>1, IncDec
<1>3. Len(cb.failures_window) \in Nat
  BY <1>1, LenProperties
<1>4. /\ w \in Seq(0 .. AgeCap)
      /\ w = cb.failures_window \/ Len(w) <= Len(cb.failures_window) + 1
  <2>1. 0 \in 0 .. AgeCap
    BY BoundsAssumption
  <2>2. /\ Append(cb.failures_window, 0) \in Seq(0 .. AgeCap)
        /\ Len(Append(cb.failures_window, 0)) = Len(cb.failures_window) + 1
    BY <1>1, <2>1, AppendProperties
  <2>3. /\ Recent(Append(cb.failures_window, 0)) \in Seq(0 .. AgeCap)
        /\ Len(Recent(Append(cb.failures_window, 0))) <= Len(cb.failures_window) + 1
    BY <2>2, RecentType
  <2> QED
    BY <1>1, <2>3
<1>5. Len(w) \in Nat
  BY <1>4, LenProperties
<1>6. /\ f \in UInt
      /\ \/ w = cb.failures_window /\ f = Inc(cb.failures)
         \/ f <= Len(w) /\ Len(w) <= Len(cb.failures_window) + 1
  <2>1. \A x \in Nat : x % UintMod \in UInt /\ x % UintMod <= x
    BY BoundsAssumption DEF UInt
  <2>2. CASE cb.opts.WindowSize > 0
    <3>1. w = Recent(Append(cb.failures_window, 0)) /\ f = Len(w) % UintMod
      BY <2>2
    <3>2. Len(w) <= Len(cb.failures_window) + 1
      BY <1>3, <1>4, <1>5
    <3> HIDE DEF w, f
    <3> QED
      BY <1>5, <2>1, <3>1, <3>2
  <2>3. CASE ~(cb.opts.WindowSize > 0)
    BY <1>2, <2>3
  <2> QED
    BY <2>2, <2>3
<1> HIDE DEF w, f, n
<1>7. /\ b \in CircuitBreakerType /\ b.concurrent = Dec(cb.concurrent)
      /\ b.state = cb.state /\ b.consecutiveFailures = n
      /\ b.failures = f /\ b.failures_window = w
  BY <1>2, <1>4, <1>6 DEF CircuitBreakerType
<1>8. AfterFailure = IF \/ cb.state = "HalfOpen"
                        \/ cb.state = "Closed" /\ (\/ f >= cb.opts.Threshold
                                                   \/ n >= cb.opts.Threshold)
                     THEN changeState(b, "Open") ELSE b
  BY DEF AfterFailure, w, f, n
<1> HIDE DEF b
<1>9. CASE \/ cb.state = "HalfOpen"
           \/ cb.state = "Closed" /\ (f >= cb.opts.Threshold \/ n >= cb.opts.Threshold)
  <2>1. AfterFailure = changeState(b, "Open")
    BY <1>8, <1>9
  <2>2. /\ AfterFailure \in CircuitBreakerType /\ AfterFailure.state = "Open"
        /\ AfterFailure.concurrent = Dec(cb.concurrent)
    BY <1>7, <2>1, ChangeState DEF States
  <2>3. cb.state = "Closed" =>
          \/ n >= cb.opts.Threshold
          \/ Inc(cb.failures) >= cb.opts.Threshold
          \/ Len(cb.failures_window) + 1 >= cb.opts.Threshold
    BY <1>1, <1>2, <1>3, <1>5, <1>6, <1>9, BoundsAssumption DEF UInt
  <2> QED
    BY <2>2, <2>3 DEF n
<1>10. CASE ~(\/ cb.state = "HalfOpen"
              \/ cb.state = "Closed" /\ (f >= cb.opts.Threshold \/ n >= cb.opts.Threshold))
  <2>1. AfterFailure = b
    BY <1>8, <1>10
  <2>2. cb.state \in {"Closed", "Open"}
    BY <1>1, <1>10 DEF States
  <2>3. f <= f
    BY <1>6, BoundsAssumption DEF UInt
  <2> QED
    BY <1>6, <1>7, <1>10, <2>1, <2>2, <2>3 DEF n
<1> QED
  BY <1>9, <1>10

-----------------------------------------------------------------------------
(* The callers *)

RunningIn(calls) == {c \in Callers : calls[c] \in {"running", "probe"}}
ProbingIn(calls) == {c \in Callers : calls[c] = "probe"}

(* How changing one caller changes the sets of running and probing calls. *)
LEMMA CallUpdate ==
    ASSUME call \in CallType, NEW c \in Callers,
           NEW v \in {"idle", "running", "probe", "ErrOpenState", "ErrTooManyConcurrent"},
           NEW calls, calls = [call EXCEPT ![c] = v]
    PROVE  /\ calls \in CallType
           /\ v \in {"running", "probe"} => RunningIn(calls) = Running \cup {c}
           /\ v \notin {"running", "probe"} => RunningIn(calls) = Running \ {c}
           /\ v = "probe" => ProbingIn(calls) = Probing \cup {c}
           /\ v # "probe" => ProbingIn(calls) = Probing \ {c}
BY DEF CallType, RunningIn, ProbingIn, Running, Probing

(* Sets of callers are finite, and adding or removing one counts as one. *)
LEMMA CallerCount ==
    ASSUME NEW S \in SUBSET Callers, NEW c \in Callers
    PROVE  /\ Cardinality(S) \in Nat
           /\ Cardinality(S \cup {c}) = IF c \in S THEN Cardinality(S) ELSE Cardinality(S) + 1
           /\ Cardinality(S \ {c}) = IF c \in S THEN Cardinality(S) - 1 ELSE Cardinality(S)
<1>1. IsFiniteSet(S)
  BY CallersAssumption, FS_Subset
<1> QED
  BY <1>1, FS_CardinalityType, FS_AddElement, FS_RemoveElement

(* What a step that ends in Observe leaves behind. *)
LEMMA ObserveFacts ==
    ASSUME NEW b \in CircuitBreakerType, NEW calls \in CallType, NEW h \in HistType,
           Observe(b, calls, h)
    PROVE  /\ cb' = b /\ call' \in CallType /\ hist' \in HistType
           /\ Running' = RunningIn(calls)
           /\ b.state = cb.state => hist' = h /\ Probing' = ProbingIn(calls)
           /\ b.state # cb.state => hist' = NoHistory /\ Probing' = {}
<1>1. NoHistory \in HistType
  BY BoundsAssumption DEF NoHistory, HistType
<1>2. CASE b.state = cb.state
  BY <1>2 DEF Observe, RunningIn, ProbingIn, Running, Probing
<1>3. CASE b.state # cb.state
  BY <1>1, <1>3 DEF Observe, RunningIn, CallType, Running, Probing
<1> QED
  BY <1>2, <1>3

-----------------------------------------------------------------------------
(* The inductive invariant *)

Inv ==
    /\ TypeOK
    /\ CountersTrackHistory
    /\ ConcurrencyNeverOvercounts
    /\ ProbeBudget

(* A new breaker is closed and has counted nothing.                        *)
LEMMA InitInv == Init => Inv
<1> SUFFICES ASSUME Init PROVE Inv
  OBVIOUS
<1>1. PICK o \in Options : cb = New(o)
  BY DEF Init
<1>2. o \in OptionsType /\ o.HalfOpenMaxRequests \in UInt /\ 1 <= RunCap
  BY OptionsAssumption, BoundsAssumption DEF OptionsType, UInt
<1>3. 0 \in UInt /\ 0 \in 0 .. AgeCap /\ <<>> \in Seq(0 .. AgeCap) /\ Len(<<>>) = 0
  BY BoundsAssumption, EmptySeq DEF UInt
<1>4. cb \in CircuitBreakerType /\ cb.state = "Closed"
  BY <1>1, <1>2, <1>3 DEF New, CircuitBreakerType, States
<1>5. TypeOK
  BY <1>4, BoundsAssumption DEF Init, TypeOK, CallType, HistType, NoHistory
<1>6. CountersTrackHistory
  BY <1>1, <1>2, <1>3, BoundsAssumption DEF Init, CountersTrackHistory, New, NoHistory
<1>7. ConcurrencyNeverOvercounts
  <2>1. Running = {}
    BY DEF Init, Running
  <2> QED
    BY <1>1, <2>1, FS_EmptySet DEF ConcurrencyNeverOvercounts, New
<1>8. ProbeBudget
  BY <1>4 DEF Init, ProbeBudget, Probing
<1> QED
  BY <1>5, <1>6, <1>7, <1>8 DEF Inv

(* Allow() keeps the invariant. *)
LEMMA AllowStep ==
    ASSUME Inv, NEW c \in Callers, Allow(c)
    PROVE  Inv'
<1> USE DEF Inv
<1>1. /\ cb \in CircuitBreakerType /\ call \in CallType /\ hist \in HistType
      /\ mayFail \subseteq Callers /\ flaky \in BOOLEAN /\ admin \in 0 .. MaxAdmin
      /\ Running \subseteq Callers /\ Probing \subseteq Callers /\ Probing \subseteq Running
  BY DEF TypeOK, Running, Probing
<1>2. /\ cb.concurrent \in UInt /\ cb.halfOpenAllowed \in UInt /\ cb.halfOpenOriginal \in UInt
      /\ hist.grants \in Nat /\ hist.probeOks \in Nat
  BY <1>1, BoundsAssumption DEF CircuitBreakerType, HistType
<1>3. Inc(cb.concurrent) \in UInt /\ Inc(cb.concurrent) <= cb.concurrent + 1
  BY <1>2, IncDec
<1>4. /\ Cardinality(Running) \in Nat /\ Cardinality(Probing) \in Nat
      /\ c \notin Running => /\ Cardinality(Running \cup {c}) = Cardinality(Running) + 1
                             /\ Cardinality(Probing \cup {c}) = Cardinality(Probing) + 1
                             /\ Running \ {c} = Running /\ Probing \ {c} = Probing
  <2>1. /\ Cardinality(Running) \in Nat /\ Cardinality(Probing) \in Nat
    BY <1>1, CallerCount
  <2>2. ASSUME c \notin Running
        PROVE  /\ Cardinality(Running \cup {c}) = Cardinality(Running) + 1
               /\ Cardinality(Probing \cup {c}) = Cardinality(Probing) + 1
               /\ Running \ {c} = Running /\ Probing \ {c} = Probing
    BY <1>1, <2>2, CallerCount
  <2> QED
    BY <2>1, <2>2
<1>5. ASSUME AllowClosed(c) PROVE Inv'
  <2> DEFINE b == [cb EXCEPT !.concurrent = Inc(@)]
             calls == [call EXCEPT ![c] = "running"]
  <2>1. /\ b \in CircuitBreakerType /\ b.state = "Closed" /\ cb.state = "Closed"
        /\ b.concurrent = Inc(cb.concurrent) /\ b.failures = cb.failures
        /\ b.consecutiveFailures = cb.consecutiveFailures
        /\ b.failures_window = cb.failures_window
    BY <1>1, <1>3, <1>5 DEF AllowClosed, CircuitBreakerType
  <2>2. /\ calls \in CallType /\ RunningIn(calls) = Running \cup {c}
        /\ ProbingIn(calls) = Probing \ {c}
    BY <1>1, CallUpdate
  <2>3. Observe(b, calls, hist) /\ Admit(c)
    BY <1>5 DEF AllowClosed
  <2> HIDE DEF b, calls
  <2>4. /\ cb' = b /\ call' \in CallType /\ hist' = hist
        /\ Running' = Running \cup {c} /\ Probing' = Probing \ {c}
    BY <1>1, <2>1, <2>2, <2>3, ObserveFacts
  <2>5. TypeOK'
    BY <1>1, <2>1, <2>3, <2>4 DEF TypeOK, Admit
  <2>6. CountersTrackHistory'
    BY <2>1, <2>4 DEF CountersTrackHistory
  <2>7. ConcurrencyNeverOvercounts'
    BY <1>2, <1>3, <1>4, <2>1, <2>3, <2>4, BoundsAssumption
       DEF ConcurrencyNeverOvercounts, Admit, UInt
  <2>8. ProbeBudget'
    <3>1. Probing' = {}
      BY <2>1, <2>4 DEF ProbeBudget
    <3> QED
      BY <2>1, <2>4, <3>1 DEF ProbeBudget
  <2> QED
    BY <2>5, <2>6, <2>7, <2>8
<1>6. ASSUME AllowAfterTimeout(c) PROVE Inv'
  <2> DEFINE b == changeState(cb, "HalfOpen")
  <2>1. /\ b \in CircuitBreakerType /\ b.state = "HalfOpen" /\ b.successes = 0
        /\ b.concurrent = cb.concurrent /\ b.halfOpenAllowed = cb.halfOpenOriginal
    BY <1>1, ChangeState DEF States
  <2>2. /\ cb' = [b EXCEPT !.concurrent = Inc(@)] /\ call' = [call EXCEPT ![c] = "probe"]
        /\ hist' = [NoHistory EXCEPT !.grants = cb.halfOpenOriginal + 1]
        /\ Admit(c) /\ cb.state = "Open"
    BY <1>6 DEF AllowAfterTimeout
  <2> HIDE DEF b
  <2>3. /\ cb' \in CircuitBreakerType /\ cb'.state = "HalfOpen" /\ cb'.successes = 0
        /\ cb'.concurrent = Inc(cb.concurrent) /\ cb'.halfOpenAllowed = cb.halfOpenOriginal
    BY <1>3, <2>1, <2>2 DEF CircuitBreakerType
  <2>4. /\ call' \in CallType /\ Running' = Running \cup {c} /\ Probing' = Probing \cup {c}
    <3> DEFINE calls == [call EXCEPT ![c] = "probe"]
    <3>1. /\ calls \in CallType /\ RunningIn(calls) = Running \cup {c}
          /\ ProbingIn(calls) = Probing \cup {c}
      BY <1>1, CallUpdate
    <3>2. call' = calls
      BY <2>2
    <3> HIDE DEF calls
    <3>3. Running' = RunningIn(calls) /\ Probing' = ProbingIn(calls)
      BY <3>2 DEF RunningIn, ProbingIn, Running, Probing
    <3> QED
      BY <3>1, <3>2, <3>3
  <2>5. /\ hist' \in HistType /\ hist'.oks = 0 /\ hist'.probeOks = 0
        /\ hist'.grants = cb.halfOpenOriginal + 1
    BY <1>2, <2>2, BoundsAssumption DEF HistType, NoHistory, UInt
  <2>6. TypeOK'
    BY <1>1, <2>2, <2>3, <2>4, <2>5 DEF TypeOK, Admit
  <2>7. CountersTrackHistory'
    <3>1. 0 < RunCap
      BY OptionsAssumption, BoundsAssumption DEF OptionsType, UInt
    <3> QED
      BY <2>3, <2>5, <3>1 DEF CountersTrackHistory
  <2>8. ConcurrencyNeverOvercounts'
    BY <1>2, <1>3, <1>4, <2>2, <2>3, <2>4, BoundsAssumption
       DEF ConcurrencyNeverOvercounts, Admit, UInt
  <2>9. ProbeBudget'
    <3>1. Probing = {} /\ Cardinality(Probing) = 0
      BY <2>2, FS_EmptySet DEF ProbeBudget
    <3>2. Cardinality(Probing') = 1
      BY <1>4, <2>2, <2>4, <3>1 DEF Admit
    <3> QED
      BY <1>2, <2>3, <2>5, <3>2, BoundsAssumption DEF ProbeBudget, UInt
  <2> QED
    BY <2>6, <2>7, <2>8, <2>9
<1>7. ASSUME AllowHalfOpen(c) PROVE Inv'
  <2> DEFINE b == [cb EXCEPT !.halfOpenAllowed = @ - 1, !.concurrent = Inc(@)]
             calls == [call EXCEPT ![c] = "probe"]
  <2>1. cb.halfOpenAllowed > 0 /\ cb.state = "HalfOpen"
    BY <1>7 DEF AllowHalfOpen
  <2>2. cb.halfOpenAllowed - 1 \in UInt
    BY <1>2, <2>1, BoundsAssumption DEF UInt
  <2>3. /\ b \in CircuitBreakerType /\ b.state = "HalfOpen" /\ b.successes = cb.successes
        /\ b.concurrent = Inc(cb.concurrent)
        /\ b.halfOpenAllowed = cb.halfOpenAllowed - 1
    BY <1>1, <1>3, <2>1, <2>2 DEF CircuitBreakerType
  <2>4. /\ calls \in CallType /\ RunningIn(calls) = Running \cup {c}
        /\ ProbingIn(calls) = Probing \cup {c}
    BY <1>1, CallUpdate
  <2>5. Observe(b, calls, hist) /\ Admit(c)
    BY <1>7 DEF AllowHalfOpen
  <2> HIDE DEF b, calls
  <2>6. /\ cb' = b /\ call' \in CallType /\ hist' = hist
        /\ Running' = Running \cup {c} /\ Probing' = Probing \cup {c}
    BY <1>1, <2>1, <2>3, <2>4, <2>5, ObserveFacts
  <2>7. TypeOK'
    BY <1>1, <2>3, <2>5, <2>6 DEF TypeOK, Admit
  <2>8. CountersTrackHistory'
    BY <2>1, <2>3, <2>6 DEF CountersTrackHistory
  <2>9. ConcurrencyNeverOvercounts'
    BY <1>2, <1>3, <1>4, <2>3, <2>5, <2>6, BoundsAssumption
       DEF ConcurrencyNeverOvercounts, Admit, UInt
  <2>10. ProbeBudget'
    BY <1>2, <1>4, <2>1, <2>3, <2>5, <2>6, BoundsAssumption DEF ProbeBudget, Admit, UInt
  <2> QED
    BY <2>7, <2>8, <2>9, <2>10
<1>8. ASSUME AllowRejected(c) PROVE Inv'
  <2>1. PICK v \in {"ErrOpenState", "ErrTooManyConcurrent"} : call' = [call EXCEPT ![c] = v]
    BY <1>8 DEF AllowRejected
  <2>2. c \notin Running /\ UNCHANGED <<cb, flaky, mayFail, admin, hist>>
    BY <1>8 DEF AllowRejected
  <2>3. call' \in CallType /\ Running' = Running /\ Probing' = Probing
    <3> DEFINE calls == [call EXCEPT ![c] = v]
    <3>1. /\ calls \in CallType /\ RunningIn(calls) = Running \ {c}
          /\ ProbingIn(calls) = Probing \ {c}
      BY <1>1, CallUpdate
    <3>2. call' = calls
      BY <2>1
    <3> HIDE DEF calls
    <3>3. Running' = RunningIn(calls) /\ Probing' = ProbingIn(calls)
      BY <3>2 DEF RunningIn, ProbingIn, Running, Probing
    <3> QED
      BY <1>4, <2>2, <3>1, <3>2, <3>3
  <2>4. TypeOK'
    BY <1>1, <2>2, <2>3 DEF TypeOK
  <2> QED
    BY <2>2, <2>3, <2>4
       DEF CountersTrackHistory, ConcurrencyNeverOvercounts, ProbeBudget
<1> QED
  BY <1>5, <1>6, <1>7, <1>8 DEF Allow

(* Success() keeps the invariant. *)
LEMMA SuccessStep ==
    ASSUME Inv, NEW c \in Callers, Success(c)
    PROVE  Inv'
<1> USE DEF Inv
<1> DEFINE b == AfterSuccess
           calls == [call EXCEPT ![c] = "idle"]
           h == [fails |-> 0, oks |-> Count(hist.oks),
                 probeOks |-> IF c \in Probing THEN Count(hist.probeOks) ELSE hist.probeOks,
                 grants |-> IF cb.state = "HalfOpen" THEN hist.grants + newAllowed
                                                     ELSE hist.grants]
<1>1. /\ cb \in CircuitBreakerType /\ call \in CallType /\ hist \in HistType
      /\ mayFail \subseteq Callers /\ flaky \in BOOLEAN /\ admin \in 0 .. MaxAdmin
      /\ Running \subseteq Callers /\ Probing \subseteq Callers
  BY DEF TypeOK, Running, Probing
<1>2. /\ cb.concurrent \in UInt /\ cb.successes \in UInt /\ cb.halfOpenAllowed \in UInt
      /\ hist.grants \in Nat /\ hist.probeOks \in 0 .. RunCap /\ hist.oks \in 0 .. RunCap
      /\ cb.opts \in Options
  BY <1>1 DEF CircuitBreakerType, HistType
<1>3. /\ Count(hist.oks) \in 0 .. RunCap /\ Count(hist.probeOks) \in 0 .. RunCap
      /\ Count(hist.probeOks) <= hist.probeOks + 1
      /\ hist.oks < RunCap => Count(hist.oks) = hist.oks + 1
  BY <1>2, BoundsAssumption DEF Count
<1>4. newAllowed \in Nat
  BY <1>1, NewAllowed
<1>5. /\ h \in HistType /\ h.fails = 0 /\ h.oks = Count(hist.oks)
      /\ h.probeOks = IF c \in Probing THEN Count(hist.probeOks) ELSE hist.probeOks
      /\ cb.state = "HalfOpen" => h.grants = hist.grants + newAllowed
  BY <1>2, <1>3, <1>4, BoundsAssumption DEF HistType
<1>6. /\ calls \in CallType /\ RunningIn(calls) = Running \ {c}
      /\ ProbingIn(calls) = Probing \ {c}
  BY <1>1, CallUpdate
<1>7. /\ Observe(b, calls, h) /\ c \in Running /\ mayFail' = mayFail \ {c}
      /\ UNCHANGED <<flaky, admin>>
  BY DEF Success
<1>8. /\ b \in CircuitBreakerType
      /\ b.concurrent = Dec(cb.concurrent)
      /\ cb.state # "HalfOpen" => b.state = cb.state
      /\ b.state = "Closed" => /\ b.failures = 0 /\ b.failures_window = <<>>
                              /\ b.consecutiveFailures = 0
      /\ cb.state = "HalfOpen" =>
           /\ b.state \in {"Closed", "HalfOpen"}
           /\ b.state = "Closed" <=> Inc(cb.successes) >= cb.opts.SuccessThreshold
           /\ b.state = "HalfOpen" => /\ b.successes = Inc(cb.successes)
                                     /\ b.halfOpenAllowed <= cb.halfOpenAllowed + newAllowed
  BY <1>1, AfterSuccessFacts
<1> HIDE DEF b, calls, h
<1>9. /\ cb' = b /\ call' \in CallType /\ hist' \in HistType
      /\ Running' = Running \ {c}
      /\ b.state = cb.state => hist' = h /\ Probing' = Probing \ {c}
      /\ b.state # cb.state => hist' = NoHistory /\ Probing' = {}
  BY <1>5, <1>6, <1>7, <1>8, ObserveFacts
<1>10. TypeOK'
  BY <1>1, <1>7, <1>8, <1>9 DEF TypeOK
<1>11. CountersTrackHistory'
  <2>1. 0 < RunCap /\ cb.opts.SuccessThreshold <= RunCap /\ cb.opts.SuccessThreshold \in UInt
        /\ Len(<<>>) = 0
    BY <1>2, OptionBounds
  <2>2. CASE b.state = "Closed"
    <3>1. hist'.fails = 0
      BY <1>5, <1>9 DEF NoHistory
    <3> QED
      BY <1>8, <1>9, <2>1, <2>2, <3>1, BoundsAssumption DEF CountersTrackHistory
  <2>3. CASE b.state = "HalfOpen"
    <3>1. cb.state = "HalfOpen" /\ hist' = h /\ cb.successes = hist.oks /\ hist.oks < RunCap
      BY <1>8, <1>9, <2>3 DEF CountersTrackHistory
    <3>2. Inc(cb.successes) = hist.oks + 1 /\ h.oks = hist.oks + 1
      BY <1>2, <1>3, <1>5, <3>1, BoundsAssumption DEF Inc
    <3>3. ~(Inc(cb.successes) >= cb.opts.SuccessThreshold)
      BY <1>8, <2>3, <3>1
    <3>4. h.oks < RunCap
      BY <1>2, <2>1, <3>2, <3>3, BoundsAssumption DEF UInt
    <3> QED
      BY <1>8, <1>9, <2>3, <3>1, <3>2, <3>4 DEF CountersTrackHistory
  <2> QED
    BY <1>9, <2>2, <2>3 DEF CountersTrackHistory
<1>12. ConcurrencyNeverOvercounts'
  <2>1. Cardinality(Running \ {c}) = Cardinality(Running) - 1 /\ Cardinality(Running) \in Nat
    BY <1>1, <1>7, CallerCount
  <2>2. Cardinality(Running \ {c}) \in Nat
    BY <1>1, CallerCount
  <2> QED
    BY <1>2, <1>8, <1>9, <2>1, <2>2, BoundsAssumption
       DEF ConcurrencyNeverOvercounts, Dec, UInt
<1>13. ProbeBudget'
  <2>1. CASE b.state = "HalfOpen"
    <3>1. cb.state = "HalfOpen" /\ hist' = h /\ Probing' = Probing \ {c}
      BY <1>8, <1>9, <2>1
    <3>2. /\ Cardinality(Probing) \in Nat
          /\ Cardinality(Probing \ {c}) =
               IF c \in Probing THEN Cardinality(Probing) - 1 ELSE Cardinality(Probing)
      BY <1>1, CallerCount
    <3>3. Cardinality(Probing') + hist'.probeOks <= Cardinality(Probing) + hist.probeOks
      BY <1>2, <1>3, <1>5, <3>1, <3>2
    <3>4. /\ Cardinality(Probing') \in Nat /\ hist'.probeOks \in Nat
          /\ b.halfOpenAllowed \in UInt
      <4>1. Cardinality(Probing \ {c}) \in Nat
        BY <1>1, CallerCount
      <4> QED
        BY <1>8, <1>9, <3>1, <4>1, BoundsAssumption DEF HistType, CircuitBreakerType
    <3>5. /\ Cardinality(Probing) + hist.probeOks + cb.halfOpenAllowed <= hist.grants
          /\ b.halfOpenAllowed <= cb.halfOpenAllowed + newAllowed
          /\ hist'.grants = hist.grants + newAllowed
      BY <1>5, <1>8, <2>1, <3>1 DEF ProbeBudget
    <3>6. Cardinality(Probing') + hist'.probeOks + b.halfOpenAllowed <= hist'.grants
      BY <1>2, <1>4, <3>2, <3>3, <3>4, <3>5, BoundsAssumption DEF UInt
    <3> QED
      BY <1>9, <2>1, <3>6 DEF ProbeBudget
  <2>2. CASE b.state # "HalfOpen"
    <3>1. Probing' = {}
      BY <1>8, <1>9, <2>2 DEF ProbeBudget
    <3> QED
      BY <1>9, <2>2, <3>1 DEF ProbeBudget
  <2> QED
    BY <2>1, <2>2
<1> QED
  BY <1>10, <1>11, <1>12, <1>13

(* Failure(), with the caller's result or injected, keeps the invariant. *)
LEMMA FailureStep ==
    ASSUME Inv, NEW calls \in CallType, RecordFailure(calls),
           RunningIn(calls) = Running \/ \E c \in Running : RunningIn(calls) = Running \ {c},
           cb.state # "HalfOpen" => ProbingIn(calls) = {},
           UNCHANGED flaky, mayFail' \subseteq mayFail, admin' \in 0 .. MaxAdmin
    PROVE  Inv'
<1> USE DEF Inv
<1> DEFINE b == AfterFailure
           h == [hist EXCEPT !.fails = Count(@), !.oks = 0, !.probeOks = 0]
<1>1. /\ cb \in CircuitBreakerType /\ call \in CallType /\ hist \in HistType
      /\ mayFail \subseteq Callers /\ flaky \in BOOLEAN
      /\ Running \subseteq Callers
  BY DEF TypeOK, Running
<1>2. /\ cb.concurrent \in UInt /\ hist.fails \in 0 .. RunCap /\ cb.opts \in Options
      /\ cb.failures \in UInt /\ cb.consecutiveFailures \in UInt
      /\ cb.failures_window \in Seq(0 .. AgeCap)
  BY <1>1 DEF CircuitBreakerType, HistType
<1>3. /\ Count(hist.fails) \in 0 .. RunCap
      /\ hist.fails < RunCap => Count(hist.fails) = hist.fails + 1
  BY <1>2, CountType
<1>4. h \in HistType /\ h.fails = Count(hist.fails)
  <2>1. 0 \in 0 .. RunCap
    BY BoundsAssumption
  <2> QED
    BY <1>1, <1>3, <2>1 DEF HistType
<1>5. Observe(b, calls, h)
  BY DEF RecordFailure
<1>6. b \in CircuitBreakerType /\ b.concurrent = Dec(cb.concurrent)
  BY <1>1, AfterFailureFacts
<1>7. cb.state # "Closed" => b.state = "Open"
  BY <1>1, AfterFailureFacts
<1>8. b.state = "Closed" /\ cb.state = "Closed" =>
         /\ ~(Inc(cb.consecutiveFailures) >= cb.opts.Threshold)
         /\ b.consecutiveFailures = Inc(cb.consecutiveFailures)
         /\ \/ /\ b.failures <= Inc(cb.failures)
               /\ b.failures_window = cb.failures_window
            \/ /\ b.failures <= Len(b.failures_window)
               /\ Len(b.failures_window) <= Len(cb.failures_window) + 1
  BY <1>1, AfterFailureFacts
<1>9. cb.state = "Closed" => b.state \in {"Closed", "Open"}
  BY <1>1, AfterFailureFacts
<1> HIDE DEF b, h
<1>10. /\ cb' = b /\ call' \in CallType /\ hist' \in HistType
       /\ Running' = RunningIn(calls)
       /\ b.state = cb.state => hist' = h /\ Probing' = ProbingIn(calls)
       /\ b.state # cb.state => hist' = NoHistory /\ Probing' = {}
  BY <1>4, <1>5, <1>6, ObserveFacts
<1>11. TypeOK'
  BY <1>1, <1>6, <1>10 DEF TypeOK
<1>12. CountersTrackHistory'
  <2>1. SUFFICES ASSUME b.state = "Closed" PROVE CountersTrackHistory'
    BY <1>7, <1>9, <1>10 DEF CountersTrackHistory
  <2>2. /\ cb.state = "Closed" /\ hist' = h
        /\ cb.consecutiveFailures = hist.fails /\ hist.fails < RunCap
        /\ cb.failures <= hist.fails /\ Len(cb.failures_window) <= hist.fails
    BY <1>7, <1>10, <2>1 DEF CountersTrackHistory
  <2>3. h.fails = hist.fails + 1 /\ Inc(cb.consecutiveFailures) = hist.fails + 1
    BY <1>2, <1>3, <1>4, <2>2, BoundsAssumption DEF Inc
  <2>4. h.fails < RunCap
    <3>1. cb.opts.Threshold <= RunCap /\ cb.opts.Threshold \in UInt
      BY <1>2, OptionBounds
    <3> QED
      BY <1>2, <1>8, <2>1, <2>2, <2>3, <3>1, BoundsAssumption DEF UInt
  <2>5. Inc(cb.failures) <= hist.fails + 1 /\ Inc(cb.failures) \in UInt
    <3>1. Inc(cb.failures) \in UInt /\ Inc(cb.failures) <= cb.failures + 1
      BY <1>2, IncDec
    <3> QED
      BY <1>2, <2>2, <3>1, BoundsAssumption DEF UInt
  <2>6. /\ Len(cb.failures_window) \in Nat /\ Len(b.failures_window) \in Nat
        /\ b.failures \in UInt
    BY <1>2, <1>6, LenProperties DEF CircuitBreakerType
  <2>7. b.failures <= hist.fails + 1 /\ Len(b.failures_window) <= hist.fails + 1
    <3>1. /\ b.failures \in Int /\ Inc(cb.failures) \in Int /\ hist.fails \in Int
          /\ Len(b.failures_window) \in Int /\ Len(cb.failures_window) \in Int
      BY <1>2, <2>2, <2>5, <2>6, BoundsAssumption DEF UInt, HistType
    <3>2. CASE b.failures <= Inc(cb.failures) /\ b.failures_window = cb.failures_window
      BY <2>2, <2>5, <3>1, <3>2
    <3>3. CASE /\ b.failures <= Len(b.failures_window)
               /\ Len(b.failures_window) <= Len(cb.failures_window) + 1
      BY <2>2, <3>1, <3>3
    <3> QED
      BY <1>8, <2>1, <2>2, <3>2, <3>3
  <2> QED
    BY <1>8, <1>10, <2>1, <2>2, <2>3, <2>4, <2>7 DEF CountersTrackHistory
<1>13. ConcurrencyNeverOvercounts'
  <2>1. Cardinality(Running) \in Nat /\ Cardinality(Running) - 1 <= Cardinality(Running')
        /\ Cardinality(Running') \in Nat
    <3>1. CASE RunningIn(calls) = Running
      <4>1. IsFiniteSet(Running)
        BY <1>1, CallersAssumption, FS_Subset
      <4> QED
        BY <1>10, <3>1, <4>1, FS_CardinalityType
    <3>2. ASSUME NEW c \in Running, RunningIn(calls) = Running \ {c}
          PROVE  /\ Cardinality(Running) \in Nat /\ Cardinality(Running') \in Nat
                 /\ Cardinality(Running) - 1 <= Cardinality(Running')
      <4>1. c \in Callers /\ (Running \ {c}) \subseteq Callers
        BY <1>1
      <4>2. /\ Cardinality(Running) \in Nat /\ Cardinality(Running \ {c}) \in Nat
            /\ Cardinality(Running \ {c}) = Cardinality(Running) - 1
        BY <1>1, <4>1, CallerCount
      <4> QED
        BY <1>10, <3>2, <4>2
    <3> QED
      BY <3>1, <3>2
  <2> QED
    BY <1>2, <1>6, <1>10, <2>1, BoundsAssumption DEF ConcurrencyNeverOvercounts, Dec, UInt
<1>14. ProbeBudget'
  <2>1. b.state # "HalfOpen"
    BY <1>7, <1>9
  <2>2. Probing' = {}
    BY <1>7, <1>10, <2>1
  <2> QED
    BY <1>10, <2>1, <2>2 DEF ProbeBudget
<1> QED
  BY <1>11, <1>12, <1>13, <1>14

(* Forcing the breaker into Open or Closed keeps the invariant. *)
LEMMA ForcedStep ==
    ASSUME Inv, Intervene, NEW b \in CircuitBreakerType, NEW h \in HistType,
           Observe(b, call, h), b.concurrent <= cb.concurrent,
           \/ b.state = "Open"
           \/ /\ b.state = "Closed" /\ h = NoHistory
              /\ b.failures = 0 /\ b.consecutiveFailures = 0 /\ b.failures_window = <<>>
    PROVE  Inv'
<1> USE DEF Inv
<1>1. /\ cb \in CircuitBreakerType /\ call \in CallType /\ mayFail \subseteq Callers
      /\ flaky \in BOOLEAN /\ admin \in 0 .. MaxAdmin /\ Running \subseteq Callers
  BY DEF TypeOK, Running
<1>2. RunningIn(call) = Running /\ ProbingIn(call) = Probing
  BY DEF RunningIn, ProbingIn, Running, Probing
<1>3. /\ cb' = b /\ call' \in CallType /\ hist' \in HistType
      /\ Running' = Running
      /\ b.state = cb.state => hist' = h /\ Probing' = Probing
      /\ b.state # cb.state => hist' = NoHistory /\ Probing' = {}
  BY <1>1, <1>2, ObserveFacts
<1>4. TypeOK'
  BY <1>1, <1>3, BoundsAssumption DEF TypeOK, Intervene
<1>5. CountersTrackHistory'
  <2>1. CASE b.state = "Open"
    BY <1>3, <2>1 DEF CountersTrackHistory
  <2>2. CASE b.state = "Closed"
    <3>1. hist'.fails = 0 /\ Len(<<>>) = 0
      BY <1>3, <2>2 DEF NoHistory
    <3> QED
      BY <1>3, <2>2, <3>1, OptionBounds DEF CountersTrackHistory
  <2> QED
    BY <2>1, <2>2
<1>6. ConcurrencyNeverOvercounts'
  <2>1. cb.concurrent \in UInt /\ b.concurrent \in UInt
    BY <1>1 DEF CircuitBreakerType
  <2>2. Cardinality(Running) \in Nat
    BY <1>1, CallersAssumption, FS_Subset, FS_CardinalityType
  <2> QED
    BY <1>3, <2>1, <2>2, BoundsAssumption DEF ConcurrencyNeverOvercounts, UInt
<1>7. ProbeBudget'
  <2>1. Probing' = {}
    BY <1>3 DEF ProbeBudget
  <2> QED
    BY <1>3, <2>1 DEF ProbeBudget
<1> QED
  BY <1>4, <1>5, <1>6, <1>7

(* ApplyOptions leaves the state and the counters alone. *)
LEMMA ApplyOptionsStep ==
    ASSUME Inv, NEW o \in Options, ApplyOptions(o)
    PROVE  Inv'
<1> USE DEF Inv
<1> DEFINE b == [cb EXCEPT !.opts = o, !.halfOpenOriginal = o.HalfOpenMaxRequests]
<1>1. /\ cb \in CircuitBreakerType /\ call \in CallType /\ mayFail \subseteq Callers
      /\ flaky \in BOOLEAN /\ admin \in 0 .. MaxAdmin /\ hist \in HistType
  BY DEF TypeOK
<1>2. o.HalfOpenMaxRequests \in UInt
  BY OptionsAssumption DEF OptionsType
<1>3. /\ b \in CircuitBreakerType /\ b.state = cb.state /\ b.concurrent = cb.concurrent
      /\ b.failures = cb.failures /\ b.consecutiveFailures = cb.consecutiveFailures
      /\ b.failures_window = cb.failures_window /\ b.successes = cb.successes
      /\ b.halfOpenAllowed = cb.halfOpenAllowed
  BY <1>1, <1>2 DEF CircuitBreakerType
<1>4. Observe(b, call, hist) /\ Intervene
  BY DEF ApplyOptions
<1> HIDE DEF b
<1>5. cb' = b /\ call' = call /\ hist' = hist /\ Running' = Running /\ Probing' = Probing
  BY <1>3, <1>4 DEF Observe, Running, Probing
<1>6. TypeOK'
  BY <1>1, <1>3, <1>4, <1>5, BoundsAssumption DEF TypeOK, Intervene
<1> QED
  BY <1>3, <1>5, <1>6 DEF CountersTrackHistory, ConcurrencyNeverOvercounts, ProbeBudget

(* The passage of time ages the failures in the window and nothing else. *)
LEMMA TickStep ==
    ASSUME Inv, Tick
    PROVE  Inv'
<1> USE DEF Inv
<1> DEFINE w == [i \in DOMAIN cb.failures_window |-> Older(cb.failures_window[i])]
<1>1. /\ cb \in CircuitBreakerType /\ cb.since \in 0 .. AgeCap
      /\ cb.failures_window \in Seq(0 .. AgeCap)
  BY DEF TypeOK, CircuitBreakerType
<1>2. \A a \in 0 .. AgeCap : Older(a) \in 0 .. AgeCap
  BY BoundsAssumption DEF Older
<1>3. w \in Seq(0 .. AgeCap) /\ Len(w) = Len(cb.failures_window)
  <2> DEFINE n == Len(cb.failures_window)
  <2>1. n \in Nat /\ DOMAIN cb.failures_window = 1 .. n
    BY <1>1, LenProperties
  <2>2. \A i \in 1 .. n : cb.failures_window[i] \in 0 .. AgeCap
    BY <1>1, ElementOfSeq
  <2>3. w \in [1 .. n -> 0 .. AgeCap]
    BY <1>2, <2>1, <2>2
  <2> HIDE DEF w
  <2>4. w \in Seq(0 .. AgeCap)
    BY <2>1, <2>3, SeqDef
  <2>5. DOMAIN w = 1 .. n /\ DOMAIN w = 1 .. Len(w) /\ Len(w) \in Nat
    BY <2>3, <2>4, LenProperties
  <2> QED
    BY <2>1, <2>4, <2>5
<1>4. cb' = [cb EXCEPT !.since = Older(cb.since), !.failures_window = w]
  BY <1>1 DEF Tick, CircuitBreakerType
<1> HIDE DEF w
<1>5. /\ cb' \in CircuitBreakerType /\ cb'.state = cb.state /\ cb'.concurrent = cb.concurrent
      /\ cb'.failures = cb.failures /\ cb'.consecutiveFailures = cb.consecutiveFailures
      /\ Len(cb'.failures_window) = Len(cb.failures_window) /\ cb'.successes = cb.successes
      /\ cb'.halfOpenAllowed = cb.halfOpenAllowed
  BY <1>1, <1>2, <1>3, <1>4 DEF CircuitBreakerType
<1>6. UNCHANGED <<call, flaky, mayFail, admin, hist>>
  BY DEF Tick
<1>7. Running' = Running /\ Probing' = Probing
  BY <1>6 DEF Running, Probing
<1>8. TypeOK'
  BY <1>5, <1>6 DEF TypeOK
<1> QED
  BY <1>5, <1>6, <1>7, <1>8 DEF CountersTrackHistory, ConcurrencyNeverOvercounts, ProbeBudget

(* A step that leaves the breaker and the callers alone keeps the invariant. *)
LEMMA QuietStep ==
    ASSUME Inv, UNCHANGED <<cb, call, mayFail, admin, hist>>, flaky' \in BOOLEAN
    PROVE  Inv'
<1>1. Running' = Running /\ Probing' = Probing
  BY DEF Running, Probing
<1> QED
  BY <1>1 DEF Inv, TypeOK, CountersTrackHistory, ConcurrencyNeverOvercounts, ProbeBudget

(* Every step keeps the invariant. *)
LEMMA NextInv == Inv /\ [Next]_vars => Inv'
<1> SUFFICES ASSUME Inv, [Next]_vars PROVE Inv'
  OBVIOUS
<1>0. /\ cb \in CircuitBreakerType /\ call \in CallType /\ hist \in HistType
      /\ admin \in 0 .. MaxAdmin /\ mayFail \subseteq Callers
      /\ NoHistory \in HistType
      /\ RunningIn(call) = Running /\ ProbingIn(call) = Probing
  BY BoundsAssumption
     DEF Inv, TypeOK, NoHistory, HistType, RunningIn, ProbingIn, Running, Probing
<1>1. ASSUME NEW c \in Callers, Allow(c) PROVE Inv'
  BY <1>1, AllowStep
<1>2. ASSUME NEW c \in Callers, Success(c) PROVE Inv'
  BY <1>2, SuccessStep
<1>3. ASSUME NEW c \in Callers, Failure(c) PROVE Inv'
  <2> DEFINE calls == [call EXCEPT ![c] = "idle"]
  <2>1. /\ calls \in CallType /\ RunningIn(calls) = Running \ {c}
        /\ ProbingIn(calls) = Probing \ {c}
    BY <1>0, CallUpdate
  <2>2. /\ RecordFailure(calls) /\ c \in Running /\ mayFail' = mayFail \ {c}
        /\ UNCHANGED <<flaky, admin>>
    BY <1>3 DEF Failure
  <2> HIDE DEF calls
  <2>3. cb.state # "HalfOpen" => ProbingIn(calls) = {}
    BY <2>1 DEF Inv, ProbeBudget
  <2> QED
    BY <1>0, <2>1, <2>2, <2>3, FailureStep
<1>4. ASSUME InjectFailure PROVE Inv'
  <2>1. /\ RecordFailure(call) /\ UNCHANGED <<flaky, mayFail>> /\ admin' \in 0 .. MaxAdmin
    BY <1>0, <1>4, BoundsAssumption DEF InjectFailure, Intervene
  <2>2. cb.state # "HalfOpen" => ProbingIn(call) = {}
    BY <1>0 DEF Inv, ProbeBudget
  <2> QED
    BY <1>0, <2>1, <2>2, FailureStep
<1>5. ASSUME ForceOpen PROVE Inv'
  <2> DEFINE b == changeState(cb, "Open")
  <2>1. b \in CircuitBreakerType /\ b.state = "Open" /\ b.concurrent = cb.concurrent
    BY <1>0, ChangeState DEF States
  <2>2. Intervene /\ Observe(b, call, hist)
    BY <1>5 DEF ForceOpen
  <2> HIDE DEF b
  <2>3. b.concurrent <= cb.concurrent
    BY <1>0, <2>1, BoundsAssumption DEF CircuitBreakerType, UInt
  <2> QED
    BY <1>0, <2>1, <2>2, <2>3, ForcedStep
<1>6. ASSUME ForceClosed PROVE Inv'
  <2> DEFINE b == changeState(cb, "Closed")
  <2>1. /\ b \in CircuitBreakerType /\ b.state = "Closed" /\ b.concurrent = cb.concurrent
        /\ b.failures = 0 /\ b.consecutiveFailures = 0 /\ b.failures_window = <<>>
    BY <1>0, ChangeState DEF States
  <2>2. Intervene /\ Observe(b, call, NoHistory)
    BY <1>6 DEF ForceClosed
  <2> HIDE DEF b
  <2>3. b.concurrent <= cb.concurrent
    BY <1>0, <2>1, BoundsAssumption DEF CircuitBreakerType, UInt
  <2> QED
    BY <1>0, <2>1, <2>2, <2>3, ForcedStep
<1>7. ASSUME Reset PROVE Inv'
  <2> DEFINE a == changeState(cb, "Closed")
             b == [a EXCEPT !.failures = 0, !.successes = 0, !.failures_window = <<>>,
                            !.halfOpenAllowed = cb.halfOpenOriginal, !.concurrent = 0,
                            !.consecutiveFailures = 0]
  <2>1. a \in CircuitBreakerType /\ a.state = "Closed"
    BY <1>0, ChangeState DEF States
  <2>2. Intervene /\ Observe(b, call, NoHistory)
    BY <1>7 DEF Reset
  <2> HIDE DEF a
  <2>3. 0 \in UInt /\ <<>> \in Seq(0 .. AgeCap) /\ cb.halfOpenOriginal \in UInt
    BY <1>0, BoundsAssumption DEF CircuitBreakerType, UInt
  <2>4. /\ b \in CircuitBreakerType /\ b.state = "Closed" /\ b.concurrent = 0
        /\ b.failures = 0 /\ b.consecutiveFailures = 0 /\ b.failures_window = <<>>
    BY <2>1, <2>3 DEF CircuitBreakerType
  <2> HIDE DEF b
  <2>5. b.concurrent <= cb.concurrent
    BY <1>0, <2>4, BoundsAssumption DEF CircuitBreakerType, UInt
  <2> QED
    BY <1>0, <2>2, <2>4, <2>5, ForcedStep
<1>8. ASSUME NEW o \in Options, ApplyOptions(o) PROVE Inv'
  BY <1>8, ApplyOptionsStep
<1>9. ASSUME Tick PROVE Inv'
  BY <1>9, TickStep
<1>10. ASSUME ServiceRecovers PROVE Inv'
  BY <1>10, QuietStep DEF ServiceRecovers
<1>11. ASSUME UNCHANGED vars PROVE Inv'
  BY <1>11, QuietStep DEF vars, Inv, TypeOK
<1> QED
  BY <1>1, <1>2, <1>3, <1>4, <1>5, <1>6, <1>7, <1>8, <1>9, <1>10, <1>11 DEF Next

-----------------------------------------------------------------------------
(* The theorems *)

(* Every field of the breaker keeps its type: no counter leaves uint32. *)
THEOREM TypeCorrect == Spec => []TypeOK
<1>1. Inv => TypeOK
  BY DEF Inv
<1> QED
  BY <1>1, InitInv, NextInv, PTL DEF Spec

(* For any number of callers and any options, the breaker never counts     *)
(* more requests than are in flight.                                       *)
THEOREM ConcurrencySafe == Spec => []ConcurrencyNeverOvercounts
<1>1. Inv => ConcurrencyNeverOvercounts
  BY DEF Inv
<1> QED
  BY <1>1, InitInv, NextInv, PTL DEF Spec

(* In HalfOpen nobody passes without a grant, whatever is applied, forced  *)
(* or reported late.                                                       *)
THEOREM ProbesSafe == Spec => []ProbeBudget
<1>1. Inv => ProbeBudget
  BY DEF Inv
<1> QED
  BY <1>1, InitInv, NextInv, PTL DEF Spec

(* The counters the breaker decides by agree with the reports it was sent. *)
THEOREM CountersSafe == Spec => []CountersTrackHistory
<1>1. Inv => CountersTrackHistory
  BY DEF Inv
<1> QED
  BY <1>1, InitInv, NextInv, PTL DEF Spec

(* The breaker opens exactly at the Threshold-th consecutive failure.      *)
THEOREM TripExact == Spec => TripsExactlyAtThreshold
<1> DEFINE A == cb.state = "Closed" /\ (InjectFailure \/ \E c \in Callers : Failure(c))
                => (cb'.state = "Open" <=> hist.fails + 1 >= cb.opts.Threshold)
<1>1. ASSUME Inv PROVE A
  <2> SUFFICES ASSUME cb.state = "Closed",
                      InjectFailure \/ \E c \in Callers : Failure(c)
               PROVE  cb'.state = "Open" <=> hist.fails + 1 >= cb.opts.Threshold
    OBVIOUS
  <2>1. cb' = AfterFailure
    BY DEF InjectFailure, Failure, RecordFailure, Observe
  <2>2. /\ cb \in CircuitBreakerType /\ hist.fails \in Nat /\ hist.fails < RunCap
        /\ cb.consecutiveFailures = hist.fails /\ cb.failures <= hist.fails
        /\ Len(cb.failures_window) <= hist.fails
    BY <1>1, BoundsAssumption DEF Inv, TypeOK, HistType, CountersTrackHistory
  <2>3. /\ cb.failures \in UInt /\ Len(cb.failures_window) \in Nat
        /\ cb.opts.Threshold \in UInt
    BY <2>2, LenProperties, OptionBounds DEF CircuitBreakerType
  <2>4. Inc(cb.consecutiveFailures) = hist.fails + 1
    BY <2>2, BoundsAssumption DEF Inc
  <2>5. Inc(cb.failures) \in UInt /\ Inc(cb.failures) <= cb.failures + 1
    BY <2>3, IncDec
  <2>6. Inc(cb.failures) <= hist.fails + 1 /\ Len(cb.failures_window) + 1 <= hist.fails + 1
    BY <2>2, <2>3, <2>5, BoundsAssumption DEF UInt
  <2>7. hist.fails + 1 >= cb.opts.Threshold => AfterFailure.state = "Open"
    BY <2>2, <2>4, AfterFailureFacts
  <2>8. AfterFailure.state = "Open" =>
          \/ hist.fails + 1 >= cb.opts.Threshold
          \/ Inc(cb.failures) >= cb.opts.Threshold
          \/ Len(cb.failures_window) + 1 >= cb.opts.Threshold
    BY <2>2, <2>4, AfterFailureFacts
  <2>9. AfterFailure.state = "Open" => hist.fails + 1 >= cb.opts.Threshold
    BY <2>2, <2>3, <2>5, <2>6, <2>8, BoundsAssumption DEF UInt
  <2> QED
    BY <2>1, <2>7, <2>9
<1>2. Inv => [A]_vars
  BY <1>1
<1> QED
  BY <1>2, InitInv, NextInv, PTL DEF Spec, TripsExactlyAtThreshold

(* The breaker closes exactly at the SuccessThreshold-th success.          *)
THEOREM CloseExact == Spec => ClosesExactlyAtSuccessThreshold
<1> DEFINE A == cb.state = "HalfOpen" /\ (\E c \in Callers : Success(c))
                => (cb'.state = "Closed" <=> hist.oks + 1 >= cb.opts.SuccessThreshold)
<1>1. ASSUME Inv PROVE A
  <2> SUFFICES ASSUME cb.state = "HalfOpen", \E c \in Callers : Success(c)
               PROVE  cb'.state = "Closed" <=> hist.oks + 1 >= cb.opts.SuccessThreshold
    OBVIOUS
  <2>1. cb' = AfterSuccess
    BY DEF Success, Observe
  <2>2. /\ cb \in CircuitBreakerType /\ hist.oks \in Nat /\ hist.oks < RunCap
        /\ cb.successes = hist.oks
    BY <1>1, BoundsAssumption DEF Inv, TypeOK, HistType, CountersTrackHistory
  <2>3. Inc(cb.successes) = hist.oks + 1
    BY <2>2, BoundsAssumption DEF Inc
  <2> QED
    BY <2>1, <2>2, <2>3, AfterSuccessFacts
<1>2. Inv => [A]_vars
  BY <1>1
<1> QED
  BY <1>2, InitInv, NextInv, PTL DEF Spec, ClosesExactlyAtSuccessThreshold

-----------------------------------------------------------------------------
(* The adaptive breaker *)

(* What CurrentState will be once every listener started so far has run in *)
(* the order it was started.                                               *)
LastKnown == IF pending = <<>> THEN CurrentState ELSE pending[Len(pending)]

(* The callers whose failure may still be added to FailureCount5m: the     *)
(* request runs, or Failure() is between the breaker and the counter.      *)
Outstanding == {c \in Callers : c \in Running \/ report[c] = "count"}

StoredInOrder == inOrder => LastKnown = cb.state

ReportsWhenDone == \A c \in Callers : report[c] = "count" => c \notin Running

(* Failures are counted after their requests, and the ticker zeroes the    *)
(* requests first: between its two stores the failures are a period ahead. *)
FailuresWithinRequests ==
    FailureCount5m + Cardinality(Outstanding)
      <= RequestCount5m + Cardinality(Callers) + (IF loop = "zero" THEN CountCap ELSE 0)

AInv ==
    /\ Inv /\ ATypeOK /\ AdaptedInRange
    /\ StoredInOrder /\ ReportsWhenDone /\ FailuresWithinRequests

(* RemoveAt takes one element out, and taking the first leaves the last.   *)
LEMMA RemoveAtFacts ==
    ASSUME NEW S, NEW s \in Seq(S), NEW n \in 1 .. Len(s)
    PROVE  /\ RemoveAt(s, n) \in Seq(S)
           /\ Len(RemoveAt(s, n)) = Len(s) - 1
           /\ n = 1 /\ Len(s) > 1 => RemoveAt(s, n)[Len(s) - 1] = s[Len(s)]
<1>0. Len(s) \in Nat /\ n \in Nat /\ \A i \in 1 .. Len(s) : s[i] \in S
  BY LenProperties, ElementOfSeq
<1>1. /\ SubSeq(s, 1, n - 1) \in Seq(S)
      /\ Len(SubSeq(s, 1, n - 1)) = n - 1
  <2>1. \A i \in 1 .. n - 1 : s[i] \in S
    BY <1>0
  <2>2. n - 1 \in Int /\ (1 <= n - 1 \/ n = 1)
    BY <1>0
  <2> HIDE <1>0
  <2>3. /\ SubSeq(s, 1, n - 1) \in Seq(S)
        /\ Len(SubSeq(s, 1, n - 1)) = IF 1 <= n - 1 THEN (n - 1) - 1 + 1 ELSE 0
    BY <2>1, <2>2, SubSeqProperties
  <2> QED
    BY <1>0, <2>3
<1>2. /\ SubSeq(s, n + 1, Len(s)) \in Seq(S)
      /\ Len(SubSeq(s, n + 1, Len(s))) = Len(s) - n
      /\ Len(s) > n => SubSeq(s, n + 1, Len(s))[Len(s) - n] = s[Len(s)]
  <2>1. \A i \in n + 1 .. Len(s) : s[i] \in S
    BY <1>0
  <2>2. n + 1 \in Int /\ Len(s) \in Int
    BY <1>0
  <2>3. /\ SubSeq(s, n + 1, Len(s)) \in Seq(S)
        /\ Len(SubSeq(s, n + 1, Len(s)))
             = IF n + 1 <= Len(s) THEN Len(s) - (n + 1) + 1 ELSE 0
        /\ \A i \in 1 .. Len(s) - (n + 1) + 1 :
              SubSeq(s, n + 1, Len(s))[i] = s[n + 1 + i - 1]
    BY <2>1, <2>2, SubSeqProperties
  <2>4. Len(s) > n => /\ Len(s) - n \in 1 .. Len(s) - (n + 1) + 1
                      /\ n + 1 + (Len(s) - n) - 1 = Len(s)
    BY <1>0
  <2>5. Len(s) > n => SubSeq(s, n + 1, Len(s))[Len(s) - n] = s[n + 1 + (Len(s) - n) - 1]
    BY <2>3, <2>4
  <2>6. Len(SubSeq(s, n + 1, Len(s))) = Len(s) - n
    BY <1>0, <2>3
  <2> QED
    BY <2>3, <2>4, <2>5, <2>6
<1> DEFINE a == SubSeq(s, 1, n - 1)
           b == SubSeq(s, n + 1, Len(s))
<1>3. RemoveAt(s, n) = a \o b
  BY DEF RemoveAt
<1> HIDE DEF a, b
<1>4. /\ a \in Seq(S) /\ Len(a) = n - 1
      /\ b \in Seq(S) /\ Len(b) = Len(s) - n
      /\ Len(s) > n => b[Len(s) - n] = s[Len(s)]
  BY <1>1, <1>2 DEF a, b
<1>5. /\ a \o b \in Seq(S) /\ Len(a \o b) = Len(a) + Len(b)
      /\ \A i \in 1 .. Len(a) + Len(b) :
            (a \o b)[i] = IF i <= Len(a) THEN a[i] ELSE b[i - Len(a)]
  BY <1>4, ConcatProperties
<1>6. ASSUME n = 1, Len(s) > 1
      PROVE  (a \o b)[Len(s) - 1] = s[Len(s)]
  <2>1. Len(s) - 1 \in 1 .. Len(a) + Len(b) /\ ~(Len(s) - 1 <= Len(a))
    BY <1>0, <1>4, <1>6
  <2>2. (a \o b)[Len(s) - 1] = b[(Len(s) - 1) - Len(a)]
    BY <1>5, <2>1
  <2>3. (Len(s) - 1) - Len(a) = Len(s) - n
    BY <1>0, <1>4, <1>6
  <2> QED
    BY <1>4, <1>6, <2>2, <2>3
<1>7. Len(a \o b) = Len(s) - 1
  BY <1>0, <1>4, <1>5
<1> QED
  BY <1>3, <1>5, <1>6, <1>7

(* Sets of callers can be counted. *)
LEMMA CallersFinite ==
    ASSUME NEW S \in SUBSET Callers
    PROVE  /\ Cardinality(S) \in Nat /\ Cardinality(Callers) \in Nat
           /\ Cardinality(S) <= Cardinality(Callers)
BY CallersAssumption, FS_CardinalityType, FS_Subset

-----------------------------------------------------------------------------
(* Every step of the adaptive breaker is a step of the embedded breaker,   *)
(* or leaves it alone.                                                     *)
LEMMA BaseStepOrNone == [ANext]_avars => [Next]_vars
<1> SUFFICES ASSUME [ANext]_avars PROVE [Next]_vars
  OBVIOUS
<1>1. ASSUME NEW c \in Callers, AAllow(c) \/ ASuccess(c) \/ AFailure(c) PROVE Next
  BY <1>1 DEF AAllow, ASuccess, AFailure, Next
<1>2. ASSUME NEW c \in Callers, CountFailure(c) \/ UpdateRate(c) PROVE UNCHANGED vars
  BY <1>2 DEF CountFailure, UpdateRate
<1>3. ASSUME AReset PROVE Next
  BY <1>3 DEF AReset, Next
<1>4. ASSUME BaseStep PROVE Next
  BY <1>4 DEF BaseStep, Next
<1>5. ASSUME ResetMetrics \/ RunListener PROVE UNCHANGED vars
  BY <1>5 DEF ResetMetrics, RunListener
<1>6. ASSUME ResetTickRequests \/ ResetTickFailures \/ ReadMetrics \/ Adjust \/ StopLoop
      PROVE  UNCHANGED vars
  BY <1>6 DEF ResetTickRequests, ResetTickFailures, ReadMetrics, Adjust, StopLoop
<1>7. ASSUME UNCHANGED avars PROVE UNCHANGED vars
  BY <1>7 DEF avars
<1> QED
  BY <1>1, <1>2, <1>3, <1>4, <1>5, <1>6, <1>7 DEF ANext

-----------------------------------------------------------------------------
(* Which calls run after a step of the embedded breaker *)

(* A change of state turns probes into running calls and ends none. *)
LEMMA ObserveRunning ==
    ASSUME NEW b, NEW calls \in CallType, NEW h, Observe(b, calls, h)
    PROVE  Running' = RunningIn(calls)
BY DEF Observe, RunningIn, CallType, Running

(* Allow starts at most the caller's own request. *)
LEMMA AllowRunning ==
    ASSUME call \in CallType, NEW c \in Callers, Allow(c)
    PROVE  Running' = Running \/ Running' = Running \cup {c}
<1>0. c \notin Running
  BY DEF Allow, AllowClosed, AllowAfterTimeout, AllowHalfOpen, AllowRejected, Admit
<1>1. CASE AllowClosed(c)
  <2>1. PICK calls : calls = [call EXCEPT ![c] = "running"]
    OBVIOUS
  <2>2. calls \in CallType /\ RunningIn(calls) = Running \cup {c}
    BY <2>1, CallUpdate
  <2>3. \E b, h : Observe(b, calls, h)
    BY <1>1, <2>1 DEF AllowClosed
  <2> QED
    BY <2>2, <2>3, ObserveRunning
<1>2. CASE AllowAfterTimeout(c)
  <2>1. call' = [call EXCEPT ![c] = "probe"]
    BY <1>2 DEF AllowAfterTimeout
  <2>2. RunningIn(call') = Running \cup {c}
    BY <2>1, CallUpdate
  <2> QED
    BY <2>2 DEF Running, RunningIn
<1>3. CASE AllowHalfOpen(c)
  <2>1. PICK calls : calls = [call EXCEPT ![c] = "probe"]
    OBVIOUS
  <2>2. calls \in CallType /\ RunningIn(calls) = Running \cup {c}
    BY <2>1, CallUpdate
  <2>3. \E b, h : Observe(b, calls, h)
    BY <1>3, <2>1 DEF AllowHalfOpen
  <2> QED
    BY <2>2, <2>3, ObserveRunning
<1>4. CASE AllowRejected(c)
  <2>1. \E v \in {"ErrTooManyConcurrent", "ErrOpenState"} : call' = [call EXCEPT ![c] = v]
    BY <1>4 DEF AllowRejected
  <2>2. RunningIn(call') = Running \ {c}
    BY <2>1, CallUpdate
  <2> QED
    BY <1>0, <2>2 DEF Running, RunningIn
<1> QED
  BY <1>1, <1>2, <1>3, <1>4 DEF Allow

(* A report ends the caller's request and no other. *)
LEMMA ReportRunning ==
    ASSUME call \in CallType, NEW c \in Callers, Success(c) \/ Failure(c)
    PROVE  c \in Running /\ Running' = Running \ {c}
<1>1. PICK calls : calls = [call EXCEPT ![c] = "idle"]
  OBVIOUS
<1>2. calls \in CallType /\ RunningIn(calls) = Running \ {c}
  BY <1>1, CallUpdate
<1>3. \E b, h : Observe(b, calls, h)
  BY <1>1 DEF Success, Failure, RecordFailure
<1>4. c \in Running
  BY DEF Success, Failure
<1> QED
  BY <1>2, <1>3, <1>4, ObserveRunning

(* Interventions and the environment end no request and start none. *)
LEMMA OtherRunning ==
    ASSUME call \in CallType,
           \/ ForceOpen \/ ForceClosed \/ Reset \/ InjectFailure
           \/ \E o \in Options : ApplyOptions(o)
           \/ Tick \/ ServiceRecovers
    PROVE  Running' = Running
<1>1. CASE Tick \/ ServiceRecovers
  BY <1>1 DEF Tick, ServiceRecovers, Running
<1>2. CASE ForceOpen \/ ForceClosed \/ Reset \/ InjectFailure
           \/ \E o \in Options : ApplyOptions(o)
  <2>1. \E b, h : Observe(b, call, h)
    BY <1>2 DEF ForceOpen, ForceClosed, Reset, InjectFailure, ApplyOptions, RecordFailure
  <2>2. RunningIn(call) = Running
    BY DEF Running, RunningIn
  <2> QED
    BY <2>1, <2>2, ObserveRunning
<1> QED
  BY <1>1, <1>2

-----------------------------------------------------------------------------
(* The counters *)

(* A caller leaves Outstanding when its failure is counted or it succeeds, *)
(* and enters it only with a request that was counted: the failures stay   *)
(* within the requests, and only a caller that is done reports.            *)
LEMMA CountersStep ==
    ASSUME AInv, [ANext]_avars
    PROVE  /\ FailuresWithinRequests' /\ ReportsWhenDone'
           /\ FailureCount5m' \in Nat /\ RequestCount5m' \in 0 .. CountCap
<1> DEFINE N == Cardinality(Callers)
           O == Cardinality(Outstanding)
           P == Cardinality(Outstanding')
<1>1. /\ CountCap \in Nat /\ N \in Nat /\ O \in Nat /\ O <= N /\ P \in Nat /\ P <= N
  BY CallersFinite, AdaptiveAssumption DEF Outstanding
<1>2. /\ call \in CallType /\ report \in [Callers -> {"none", "count", "rate"}]
      /\ FailureCount5m \in Nat
      /\ RequestCount5m \in 0 .. CountCap
      /\ \A c \in Callers : report[c] = "count" => c \notin Running
  BY <1>1 DEF AInv, ATypeOK, TypeOK, ReportsWhenDone
<1>3. FailureCount5m + O <= RequestCount5m + N + (IF loop = "zero" THEN CountCap ELSE 0)
  BY DEF AInv, FailuresWithinRequests
<1>4. (FailuresWithinRequests)' <=>
        (FailureCount5m' + P
           <= RequestCount5m' + N + (IF loop' = "zero" THEN CountCap ELSE 0))
  BY DEF FailuresWithinRequests
<1>5. ASSUME Running' = Running, report' = report
      PROVE  ReportsWhenDone' /\ Outstanding' = Outstanding
  BY <1>2, <1>5 DEF ReportsWhenDone, Outstanding
<1>6. ASSUME NEW c \in Callers, AAllow(c)
      PROVE  /\ FailuresWithinRequests' /\ ReportsWhenDone'
             /\ FailureCount5m' \in Nat /\ RequestCount5m' \in 0 .. CountCap
  <2>1. /\ Allow(c) /\ report[c] = "none" /\ report' = report /\ loop' = loop
        /\ RequestCount5m < CountCap /\ RequestCount5m' = RequestCount5m + 1
        /\ FailureCount5m' = FailureCount5m
    BY <1>6 DEF AAllow
  <2>2. Running' = Running \/ Running' = Running \cup {c}
    BY <1>2, <2>1, AllowRunning
  <2>3. ReportsWhenDone'
    BY <1>2, <2>1, <2>2 DEF ReportsWhenDone
  <2>4. Outstanding' = Outstanding \/ Outstanding' = Outstanding \cup {c}
    BY <2>1, <2>2 DEF Outstanding
  <2>5. P <= O + 1
    <3>1. Cardinality(Outstanding \cup {c}) <= O + 1
      <4>1. Outstanding \in SUBSET Callers
        BY DEF Outstanding
      <4> HIDE DEF O
      <4>2. Cardinality(Outstanding \cup {c}) = IF c \in Outstanding THEN O ELSE O + 1
        BY <4>1, CallerCount DEF O
      <4> QED
        BY <1>1, <4>2
    <3>2. P = O \/ P = Cardinality(Outstanding \cup {c})
      BY <2>4
    <3> HIDE DEF O, P
    <3> QED
      BY <1>1, <3>1, <3>2
  <2> HIDE DEF N, O, P
  <2> QED
    BY <1>1, <1>2, <1>3, <1>4, <2>1, <2>3, <2>5
<1>7. ASSUME NEW c \in Callers, ASuccess(c)
      PROVE  /\ FailuresWithinRequests' /\ ReportsWhenDone'
             /\ FailureCount5m' \in Nat /\ RequestCount5m' \in 0 .. CountCap
  <2>1. /\ Success(c) /\ report' = report /\ loop' = loop
        /\ RequestCount5m' = RequestCount5m /\ FailureCount5m' = FailureCount5m
    BY <1>7 DEF ASuccess, metricVars
  <2>2. c \in Running /\ Running' = Running \ {c}
    BY <1>2, <2>1, ReportRunning
  <2>3. ReportsWhenDone'
    BY <1>2, <2>1, <2>2 DEF ReportsWhenDone
  <2>4. Outstanding' \subseteq Outstanding /\ Outstanding \in SUBSET Callers
    BY <2>1, <2>2 DEF Outstanding
  <2>5. P <= O
    BY <2>4, CallersAssumption, FS_Subset
  <2> HIDE DEF N, O, P
  <2> QED
    BY <1>1, <1>2, <1>3, <1>4, <2>1, <2>3, <2>5
<1>8. ASSUME NEW c \in Callers, AFailure(c)
      PROVE  /\ FailuresWithinRequests' /\ ReportsWhenDone'
             /\ FailureCount5m' \in Nat /\ RequestCount5m' \in 0 .. CountCap
  <2>1. /\ Failure(c) /\ report' = [report EXCEPT ![c] = "count"] /\ loop' = loop
        /\ RequestCount5m' = RequestCount5m /\ FailureCount5m' = FailureCount5m
    BY <1>8 DEF AFailure, metricVars
  <2>2. c \in Running /\ Running' = Running \ {c}
    BY <1>2, <2>1, ReportRunning
  <2>3. ReportsWhenDone'
    BY <1>2, <2>1, <2>2 DEF ReportsWhenDone
  <2>4. Outstanding' = Outstanding
    BY <1>2, <2>1, <2>2 DEF Outstanding
  <2> HIDE DEF N
  <2> QED
    BY <1>1, <1>2, <1>3, <1>4, <2>1, <2>3, <2>4
<1>9. ASSUME NEW c \in Callers, CountFailure(c)
      PROVE  /\ FailuresWithinRequests' /\ ReportsWhenDone'
             /\ FailureCount5m' \in Nat /\ RequestCount5m' \in 0 .. CountCap
  <2>1. /\ report[c] = "count" /\ report' = [report EXCEPT ![c] = "rate"] /\ loop' = loop
        /\ RequestCount5m' = RequestCount5m /\ FailureCount5m' = FailureCount5m + 1
        /\ Running' = Running
    BY <1>9 DEF CountFailure, vars, Running
  <2>3. ReportsWhenDone'
    BY <1>2, <2>1 DEF ReportsWhenDone
  <2>4. Outstanding' = Outstanding \ {c} /\ c \in Outstanding
    BY <1>2, <2>1 DEF Outstanding
  <2>5. P = O - 1
    BY <2>4, CallerCount DEF Outstanding
  <2> HIDE DEF N, O, P
  <2> QED
    BY <1>1, <1>2, <1>3, <1>4, <2>1, <2>3, <2>5
<1>10. ASSUME NEW c \in Callers, UpdateRate(c)
       PROVE  /\ FailuresWithinRequests' /\ ReportsWhenDone'
              /\ FailureCount5m' \in Nat /\ RequestCount5m' \in 0 .. CountCap
  <2>1. /\ report[c] = "rate" /\ report' = [report EXCEPT ![c] = "none"] /\ loop' = loop
        /\ RequestCount5m' = RequestCount5m /\ FailureCount5m' = FailureCount5m
        /\ Running' = Running
    BY <1>10 DEF UpdateRate, vars, Running
  <2>3. ReportsWhenDone'
    BY <1>2, <2>1 DEF ReportsWhenDone
  <2>4. Outstanding' = Outstanding
    BY <1>2, <2>1 DEF Outstanding
  <2> HIDE DEF N
  <2> QED
    BY <1>1, <1>2, <1>3, <1>4, <2>1, <2>3, <2>4
<1>11. ASSUME AReset \/ BaseStep
       PROVE  Running' = Running
  <2>1. \/ ForceOpen \/ ForceClosed \/ Reset \/ InjectFailure
        \/ \E o \in Options : ApplyOptions(o)
        \/ Tick \/ ServiceRecovers
    BY <1>11 DEF AReset, BaseStep
  <2> QED
    BY <1>2, <2>1, OtherRunning
<1>12. ASSUME AReset \/ BaseStep \/ ResetMetrics \/ RunListener \/ ReadMetrics
              \/ Adjust \/ StopLoop \/ UNCHANGED avars
       PROVE  /\ FailuresWithinRequests' /\ ReportsWhenDone'
              /\ FailureCount5m' \in Nat /\ RequestCount5m' \in 0 .. CountCap
  <2>1. Running' = Running
    <3>1. ASSUME UNCHANGED vars PROVE Running' = Running
      BY <3>1 DEF vars, Running
    <3>2. ASSUME ResetMetrics \/ RunListener \/ ReadMetrics
                 \/ Adjust \/ StopLoop \/ UNCHANGED avars
          PROVE  UNCHANGED vars
      BY <3>2 DEF ResetMetrics, RunListener, ReadMetrics, Adjust, StopLoop, avars
    <3> QED
      BY <1>11, <1>12, <3>1, <3>2
  <2>2. /\ report' = report /\ RequestCount5m' = RequestCount5m
        /\ FailureCount5m' = FailureCount5m
    BY <1>12
       DEF AReset, BaseStep, ResetMetrics, RunListener, ReadMetrics, Adjust, StopLoop,
           metricVars, avars
  <2>3. loop' = "zero" <=> loop = "zero"
    <3>1. CASE AReset \/ BaseStep \/ ResetMetrics \/ RunListener \/ UNCHANGED avars
      BY <3>1 DEF AReset, BaseStep, ResetMetrics, RunListener, avars
    <3>2. CASE ReadMetrics \/ Adjust \/ StopLoop
      BY <3>2 DEF ReadMetrics, Adjust, StopLoop
    <3> QED
      BY <1>12, <3>1, <3>2
  <2>4. ReportsWhenDone' /\ Outstanding' = Outstanding
    BY <1>5, <2>1, <2>2
  <2> HIDE DEF N
  <2> QED
    BY <1>1, <1>2, <1>3, <1>4, <2>2, <2>3, <2>4
<1>13. ASSUME ResetTickRequests \/ ResetTickFailures
       PROVE  /\ FailuresWithinRequests' /\ ReportsWhenDone'
              /\ FailureCount5m' \in Nat /\ RequestCount5m' \in 0 .. CountCap
  <2>1. Running' = Running /\ report' = report
    BY <1>13 DEF ResetTickRequests, ResetTickFailures, vars, Running
  <2>2. ReportsWhenDone' /\ Outstanding' = Outstanding
    BY <1>5, <2>1
  <2>3. \/ /\ loop = "tick" /\ loop' = "zero" /\ RequestCount5m' = 0
           /\ FailureCount5m' = FailureCount5m
        \/ /\ loop = "zero" /\ loop' = "tick" /\ RequestCount5m' = RequestCount5m
           /\ FailureCount5m' = 0
    BY <1>13 DEF ResetTickRequests, ResetTickFailures
  <2>4. P = O
    BY <2>2
  <2> HIDE DEF N, O, P
  <2> QED
    BY <1>1, <1>2, <1>3, <1>4, <2>2, <2>3, <2>4
<1> HIDE DEF N, O, P
<1> QED
  BY <1>6, <1>7, <1>8, <1>9, <1>10, <1>12, <1>13 DEF ANext

-----------------------------------------------------------------------------
(* The listeners *)

(* A change of state is the last thing that is known, a listener that runs *)
(* in its turn leaves what will be known last, and a reset that meets      *)
(* neither a listener nor a change stores what is true.                    *)
LEMMA ListenerStep ==
    ASSUME AInv, [ANext]_avars, cb' \in CircuitBreakerType
    PROVE  /\ StoredInOrder' /\ CurrentState' \in States
           /\ pending' \in Seq(States) /\ Len(pending') <= MaxPending
           /\ inOrder' \in BOOLEAN
<1>1. /\ pending \in Seq(States) /\ Len(pending) <= MaxPending /\ inOrder \in BOOLEAN
      /\ CurrentState \in States /\ MaxPending \in Nat /\ Len(pending) \in Nat
      /\ (inOrder => LastKnown = cb.state)
  BY AdaptiveAssumption, LenProperties DEF AInv, ATypeOK, StoredInOrder
<1>2. cb'.state \in States
  BY DEF CircuitBreakerType
<1>3. ASSUME Notify, inOrder' = inOrder, CurrentState' = CurrentState
      PROVE  /\ StoredInOrder' /\ CurrentState' \in States
             /\ pending' \in Seq(States) /\ Len(pending') <= MaxPending
             /\ inOrder' \in BOOLEAN
  <2>1. CASE cb'.state = cb.state
    BY <1>1, <1>3, <2>1 DEF Notify, StoredInOrder, LastKnown
  <2>2. CASE cb'.state # cb.state
    <3>1. Len(pending) < MaxPending /\ pending' = Append(pending, cb'.state)
      BY <1>3, <2>2 DEF Notify
    <3>2. /\ pending' \in Seq(States) /\ pending' # <<>>
          /\ Len(pending') = Len(pending) + 1
          /\ pending'[Len(pending) + 1] = cb'.state
      BY <1>1, <1>2, <3>1, AppendProperties
    <3>3. LastKnown' = cb'.state
      BY <3>2 DEF LastKnown
    <3> QED
      BY <1>1, <1>3, <3>1, <3>2, <3>3 DEF StoredInOrder
  <2> QED
    BY <2>1, <2>2
<1>4. ASSUME UNCHANGED vars, pending' = pending, inOrder' = inOrder,
             CurrentState' = CurrentState
      PROVE  Notify
  BY <1>4 DEF vars, Notify
<1>5. ASSUME NEW c \in Callers,
             AAllow(c) \/ ASuccess(c) \/ AFailure(c) \/ AReset \/ BaseStep
      PROVE  Notify /\ inOrder' = inOrder /\ CurrentState' = CurrentState
  BY <1>5 DEF AAllow, ASuccess, AFailure, AReset, BaseStep, metricVars
<1>6. ASSUME NEW c \in Callers,
             \/ CountFailure(c) \/ UpdateRate(c)
             \/ ResetTickRequests \/ ResetTickFailures
             \/ ReadMetrics \/ Adjust \/ StopLoop \/ UNCHANGED avars
      PROVE  Notify /\ inOrder' = inOrder /\ CurrentState' = CurrentState
  <2>1. UNCHANGED <<vars, pending, inOrder, CurrentState>>
    BY <1>6
       DEF CountFailure, UpdateRate, ResetTickRequests, ResetTickFailures, ReadMetrics,
           Adjust, StopLoop, metricVars, avars
  <2> QED
    BY <1>4, <2>1
<1>7. ASSUME AReset \/ BaseStep
      PROVE  Notify /\ inOrder' = inOrder /\ CurrentState' = CurrentState
  BY <1>7 DEF AReset, BaseStep, metricVars
<1>8. ASSUME \/ ResetTickRequests \/ ResetTickFailures
             \/ ReadMetrics \/ Adjust \/ StopLoop \/ UNCHANGED avars
      PROVE  Notify /\ inOrder' = inOrder /\ CurrentState' = CurrentState
  <2>1. UNCHANGED <<vars, pending, inOrder, CurrentState>>
    BY <1>8
       DEF ResetTickRequests, ResetTickFailures, ReadMetrics,
           Adjust, StopLoop, metricVars, avars
  <2> QED
    BY <1>4, <2>1
<1>9. ASSUME ResetMetrics
      PROVE  /\ StoredInOrder' /\ CurrentState' \in States
             /\ pending' \in Seq(States) /\ Len(pending') <= MaxPending
             /\ inOrder' \in BOOLEAN
  <2>1. /\ CurrentState' = "Closed" /\ pending' = pending /\ cb' = cb
        /\ inOrder' = (inOrder /\ pending = <<>> /\ cb.state = "Closed")
    BY <1>9 DEF ResetMetrics, vars
  <2>2. StoredInOrder'
    BY <2>1 DEF StoredInOrder, LastKnown
  <2>3. inOrder' \in BOOLEAN
    BY <2>1
  <2> QED
    BY <1>1, <2>1, <2>2, <2>3 DEF States
<1>10. ASSUME RunListener
       PROVE  /\ StoredInOrder' /\ CurrentState' \in States
              /\ pending' \in Seq(States) /\ Len(pending') <= MaxPending
              /\ inOrder' \in BOOLEAN
  <2>1. PICK n \in DOMAIN pending :
          /\ pending' = RemoveAt(pending, n) /\ CurrentState' = pending[n]
          /\ inOrder' = (inOrder /\ n = 1 /\ ~resetting)
    BY <1>10 DEF RunListener, Listener
  <2>2. cb' = cb
    BY <1>10 DEF RunListener, vars
  <2>3. n \in 1 .. Len(pending) /\ pending[n] \in States
    BY <1>1, LenProperties, ElementOfSeq
  <2>4. /\ pending' \in Seq(States) /\ Len(pending') = Len(pending) - 1
        /\ n = 1 /\ Len(pending) > 1
             => pending'[Len(pending) - 1] = pending[Len(pending)]
    BY <1>1, <2>1, <2>3, RemoveAtFacts
  <2>5. inOrder' \in BOOLEAN
    BY <2>1
  <2>6. ASSUME inOrder, n = 1 PROVE LastKnown' = cb'.state
    <3>1. pending # <<>> /\ Len(pending) > 0
      BY <1>1, <2>3, EmptySeq
    <3>2. pending[Len(pending)] = cb.state
      BY <1>1, <2>6, <3>1 DEF LastKnown
    <3>3. CASE Len(pending) = 1
      <4>1. Len(pending') = 0
        BY <2>4, <3>3
      <4>2. pending' = <<>>
        BY <2>4, <4>1, EmptySeq
      <4> QED
        BY <2>1, <2>2, <2>6, <3>2, <3>3, <4>2 DEF LastKnown
    <3>4. CASE Len(pending) > 1
      <4>1. Len(pending') > 0 /\ pending'[Len(pending')] = cb.state
        BY <1>1, <2>4, <2>6, <3>2, <3>4
      <4>2. pending' # <<>>
        BY <4>1, EmptySeq
      <4> QED
        BY <2>2, <4>1, <4>2 DEF LastKnown
    <3>5. Len(pending) = 1 \/ Len(pending) > 1
      <4>1. Len(pending) \in Nat
        BY <1>1
      <4> QED
        BY <3>1, <4>1
    <3> QED
      BY <3>3, <3>4, <3>5
  <2>7. StoredInOrder'
    BY <2>1, <2>6 DEF StoredInOrder
  <2> QED
    BY <1>1, <2>1, <2>3, <2>4, <2>5, <2>7
<1> QED
  BY <1>3, <1>5, <1>6, <1>7, <1>8, <1>9, <1>10 DEF ANext

-----------------------------------------------------------------------------
(* The adapted parameters *)

(* Whatever the rate and the response times, what the loop stores is       *)
(* within the limits of AdaptiveOptions.                                   *)
LEMMA AdaptedBounds ==
    ASSUME read \in [rate : Rates, threshold : Nat, timeout : Nat], NEW avg
    PROVE  /\ NewThreshold \in MinThreshold .. MaxThreshold
           /\ NewTimeout(avg) \in MinTimeout .. MaxTimeout
<1>1. ASSUME NEW n \in Int, NEW lo \in Nat, NEW hi \in Nat, lo <= hi
      PROVE  Bounded(n, lo, hi) \in lo .. hi
  BY <1>1 DEF Bounded
<1>2. /\ MinThreshold \in Nat /\ MaxThreshold \in Nat /\ MinThreshold <= MaxThreshold
      /\ MinTimeout \in Nat /\ MaxTimeout \in Nat /\ MinTimeout <= MaxTimeout
      /\ IncreaseRate \in Nat /\ DecreaseRate \in Nat
  BY AdaptiveAssumption
<1>3. read.threshold \in Nat /\ read.timeout \in Nat
  OBVIOUS
<1>4. /\ (read.threshold * IncreaseRate) \div 100 \in Int
      /\ (read.threshold * DecreaseRate) \div 100 \in Int
  <2>1. read.threshold * IncreaseRate \in Nat /\ read.threshold * DecreaseRate \in Nat
    BY <1>2, <1>3
  <2> QED
    BY <2>1
<1>5. (read.timeout * 11) \div 10 \in Int /\ (read.timeout * 9) \div 10 \in Int
  BY <1>3
<1>6. NewThreshold \in MinThreshold .. MaxThreshold
  <2> DEFINE t == IF RateHigh THEN (read.threshold * IncreaseRate) \div 100
                  ELSE IF RateLow THEN (read.threshold * DecreaseRate) \div 100
                  ELSE read.threshold
  <2>1. t \in Int
    BY <1>3, <1>4
  <2>2. NewThreshold = Bounded(t, MinThreshold, MaxThreshold)
    BY DEF NewThreshold
  <2> HIDE DEF t
  <2> QED
    BY <1>1, <1>2, <2>1, <2>2
<1>7. NewTimeout(avg) \in MinTimeout .. MaxTimeout
  <2> DEFINE t == CASE avg = "slow" -> (read.timeout * 11) \div 10
                    [] avg = "fast" -> (read.timeout * 9) \div 10
                    [] OTHER -> read.timeout
  <2>1. t \in Int
    BY <1>3, <1>5
  <2>2. NewTimeout(avg) = Bounded(t, MinTimeout, MaxTimeout)
    BY DEF NewTimeout
  <2> HIDE DEF t
  <2> QED
    BY <1>1, <1>2, <2>1, <2>2
<1> QED
  BY <1>6, <1>7

(* Only Adjust stores a threshold or a timeout. *)
LEMMA AdaptedStep ==
    ASSUME AInv, [ANext]_avars
    PROVE  AdaptedInRange' /\ CurrentThreshold' \in Nat /\ CurrentTimeout' \in Nat
<1>1. /\ CurrentThreshold \in Nat /\ CurrentTimeout \in Nat
      /\ read \in [rate : Rates, threshold : Nat, timeout : Nat]
      /\ AdaptedInRange
  BY DEF AInv, ATypeOK
<1>2. CASE CurrentThreshold' = CurrentThreshold /\ CurrentTimeout' = CurrentTimeout
  BY <1>1, <1>2 DEF AdaptedInRange
<1>3. CASE Adjust
  <2>1. \/ /\ CurrentThreshold' = NewThreshold
           /\ \E avg \in {"slow", "normal", "fast"} : CurrentTimeout' = NewTimeout(avg)
        \/ CurrentThreshold' = CurrentThreshold /\ CurrentTimeout' = CurrentTimeout
    BY <1>3 DEF Adjust
  <2>2. ASSUME CurrentThreshold' \in MinThreshold .. MaxThreshold,
               CurrentTimeout' \in MinTimeout .. MaxTimeout
        PROVE  AdaptedInRange' /\ CurrentThreshold' \in Nat /\ CurrentTimeout' \in Nat
    BY <2>2, AdaptiveAssumption DEF AdaptedInRange
  <2> QED
    BY <1>1, <1>2, <2>1, <2>2, AdaptedBounds
<1>4. CASE ~Adjust
  <2>1. ASSUME NEW c \in Callers,
               AAllow(c) \/ ASuccess(c) \/ AFailure(c) \/ CountFailure(c) \/ UpdateRate(c)
        PROVE  CurrentThreshold' = CurrentThreshold /\ CurrentTimeout' = CurrentTimeout
    BY <2>1 DEF AAllow, ASuccess, AFailure, CountFailure, UpdateRate, metricVars
  <2>2. ASSUME \/ AReset \/ ResetMetrics \/ BaseStep \/ RunListener
               \/ ResetTickRequests \/ ResetTickFailures \/ ReadMetrics \/ StopLoop
               \/ UNCHANGED avars
        PROVE  CurrentThreshold' = CurrentThreshold /\ CurrentTimeout' = CurrentTimeout
    BY <2>2
       DEF AReset, ResetMetrics, BaseStep, RunListener, ResetTickRequests,
           ResetTickFailures, ReadMetrics, StopLoop, metricVars, avars
  <2> QED
    BY <1>2, <1>4, <2>1, <2>2 DEF ANext
<1> QED
  BY <1>3, <1>4

-----------------------------------------------------------------------------
(* The rest of the types: what is read and computed is made of counts.     *)
LEMMA ReadStep ==
    ASSUME AInv, [ANext]_avars
    PROVE  /\ FailureRate' \in Rates
           /\ read' \in [rate : Rates, threshold : Nat, timeout : Nat]
           /\ report' \in [Callers -> {"none", "count", "rate"}]
           /\ resetting' \in BOOLEAN
           /\ loop' \in {"tick", "adjust", "zero", "stopped"}
<1>1. /\ FailureRate \in Rates
      /\ read \in [rate : Rates, threshold : Nat, timeout : Nat]
      /\ report \in [Callers -> {"none", "count", "rate"}]
      /\ resetting \in BOOLEAN
      /\ loop \in {"tick", "adjust", "zero", "stopped"}
      /\ RequestCount5m \in 0 .. CountCap
      /\ FailureCount5m \in 0 .. 2 * CountCap + Cardinality(Callers)
      /\ CurrentThreshold \in Nat /\ CurrentTimeout \in Nat
  BY DEF AInv, ATypeOK
<1>2. FailureRate' \in Rates
  <2>1. CASE FailureRate' = FailureRate
    BY <1>1, <2>1
  <2>2. CASE FailureRate' = [f |-> FailureCount5m, r |-> RequestCount5m]
    BY <1>1, <2>2 DEF Rates
  <2>3. ASSUME NEW c \in Callers,
               AAllow(c) \/ ASuccess(c) \/ AFailure(c) \/ CountFailure(c) \/ UpdateRate(c)
        PROVE  \/ FailureRate' = FailureRate
               \/ FailureRate' = [f |-> FailureCount5m, r |-> RequestCount5m]
    BY <2>3 DEF AAllow, ASuccess, AFailure, CountFailure, UpdateRate, metricVars
  <2>4. ASSUME \/ AReset \/ ResetMetrics \/ BaseStep \/ RunListener
               \/ ResetTickRequests \/ ResetTickFailures \/ ReadMetrics \/ Adjust
               \/ StopLoop \/ UNCHANGED avars
        PROVE  FailureRate' = FailureRate
    BY <2>4
       DEF AReset, ResetMetrics, BaseStep, RunListener, ResetTickRequests,
           ResetTickFailures, ReadMetrics, Adjust, StopLoop, metricVars, avars
  <2> QED
    BY <2>1, <2>2, <2>3, <2>4 DEF ANext
<1>3. read' \in [rate : Rates, threshold : Nat, timeout : Nat]
  <2>1. CASE read' = read
    BY <1>1, <2>1
  <2>2. CASE read' = NothingRead
    <3>1. [f |-> 0, r |-> 0] \in Rates
      BY CallersFinite, AdaptiveAssumption DEF Rates
    <3> QED
      BY <2>2, <3>1 DEF NothingRead
  <2>3. CASE read' = [rate |-> FailureRate, threshold |-> CurrentThreshold,
                      timeout |-> CurrentTimeout]
    BY <1>1, <2>3
  <2>4. ASSUME NEW c \in Callers,
               AAllow(c) \/ ASuccess(c) \/ AFailure(c) \/ CountFailure(c) \/ UpdateRate(c)
        PROVE  read' = read
    BY <2>4 DEF AAllow, ASuccess, AFailure, CountFailure, UpdateRate
  <2>5. ASSUME \/ AReset \/ ResetMetrics \/ BaseStep \/ RunListener
               \/ ResetTickRequests \/ ResetTickFailures
               \/ StopLoop \/ UNCHANGED avars
        PROVE  read' = read
    BY <2>5
       DEF AReset, ResetMetrics, BaseStep, RunListener, ResetTickRequests,
           ResetTickFailures, StopLoop, avars
  <2>6. ASSUME ReadMetrics \/ Adjust
        PROVE  \/ read' = NothingRead
               \/ read' = [rate |-> FailureRate, threshold |-> CurrentThreshold,
                           timeout |-> CurrentTimeout]
    BY <2>6 DEF ReadMetrics, Adjust
  <2> QED
    BY <2>1, <2>2, <2>3, <2>4, <2>5, <2>6 DEF ANext
<1>4. report' \in [Callers -> {"none", "count", "rate"}]
  <2>1. ASSUME NEW c \in Callers,
               AAllow(c) \/ ASuccess(c) \/ AFailure(c) \/ CountFailure(c) \/ UpdateRate(c)
        PROVE  report' \in [Callers -> {"none", "count", "rate"}]
    BY <1>1, <2>1 DEF AAllow, ASuccess, AFailure, CountFailure, UpdateRate
  <2>2. ASSUME \/ AReset \/ ResetMetrics \/ BaseStep \/ RunListener
               \/ ResetTickRequests \/ ResetTickFailures \/ ReadMetrics \/ Adjust
               \/ StopLoop \/ UNCHANGED avars
        PROVE  report' = report
    BY <2>2
       DEF AReset, ResetMetrics, BaseStep, RunListener, ResetTickRequests,
           ResetTickFailures, ReadMetrics, Adjust, StopLoop, avars
  <2> QED
    BY <1>1, <2>1, <2>2 DEF ANext
<1>5. resetting' \in BOOLEAN /\ loop' \in {"tick", "adjust", "zero", "stopped"}
  <2>1. ASSUME NEW c \in Callers,
               AAllow(c) \/ ASuccess(c) \/ AFailure(c) \/ CountFailure(c) \/ UpdateRate(c)
        PROVE  resetting' = resetting /\ loop' = loop
    BY <2>1 DEF AAllow, ASuccess, AFailure, CountFailure, UpdateRate
  <2>2. ASSUME AReset \/ ResetMetrics
        PROVE  resetting' \in BOOLEAN /\ loop' = loop
    BY <2>2 DEF AReset, ResetMetrics
  <2>3. ASSUME \/ BaseStep \/ RunListener \/ ResetTickRequests \/ ResetTickFailures
               \/ ReadMetrics \/ Adjust \/ StopLoop \/ UNCHANGED avars
        PROVE  resetting' = resetting
    BY <2>3
       DEF BaseStep, RunListener, ResetTickRequests, ResetTickFailures, ReadMetrics,
           Adjust, StopLoop, avars
  <2>4. ASSUME \/ BaseStep \/ RunListener \/ ResetTickRequests \/ ResetTickFailures
               \/ ReadMetrics \/ Adjust \/ StopLoop \/ UNCHANGED avars
        PROVE  loop' \in {"tick", "adjust", "zero", "stopped"}
    BY <1>1, <2>4
       DEF BaseStep, RunListener, ResetTickRequests, ResetTickFailures, ReadMetrics,
           Adjust, StopLoop, avars
  <2> QED
    BY <1>1, <2>1, <2>2, <2>3, <2>4 DEF ANext
<1> QED
  BY <1>2, <1>3, <1>4, <1>5

(* A new adaptive breaker: nothing counted, nothing under way. *)
LEMMA AInitInv == AInit => AInv
<1> SUFFICES ASSUME AInit PROVE AInv
  OBVIOUS
<1>1. Inv
  BY InitInv DEF AInit
<1>2. Running = {} /\ Outstanding = {} /\ ReportsWhenDone
  BY DEF AInit, Init, Running, Outstanding, ReportsWhenDone
<1>3. /\ Cardinality({}) = 0 /\ Cardinality(Callers) \in Nat
      /\ CountCap \in Nat /\ CountCap > 0
  BY CallersFinite, FS_EmptySet, AdaptiveAssumption
<1>4. PICK o \in Options : cb = New(o)
  BY DEF AInit, Init
<1>5. cb.state = "Closed" /\ cb.opts = o /\ o.Threshold \in Nat
  <2>1. o \in OptionsType
    BY OptionsAssumption
  <2>2. o.Threshold \in UInt
    BY <2>1 DEF OptionsType
  <2> QED
    BY <1>4, <2>2 DEF New, UInt
<1>6. FailuresWithinRequests
  BY <1>2, <1>3 DEF AInit, FailuresWithinRequests
<1>7. StoredInOrder
  BY <1>5 DEF AInit, StoredInOrder, LastKnown
<1>8. AdaptedInRange
  BY <1>5 DEF AInit, AdaptedInRange
<1>9. ATypeOK
  <2>1. pending \in Seq(States) /\ Len(pending) <= MaxPending
    BY EmptySeq, AdaptiveAssumption DEF AInit
  <2>2. [f |-> 0, r |-> 0] \in Rates
    BY <1>3 DEF Rates
  <2>3. FailureRate \in Rates
    BY <1>3 DEF AInit, Rates
  <2>4. read \in [rate : Rates, threshold : Nat, timeout : Nat]
    BY <2>2 DEF AInit, NothingRead
  <2>5. /\ CurrentState \in States /\ CurrentThreshold \in Nat /\ CurrentTimeout \in Nat
        /\ RequestCount5m \in 0 .. CountCap
        /\ FailureCount5m \in 0 .. 2 * CountCap + Cardinality(Callers)
    BY <1>3, <1>5 DEF AInit, States
  <2>6. /\ report \in [Callers -> {"none", "count", "rate"}]
        /\ resetting \in BOOLEAN /\ inOrder \in BOOLEAN
        /\ loop \in {"tick", "adjust", "zero", "stopped"}
    BY DEF AInit
  <2> QED
    BY <1>1, <2>1, <2>3, <2>4, <2>5, <2>6 DEF ATypeOK, Inv
<1> QED
  BY <1>1, <1>2, <1>6, <1>7, <1>8, <1>9 DEF AInv

(* Every step of the adaptive breaker keeps the invariant. *)
LEMMA ANextInv == AInv /\ [ANext]_avars => AInv'
<1> SUFFICES ASSUME AInv, [ANext]_avars PROVE AInv'
  OBVIOUS
<1>1. Inv'
  BY BaseStepOrNone, NextInv DEF AInv
<1>2. cb' \in CircuitBreakerType /\ TypeOK'
  BY <1>1 DEF Inv, TypeOK
<1>3. /\ FailuresWithinRequests' /\ ReportsWhenDone'
      /\ FailureCount5m' \in Nat /\ RequestCount5m' \in 0 .. CountCap
  BY CountersStep
<1>4. /\ StoredInOrder' /\ CurrentState' \in States
      /\ pending' \in Seq(States) /\ Len(pending') <= MaxPending
      /\ inOrder' \in BOOLEAN
  BY <1>2, ListenerStep
<1>5. AdaptedInRange' /\ CurrentThreshold' \in Nat /\ CurrentTimeout' \in Nat
  BY AdaptedStep
<1>6. FailureCount5m' \in 0 .. 2 * CountCap + Cardinality(Callers)
  <2>1. Outstanding' \in SUBSET Callers
    BY DEF Outstanding
  <2>2. Cardinality(Outstanding') \in Nat /\ Cardinality(Callers) \in Nat
    BY <2>1, CallersFinite
  <2>3. FailureCount5m' + Cardinality(Outstanding')
          <= RequestCount5m' + Cardinality(Callers) + (IF loop' = "zero" THEN CountCap ELSE 0)
    BY <1>3 DEF FailuresWithinRequests
  <2>4. CountCap \in Nat
    BY AdaptiveAssumption
  <2> QED
    BY <1>3, <2>2, <2>3, <2>4
<1>7. ATypeOK'
  BY <1>2, <1>3, <1>4, <1>5, <1>6, ReadStep DEF ATypeOK
<1> QED
  BY <1>1, <1>3, <1>4, <1>5, <1>7 DEF AInv

(* The adaptive breaker implements the circuit breaker it embeds: nothing  *)
(* AdaptiveCircuitBreaker adds (metrics, listeners, the adjustment loop)   *)
(* makes the base breaker take a step of its own, so every theorem about   *)
(* the breaker holds of the adaptive one.                                  *)
THEOREM AdaptiveIsBreaker == ASpec => Spec
<1>1. AInit => Init
  BY DEF AInit
<1> QED
  BY <1>1, BaseStepOrNone, PTL DEF ASpec, Spec

(* The metrics of the adaptive breaker have their types, show the state of *)
(* the breaker once listeners that ran in order are done, and the adapted  *)
(* threshold and timeout stay within their limits.                         *)
THEOREM AdaptiveMetrics == ASpec => []MetricsRight
<1>1. AInv => MetricsRight
  BY DEF AInv, MetricsRight, MetricsCatchUp, StoredInOrder, LastKnown
<1> QED
  BY <1>1, AInitInv, ANextInv, PTL DEF ASpec
=============================================================================
