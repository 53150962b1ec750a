----------------------------- MODULE PoolProofs -----------------------------
(***************************************************************************)
(* Proofs about ConnPool and AdaptivePool for any number of callers,       *)
(* connections and waits, any limits and any scale factors: the counters are*)
(* exact, a connection has one user and stays open while it is lent, none  *)
(* leaks, and the load monitor keeps the pool within MaxConnections.  The  *)
(* lock is no part of the argument: each critical section keeps the        *)
(* invariant by itself, also when p.cond.Wait has unlocked p.mu under it.  *)
(***************************************************************************)
EXTENDS AdaptivePool, TLAPS, FiniteSetTheorems, SequenceTheorems

-----------------------------------------------------------------------------
(* Lists of connections.                                                   *)

(* A list without its last element (getIdleConn).                          *)
LEMMA FrontOf ==
    ASSUME NEW S, NEW s \in Seq(S), s # <<>>
    PROVE  /\ Front(s) \in Seq(S) /\ Len(Front(s)) = Len(s) - 1 /\ Len(s) \in Nat \ {0}
           /\ \A i \in 1 .. Len(s) - 1 : Front(s)[i] = s[i]
           /\ Last(s) = s[Len(s)] /\ s[Len(s)] \in S
<1>1. Len(s) \in Nat \ {0} /\ \A i \in 1 .. Len(s) - 1 : s[i] \in S
  BY EmptySeq, LenProperties
<1>2. /\ SubSeq(s, 1, Len(s) - 1) \in Seq(S)
      /\ Len(SubSeq(s, 1, Len(s) - 1)) = IF 1 <= Len(s) - 1 THEN Len(s) - 1 - 1 + 1 ELSE 0
      /\ \A i \in 1 .. Len(s) - 1 - 1 + 1 : SubSeq(s, 1, Len(s) - 1)[i] = s[1 + i - 1]
  BY <1>1, SubSeqProperties
<1>3. Len(s) - 1 - 1 + 1 = Len(s) - 1 /\ \A i \in 1 .. Len(s) - 1 : 1 + i - 1 = i
  BY <1>1
<1>4. s[Len(s)] \in S /\ (1 <= Len(s) - 1 \/ Len(s) - 1 = 0)
  <2> DEFINE N == Len(s)
  <2> HIDE DEF N
  <2>0. N \in Nat /\ N # 0
    BY <1>1 DEF N
  <2>1. N \in 1 .. N /\ (1 <= N - 1 \/ N - 1 = 0)
    BY <2>0
  <2> USE DEF N
  <2> QED
    BY <2>1, ElementOfSeq
<1>5. Front(s) = SubSeq(s, 1, Len(s) - 1) /\ Last(s) = s[Len(s)]
  BY DEF Front, Last
<1>6. Len(SubSeq(s, 1, Len(s) - 1)) = Len(s) - 1
  BY <1>1, <1>2, <1>3, <1>4
<1> QED
  BY <1>1, <1>2, <1>3, <1>4, <1>5, <1>6

(* The places of a finite set of naturals: each element has one, from 1 to *)
(* the size of the set, and each of these is an element's.                 *)
LEMMA PlacesCount ==
    ASSUME NEW K \in SUBSET Nat, IsFiniteSet(K), NEW f,
           f = [i \in K |-> Cardinality({j \in K : j <= i})]
    PROVE  /\ \A i \in K : f[i] \in 1 .. Cardinality(K)
           /\ \A i, j \in K : f[i] = f[j] => i = j
           /\ \A n \in 1 .. Cardinality(K) : \E i \in K : f[i] = n
<1>0. Cardinality(K) \in Nat
  BY FS_CardinalityType
<1>1. ASSUME NEW i \in K PROVE f[i] \in 1 .. Cardinality(K)
  <2>1. {j \in K : j <= i} \in SUBSET K
    OBVIOUS
  <2>2. IsFiniteSet({j \in K : j <= i}) /\ Cardinality({j \in K : j <= i}) <= Cardinality(K)
    BY <2>1, FS_Subset
  <2>3. Cardinality({j \in K : j <= i}) \in Nat
    BY <2>2, FS_CardinalityType
  <2>4. {j \in K : j <= i} # {}
    OBVIOUS
  <2>5. Cardinality({j \in K : j <= i}) # 0
    BY <2>2, <2>4, FS_EmptySet
  <2> QED
    BY <1>0, <2>2, <2>3, <2>5
<1>2. ASSUME NEW i \in K, NEW j \in K, i < j PROVE f[i] < f[j]
  <2>1. {h \in K : h <= j} \in SUBSET K
    OBVIOUS
  <2>2. IsFiniteSet({h \in K : h <= j})
    BY <2>1, FS_Subset
  <2>3. {h \in K : h <= i} \in SUBSET {h \in K : h <= j} /\ {h \in K : h <= i} # {h \in K : h <= j}
    <3>1. i \in Nat /\ j \in Nat /\ j \in {h \in K : h <= j} /\ j \notin {h \in K : h <= i}
      BY <1>2
    <3>2. ASSUME NEW h \in K, h <= i PROVE h <= j
      BY <1>2, <3>1, <3>2
    <3> QED
      BY <3>1, <3>2
  <2>4. Cardinality({h \in K : h <= i}) <= Cardinality({h \in K : h <= j})
        /\ Cardinality({h \in K : h <= i}) # Cardinality({h \in K : h <= j})
    BY <2>2, <2>3, FS_Subset
  <2>5. f[i] \in Nat /\ f[j] \in Nat
    BY <1>1, <1>0
  <2> QED
    BY <2>4, <2>5
<1>3. ASSUME NEW i \in K, NEW j \in K, f[i] = f[j] PROVE i = j
  BY <1>0, <1>1, <1>2, <1>3
<1>4. f \in Injection(K, 1 .. Cardinality(K))
  BY <1>1, <1>3 DEF Injection, IsInjective
<1>5. IsFiniteSet(1 .. Cardinality(K)) /\ Cardinality(1 .. Cardinality(K)) = Cardinality(K)
  BY <1>0, FS_Interval
<1>6. f \in Surjection(K, 1 .. Cardinality(K))
  BY <1>4, <1>5, FS_Injection
<1>7. \A n \in 1 .. Cardinality(K) : \E i \in K : f[i] = n
  BY <1>6 DEF Surjection
<1> QED
  BY <1>1, <1>3, <1>7

(* What the cleaner and the health checker leave of the idle list: what    *)
(* is not taken out, each once, and no more than there was.                *)
LEMMA WithoutKeeps ==
    ASSUME idle \in Seq(Conns), NEW gone
    PROVE  /\ Without(gone) \in Seq(Conns) /\ Len(Without(gone)) <= Len(idle) /\ Len(Without(gone)) \in Nat
           /\ \A n \in 1 .. Len(Without(gone)) : \E i \in 1 .. Len(idle) :
                idle[i] \notin gone /\ Without(gone)[n] = idle[i]
           /\ \A i \in 1 .. Len(idle) : idle[i] \notin gone =>
                \E n \in 1 .. Len(Without(gone)) : Without(gone)[n] = idle[i]
           /\ (\A i, j \in 1 .. Len(idle) : i # j => idle[i] # idle[j]) =>
                \A n, m \in 1 .. Len(Without(gone)) : n # m => Without(gone)[n] # Without(gone)[m]
<1> DEFINE K == {i \in DOMAIN idle : idle[i] \notin gone}
           f == [i \in K |-> Cardinality({j \in K : j <= i})]
           at == [n \in 1 .. Cardinality(K) |-> CHOOSE i \in K : f[i] = n]
           r == [n \in 1 .. Cardinality(K) |-> idle[CHOOSE i \in K : Cardinality({j \in K : j <= i}) = n]]
<1>0. Len(idle) \in Nat /\ DOMAIN idle = 1 .. Len(idle) /\ \A i \in 1 .. Len(idle) : idle[i] \in Conns
  BY LenProperties
<1>1. K \in SUBSET (1 .. Len(idle)) /\ K \in SUBSET Nat
  BY <1>0
<1>2. IsFiniteSet(1 .. Len(idle)) /\ Cardinality(1 .. Len(idle)) = Len(idle)
  <2> DEFINE N == Len(idle)
  <2> HIDE DEF N
  <2>1. N \in Int /\ N >= 0
    BY <1>0 DEF N
  <2>2. IsFiniteSet(1 .. N) /\ Cardinality(1 .. N) = IF 1 > N THEN 0 ELSE N - 1 + 1
    BY <2>1, FS_Interval
  <2> QED
    BY <2>1, <2>2 DEF N
<1>3. IsFiniteSet(K) /\ Cardinality(K) <= Len(idle)
  BY <1>1, <1>2, FS_Subset
<1>4. Cardinality(K) \in Nat
  BY <1>3, FS_CardinalityType
<1>5. /\ \A i \in K : f[i] \in 1 .. Cardinality(K)
      /\ \A i, j \in K : f[i] = f[j] => i = j
      /\ \A n \in 1 .. Cardinality(K) : \E i \in K : f[i] = n
  <2> HIDE DEF K
  <2>1. f = [i \in K |-> Cardinality({j \in K : j <= i})]
    OBVIOUS
  <2> HIDE DEF f
  <2> QED
    BY <1>1, <1>3, <2>1, PlacesCount
<1>6. ASSUME NEW n \in 1 .. Cardinality(K) PROVE at[n] \in K /\ f[at[n]] = n
  <2> HIDE DEF K, f
  <2> QED
    BY <1>5
<1>7. ASSUME NEW i \in K PROVE f[i] \in 1 .. Cardinality(K) /\ at[f[i]] = i
  <2> HIDE DEF K, f, at
  <2> QED
    BY <1>5, <1>6
<1>8. Without(gone) = r
  BY DEF Without
<1>9. ASSUME NEW n \in 1 .. Cardinality(K) PROVE r[n] = idle[at[n]]
  <2> HIDE DEF K
  <2>1. \A i \in K : f[i] = Cardinality({j \in K : j <= i})
    OBVIOUS
  <2>2. (CHOOSE i \in K : f[i] = n) = (CHOOSE i \in K : Cardinality({j \in K : j <= i}) = n)
    BY <2>1
  <2> QED
    BY <2>2
<1>10. r \in [1 .. Cardinality(K) -> Conns]
  <2>1. \A n \in 1 .. Cardinality(K) : r[n] \in Conns
    <3> HIDE DEF K, f, at, r
    <3> QED
      BY <1>0, <1>1, <1>6, <1>9
  <2> QED
    BY <2>1
<1>11. r \in Seq(Conns) /\ Len(r) = Cardinality(K)
  <2> HIDE DEF r, K
  <2>1. r \in Seq(Conns)
    BY <1>4, <1>10, IsASeq
  <2> QED
    BY <2>1, <1>4, <1>10, LenProperties
<1>12. \A n \in 1 .. Cardinality(K) : at[n] \in 1 .. Len(idle) /\ idle[at[n]] \notin gone
  BY <1>0, <1>6
<1>13. \A i \in 1 .. Len(idle) : idle[i] \notin gone => i \in K
  BY <1>0
<1> HIDE DEF K, f, at, r
<1>14. \A n, m \in 1 .. Cardinality(K) : n # m => at[n] # at[m]
  BY <1>6
<1>15. \A i \in 1 .. Len(idle) : idle[i] \notin gone => \E n \in 1 .. Cardinality(K) : r[n] = idle[i]
  BY <1>7, <1>9, <1>13
<1>16. (\A i, j \in 1 .. Len(idle) : i # j => idle[i] # idle[j]) =>
         \A n, m \in 1 .. Cardinality(K) : n # m => r[n] # r[m]
  BY <1>9, <1>12, <1>14
<1>17. \A n \in 1 .. Cardinality(K) : \E i \in 1 .. Len(idle) : idle[i] \notin gone /\ r[n] = idle[i]
  BY <1>9, <1>12
<1> QED
  BY <1>3, <1>4, <1>8, <1>11, <1>15, <1>16, <1>17

-----------------------------------------------------------------------------
(* The inductive invariant                                                 *)

IsHolding(c) == pc[c] \in {"unlock-using", "using"}
InWait == {"unlock-wait", "waiting", "gaveup", "retry"}
Places == Unlocking \cup {"out", "creating", "failed", "using", "waiting", "gaveup", "retry"}
Counting == {"unlock-create", "creating", "failed", "unlock-using", "using"}
Lent == Creating \cup Holding
Queued == {c \in Callers : pc[c] \in InWait}

(* Both counters.  Put on a closed pool keeps the slot, so from then on    *)
(* p.active only stays at or above the callers that count.                 *)
ActiveCounted ==
    /\ active >= Cardinality(Lent)
    /\ ~closed => active = Cardinality(Lent)

WaitCounted == waitCount = Cardinality(Queued)

(* UsedByOne and NoLeak, with what they rest on: the idle connections are  *)
(* open too.                                                               *)
LendInv ==
    /\ \A c \in Callers : IsHolding(c) => conn[c] \in open
    /\ \A c, d \in Callers : c # d /\ IsHolding(c) /\ IsHolding(d) => conn[c] # conn[d]
    /\ \A c \in Callers : \A i \in 1 .. Len(idle) : IsHolding(c) => conn[c] # idle[i]
    /\ \A i, j \in 1 .. Len(idle) : i # j => idle[i] # idle[j]
    /\ \A i \in 1 .. Len(idle) : idle[i] \in open
    /\ ~Wait => \A k \in open : \/ \E c \in Callers : IsHolding(c) /\ conn[c] = k
                                \/ \E i \in 1 .. Len(idle) : idle[i] = k

(* Without Options.Wait no caller is ever on the waiting path, so PutSignal *)
(* cannot drop a connection.                                               *)
NobodyWaits == ~Wait => \A c \in Callers : pc[c] \notin InWait

ConnPoolInv == TypeOK /\ ActiveCounted /\ WaitCounted /\ LendInv /\ NobodyWaits

-----------------------------------------------------------------------------
(* What the critical sections do to the connections                        *)

(* A section that touches neither the connections nor who holds one.       *)
LEMMA LendKept ==
    ASSUME LendInv, UNCHANGED <<idle, open, conn, Wait>>,
           \A d \in Callers : (IsHolding(d))' <=> IsHolding(d)
    PROVE  LendInv'
BY DEF LendInv

(* getIdleConn hands out the last idle connection.                         *)
LEMMA LendTake ==
    ASSUME TypeOK, LendInv, NEW c \in Callers, ~IsHolding(c), TakeIdle(c), Wait' = Wait
    PROVE  LendInv'
<1> DEFINE n == Len(idle)
<1>0. idle \in Seq(Conns) /\ idle # <<>> /\ conn \in [Callers -> Conns \cup {None}]
      /\ pc' = [pc EXCEPT ![c] = "unlock-using"] /\ DOMAIN pc = Callers
      /\ idle' = Front(idle) /\ conn' = [conn EXCEPT ![c] = Last(idle)] /\ open' = open
  BY DEF TypeOK, TakeIdle, IdleHit, Pop, Goto, connVars
<1>1. /\ Len(idle') = n - 1 /\ n \in Nat \ {0} /\ \A i \in 1 .. n - 1 : idle'[i] = idle[i]
      /\ conn'[c] = idle[n]
  BY <1>0, FrontOf
<1>2. \A d \in Callers : d # c => conn'[d] = conn[d] /\ ((IsHolding(d))' <=> IsHolding(d))
  BY <1>0 DEF IsHolding
<1>3. (IsHolding(c))'
  BY <1>0 DEF IsHolding
<1>4. \A i \in 1 .. n : i \in 1 .. n - 1 \/ i = n
  BY <1>1
<1>5. n \in 1 .. n /\ \A i \in 1 .. n - 1 : i \in 1 .. n /\ i # n
  BY <1>1
<1> HIDE DEF n
<1>6. LendInv => /\ \A d \in Callers : \A i \in 1 .. n : IsHolding(d) => conn[d] # idle[i]
                 /\ \A i, j \in 1 .. n : i # j => idle[i] # idle[j]
                 /\ \A i \in 1 .. n : idle[i] \in open
  BY DEF LendInv, n
<1>7. \A d \in Callers : (IsHolding(d))' => conn'[d] \in open'
  BY <1>0, <1>1, <1>2, <1>5, <1>6 DEF LendInv
<1>8. \A d, e \in Callers : d # e /\ (IsHolding(d))' /\ (IsHolding(e))' => conn'[d] # conn'[e]
  BY <1>1, <1>2, <1>5, <1>6 DEF LendInv
<1>9. \A d \in Callers : \A i \in 1 .. Len(idle') : (IsHolding(d))' => conn'[d] # idle'[i]
  BY <1>1, <1>2, <1>5, <1>6
<1>10. /\ \A i, j \in 1 .. Len(idle') : i # j => idle'[i] # idle'[j]
       /\ \A i \in 1 .. Len(idle') : idle'[i] \in open'
  BY <1>0, <1>1, <1>5, <1>6
<1>11. ASSUME ~Wait', NEW k \in open'
       PROVE  \/ \E d \in Callers : (IsHolding(d))' /\ conn'[d] = k
              \/ \E i \in 1 .. Len(idle') : idle'[i] = k
  <2>1. CASE \E d \in Callers : IsHolding(d) /\ conn[d] = k
    BY <1>2, <2>1
  <2>2. CASE \E i \in 1 .. n : idle[i] = k
    BY <1>1, <1>3, <1>4, <2>2
  <2> QED
    BY <1>0, <1>11, <2>1, <2>2 DEF LendInv, n
<1> QED
  BY <1>7, <1>8, <1>9, <1>10, <1>11 DEF LendInv

(* getIdleConn closes an expired connection and hands out none.            *)
LEMMA LendPop ==
    ASSUME TypeOK, LendInv, PopExpired, UNCHANGED <<conn, Wait>>,
           \A d \in Callers : (IsHolding(d))' <=> IsHolding(d)
    PROVE  LendInv'
<1>1. CASE idle = <<>>
  BY <1>1, LendKept DEF PopExpired, Pop
<1>2. CASE idle # <<>>
  <2> DEFINE n == Len(idle)
  <2>0. idle \in Seq(Conns) /\ idle' = Front(idle) /\ open' = open \ {Last(idle)}
    BY <1>2 DEF TypeOK, PopExpired, Pop
  <2>1. /\ Len(idle') = n - 1 /\ n \in Nat \ {0} /\ \A i \in 1 .. n - 1 : idle'[i] = idle[i]
        /\ open' = open \ {idle[n]}
    BY <1>2, <2>0, FrontOf
  <2>4. \A i \in 1 .. n : i \in 1 .. n - 1 \/ i = n
    BY <2>1
  <2>5. n \in 1 .. n /\ \A i \in 1 .. n - 1 : i \in 1 .. n /\ i # n
    BY <2>1
  <2> HIDE DEF n
  <2>6. /\ \A d \in Callers : \A i \in 1 .. n : IsHolding(d) => conn[d] # idle[i]
        /\ \A i, j \in 1 .. n : i # j => idle[i] # idle[j]
        /\ \A i \in 1 .. n : idle[i] \in open
    BY DEF LendInv, n
  <2>7. \A d \in Callers : (IsHolding(d))' => conn'[d] \in open'
    BY <2>1, <2>5, <2>6 DEF LendInv
  <2>8. \A d, e \in Callers : d # e /\ (IsHolding(d))' /\ (IsHolding(e))' => conn'[d] # conn'[e]
    BY DEF LendInv
  <2>9. \A d \in Callers : \A i \in 1 .. Len(idle') : (IsHolding(d))' => conn'[d] # idle'[i]
    BY <2>1, <2>5, <2>6
  <2>10. /\ \A i, j \in 1 .. Len(idle') : i # j => idle'[i] # idle'[j]
         /\ \A i \in 1 .. Len(idle') : idle'[i] \in open'
    BY <2>1, <2>5, <2>6
  <2>11. ASSUME ~Wait', NEW k \in open'
         PROVE  \/ \E d \in Callers : (IsHolding(d))' /\ conn'[d] = k
                \/ \E i \in 1 .. Len(idle') : idle'[i] = k
    <3>1. \/ \E d \in Callers : IsHolding(d) /\ conn[d] = k
          \/ \E i \in 1 .. n : idle[i] = k
      BY <2>1, <2>11 DEF LendInv, n
    <3> QED
      BY <2>1, <2>4, <3>1
  <2> QED
    BY <2>7, <2>8, <2>9, <2>10, <2>11 DEF LendInv
<1> QED
  BY <1>1, <1>2

(* p.factory makes a connection that nobody refers to.                     *)
LEMMA LendMade ==
    ASSUME TypeOK, LendInv, NEW c \in Callers, FactoryOK(c), Wait' = Wait
    PROVE  LendInv'
<1>1. PICK k \in Conns \ InUse : conn' = [conn EXCEPT ![c] = k] /\ open' = open \cup {k}
  BY DEF FactoryOK
<1>2. /\ idle' = idle /\ pc[c] = "creating" /\ pc' = [pc EXCEPT ![c] = "using"] /\ DOMAIN pc = Callers
      /\ DOMAIN conn = Callers
  BY DEF FactoryOK, Goto, poolVars, TypeOK
<1>3. k \notin open /\ \A d \in Callers : conn[d] # k
  BY <1>1 DEF InUse
<1>4. \A i \in 1 .. Len(idle) : idle[i] # k
  <2>1. DOMAIN idle = 1 .. Len(idle)
    BY DEF TypeOK
  <2> QED
    BY <1>1, <2>1 DEF InUse, ToSet
<1>5. /\ \A d \in Callers : d # c => conn'[d] = conn[d] /\ ((IsHolding(d))' <=> IsHolding(d))
      /\ conn'[c] = k /\ (IsHolding(c))' /\ ~IsHolding(c)
  BY <1>1, <1>2 DEF IsHolding
<1> QED
  BY <1>1, <1>2, <1>3, <1>4, <1>5 DEF LendInv

(* A caller gives its connection back and the pool closes it, or, on the   *)
(* waiting path, loses it.                                                 *)
LEMMA LendGone ==
    ASSUME LendInv, NEW c \in Callers, IsHolding(c), ~(IsHolding(c))', DOMAIN conn = Callers,
           conn' = [conn EXCEPT ![c] = None], UNCHANGED <<idle, Wait>>,
           \A d \in Callers : d # c => ((IsHolding(d))' <=> IsHolding(d)),
           open' = open \ {conn[c]} \/ (Wait /\ open' = open)
    PROVE  LendInv'
<1>1. \A d \in Callers : d # c => conn'[d] = conn[d]
  OBVIOUS
<1> QED
  BY <1>1 DEF LendInv

(* A caller gives its connection back and it is idle from then on.         *)
LEMMA LendIdle ==
    ASSUME TypeOK, LendInv, NEW c \in Callers, IsHolding(c), ~(IsHolding(c))',
           conn' = [conn EXCEPT ![c] = None], idle' = Append(idle, conn[c]), UNCHANGED <<open, Wait>>,
           \A d \in Callers : d # c => ((IsHolding(d))' <=> IsHolding(d))
    PROVE  LendInv'
<1> DEFINE n == Len(idle)
<1>0. idle \in Seq(Conns) /\ conn[c] \in Conns /\ DOMAIN conn = Callers
  BY DEF TypeOK, LendInv
<1>1. /\ n \in Nat /\ Len(idle') = n + 1 /\ \A i \in 1 .. n : idle'[i] = idle[i]
      /\ idle'[n + 1] = conn[c]
  BY <1>0, AppendProperties
<1>2. /\ \A i \in 1 .. n + 1 : i \in 1 .. n \/ i = n + 1
      /\ n + 1 \in 1 .. n + 1 /\ \A i \in 1 .. n : i \in 1 .. n + 1
  BY <1>1
<1>3. \A d \in Callers : d # c => conn'[d] = conn[d]
  BY <1>0
<1> HIDE DEF n
<1>4. /\ \A d \in Callers : \A i \in 1 .. n : IsHolding(d) => conn[d] # idle[i]
      /\ \A i, j \in 1 .. n : i # j => idle[i] # idle[j]
      /\ \A i \in 1 .. n : idle[i] \in open
  BY DEF LendInv, n
<1>5. \A i \in 1 .. n + 1 : idle'[i] = conn[c] <=> i = n + 1
  BY <1>1, <1>2, <1>4
<1>6. /\ \A d \in Callers : (IsHolding(d))' => conn'[d] \in open'
      /\ \A d, e \in Callers : d # e /\ (IsHolding(d))' /\ (IsHolding(e))' => conn'[d] # conn'[e]
  BY <1>3 DEF LendInv
<1>7. \A d \in Callers : \A i \in 1 .. n + 1 : (IsHolding(d))' => conn'[d] # idle'[i]
  <2> SUFFICES ASSUME NEW d \in Callers, NEW i \in 1 .. n + 1, (IsHolding(d))' PROVE conn'[d] # idle'[i]
    OBVIOUS
  <2>1. d # c /\ IsHolding(d) /\ conn'[d] = conn[d] /\ conn[d] # conn[c]
    BY <1>3 DEF LendInv
  <2> QED
    BY <1>1, <1>2, <1>4, <2>1
<1>8. /\ \A i, j \in 1 .. n + 1 : i # j => idle'[i] # idle'[j]
      /\ \A i \in 1 .. n + 1 : idle'[i] \in open'
  BY <1>1, <1>2, <1>4, <1>5 DEF LendInv
<1>9. ASSUME ~Wait', NEW k \in open'
      PROVE  \/ \E d \in Callers : (IsHolding(d))' /\ conn'[d] = k
             \/ \E i \in 1 .. n + 1 : idle'[i] = k
  <2>1. CASE \E d \in Callers : IsHolding(d) /\ conn[d] = k
    BY <1>1, <1>2, <1>3, <2>1
  <2>2. CASE \E i \in 1 .. n : idle[i] = k
    BY <1>1, <1>2, <2>2
  <2> QED
    BY <1>9, <2>1, <2>2 DEF LendInv, n
<1> QED
  BY <1>1, <1>6, <1>7, <1>8, <1>9 DEF LendInv

(* Some of the idle connections are closed and taken from the list, the    *)
(* others stay as they were (cleaner, checkHealth).                        *)
LEMMA LendPruned ==
    ASSUME TypeOK, LendInv, NEW gone, idle' = Without(gone), open' = open \ (ToSet(idle) \cap gone),
           UNCHANGED <<pc, conn, Wait>>
    PROVE  LendInv'
<1> DEFINE n == Len(idle)
           m == Len(idle')
<1>0. idle \in Seq(Conns) /\ DOMAIN idle = 1 .. n
  BY DEF TypeOK
<1>1. /\ \A i \in 1 .. m : \E j \in 1 .. n : idle[j] \notin gone /\ idle'[i] = idle[j]
      /\ \A j \in 1 .. n : idle[j] \notin gone => \E i \in 1 .. m : idle'[i] = idle[j]
      /\ (\A i, j \in 1 .. n : i # j => idle[i] # idle[j]) =>
           \A i, j \in 1 .. m : i # j => idle'[i] # idle'[j]
  <2> DEFINE w == Without(gone)
  <2>a. \A i \in 1 .. Len(w) : \E j \in 1 .. Len(idle) : idle[j] \notin gone /\ w[i] = idle[j]
    <3> TAKE i \in 1 .. Len(w)
    <3> QED
      BY <1>0, WithoutKeeps
  <2>b. \A j \in 1 .. Len(idle) : idle[j] \notin gone => \E i \in 1 .. Len(w) : w[i] = idle[j]
    BY ONLY <1>0, WithoutKeeps
  <2>c. (\A i, j \in 1 .. Len(idle) : i # j => idle[i] # idle[j]) =>
           \A i, j \in 1 .. Len(w) : i # j => w[i] # w[j]
    BY ONLY <1>0, WithoutKeeps
  <2>2. idle' = w
    OBVIOUS
  <2> HIDE DEF w
  <2> QED
    BY <2>a, <2>b, <2>c, <2>2
<1>2. \A k \in open : k \in open' <=> ~(k \in gone /\ \E i \in 1 .. n : idle[i] = k)
  BY <1>0 DEF ToSet
<1>3. open' \subseteq open
  OBVIOUS
<1>4. \A d \in Callers : (IsHolding(d))' <=> IsHolding(d)
  BY DEF IsHolding
<1> HIDE DEF n, m
<1>5. /\ \A d \in Callers : \A i \in 1 .. n : IsHolding(d) => conn[d] # idle[i]
      /\ \A i, j \in 1 .. n : i # j => idle[i] # idle[j]
      /\ \A i \in 1 .. n : idle[i] \in open
      /\ ~Wait => \A k \in open : \/ \E c \in Callers : IsHolding(c) /\ conn[c] = k
                                  \/ \E i \in 1 .. n : idle[i] = k
  BY DEF LendInv, n
<1>6. \A d \in Callers : (IsHolding(d))' => conn'[d] \in open'
  BY <1>2, <1>4, <1>5 DEF LendInv
<1>7. \A d \in Callers : \A i \in 1 .. m : (IsHolding(d))' => conn'[d] # idle'[i]
  BY <1>1, <1>4, <1>5
<1>8. \A i \in 1 .. m : idle'[i] \in open'
  BY <1>1, <1>2, <1>5
<1>9. ~Wait => \A k \in open' : \/ \E c \in Callers : (IsHolding(c))' /\ conn'[c] = k
                                \/ \E i \in 1 .. m : idle'[i] = k
  BY <1>1, <1>2, <1>3, <1>4, <1>5
<1>10. \A d, e \in Callers : d # e /\ (IsHolding(d))' /\ (IsHolding(e))' => conn'[d] # conn'[e]
  BY <1>4 DEF LendInv
<1> QED
  BY <1>1, <1>5, <1>6, <1>7, <1>8, <1>9, <1>10 DEF LendInv, m

(* Close of the pool closes all that is idle.                              *)
LEMMA LendClosed ==
    ASSUME TypeOK, LendInv, idle' = <<>>, open' = open \ ToSet(idle), UNCHANGED <<pc, conn, Wait>>
    PROVE  LendInv'
<1>1. DOMAIN idle = 1 .. Len(idle) /\ Len(idle') = 0
  BY DEF TypeOK
<1>2. \A k \in open : k \in open' <=> ~\E i \in 1 .. Len(idle) : idle[i] = k
  BY <1>1 DEF ToSet
<1>3. \A i \in 1 .. Len(idle') : FALSE
  BY <1>1
<1>4. \A d \in Callers : (IsHolding(d))' <=> IsHolding(d)
  BY DEF IsHolding
<1>5. \A d \in Callers : (IsHolding(d))' => conn'[d] \in open'
  BY <1>2, <1>4 DEF LendInv
<1>6. ~Wait => \A k \in open' : \E c \in Callers : (IsHolding(c))' /\ conn'[c] = k
  BY <1>2, <1>4 DEF LendInv
<1> QED
  BY <1>3, <1>4, <1>5, <1>6 DEF LendInv

-----------------------------------------------------------------------------
(* The counters *)

(* The callers that count are finitely many.                               *)
LEMMA CountedFinite ==
    /\ IsFiniteSet(Lent) /\ Cardinality(Lent) \in Nat
    /\ IsFiniteSet(Queued) /\ Cardinality(Queued) \in Nat
<1>1. IsFiniteSet(Callers) /\ Lent \in SUBSET Callers /\ Queued \in SUBSET Callers
  BY PoolAssumption DEF Lent, Creating, Holding, Queued
<1>2. IsFiniteSet(Lent) /\ IsFiniteSet(Queued)
  BY <1>1, FS_Subset
<1> QED
  BY <1>2, FS_CardinalityType

(* p.active++ for a caller that takes or makes a connection.               *)
LEMMA LentMore ==
    ASSUME active \in Nat, ActiveCounted, NEW c, c \notin Lent, Lent' = Lent \cup {c},
           active' = active + 1, closed' = closed
    PROVE  active' \in Nat /\ ActiveCounted'
<1>1. Cardinality(Lent') = Cardinality(Lent) + 1
  BY CountedFinite, FS_AddElement
<1> QED
  BY <1>1, CountedFinite DEF ActiveCounted

(* p.active-- for a caller that gives its connection back or got none.     *)
LEMMA LentLess ==
    ASSUME active \in Nat, ActiveCounted, NEW c \in Lent, Lent' = Lent \ {c},
           active' = active - 1, closed' = closed
    PROVE  active' \in Nat /\ ActiveCounted'
<1>1. Cardinality(Lent') = Cardinality(Lent) - 1
  BY CountedFinite, FS_RemoveElement
<1>2. Cardinality(Lent) # 0
  BY CountedFinite, FS_EmptySet
<1> QED
  BY <1>1, <1>2, CountedFinite DEF ActiveCounted

(* A connection given back to a closed pool: p.active stays.               *)
LEMMA LentForgotten ==
    ASSUME active \in Nat, ActiveCounted, NEW c \in Lent, Lent' = Lent \ {c},
           active' = active, closed, closed'
    PROVE  ActiveCounted'
<1>1. Cardinality(Lent') = Cardinality(Lent) - 1
  BY CountedFinite, FS_RemoveElement
<1> QED
  BY <1>1, CountedFinite DEF ActiveCounted

(* A step that changes neither p.active nor the callers that count; Close  *)
(* of the pool may be it.                                                  *)
LEMMA LentSame ==
    ASSUME ActiveCounted, Lent' = Lent, active' = active, closed' = closed \/ closed' = TRUE
    PROVE  ActiveCounted'
BY DEF ActiveCounted

(* p.waitCount++ for a caller that starts to wait.                         *)
LEMMA QueuedMore ==
    ASSUME waitCount \in Nat, WaitCounted, NEW c, c \notin Queued, Queued' = Queued \cup {c},
           waitCount' = waitCount + 1
    PROVE  waitCount' \in Nat /\ WaitCounted'
<1>1. Cardinality(Queued') = Cardinality(Queued) + 1
  BY CountedFinite, FS_AddElement
<1> QED
  BY <1>1, CountedFinite DEF WaitCounted

(* p.waitCount-- for a caller whose wait is over.                          *)
LEMMA QueuedLess ==
    ASSUME waitCount \in Nat, WaitCounted, NEW c \in Queued, Queued' = Queued \ {c},
           waitCount' = waitCount - 1
    PROVE  waitCount' \in Nat /\ WaitCounted'
<1>1. Cardinality(Queued') = Cardinality(Queued) - 1
  BY CountedFinite, FS_RemoveElement
<1>2. Cardinality(Queued) # 0
  BY CountedFinite, FS_EmptySet
<1> QED
  BY <1>1, <1>2, CountedFinite DEF WaitCounted

(* A caller that goes to another place: which sets it is in then.          *)
LEMMA CallerGoes ==
    ASSUME pc \in [Callers -> Places], NEW c \in Callers, NEW place \in Places, Goto(c, place)
    PROVE  /\ pc' \in [Callers -> Places] /\ pc'[c] = place
           /\ \A d \in Callers : d # c => pc'[d] = pc[d]
           /\ \A d \in Callers : d # c => ((IsHolding(d))' <=> IsHolding(d))
           /\ (IsHolding(c))' <=> place \in {"unlock-using", "using"}
           /\ place \in Counting => Lent' = Lent \cup {c}
           /\ place \notin Counting => Lent' = Lent \ {c}
           /\ place \in InWait => Queued' = Queued \cup {c}
           /\ place \notin InWait => Queued' = Queued \ {c}
           /\ c \in Lent <=> pc[c] \in Counting
           /\ c \in Queued <=> pc[c] \in InWait
<1>1. pc' = [pc EXCEPT ![c] = place] /\ pc'[c] = place /\ \A d \in Callers : d # c => pc'[d] = pc[d]
  BY DEF Goto
<1>2. Lent = {d \in Callers : pc[d] \in Counting} /\ Lent' = {d \in Callers : pc'[d] \in Counting}
  BY DEF Lent, Creating, Holding, Counting
<1>3. Queued = {d \in Callers : pc[d] \in InWait} /\ Queued' = {d \in Callers : pc'[d] \in InWait}
  BY DEF Queued
<1>4. /\ place \in Counting => Lent' = Lent \cup {c}
      /\ place \notin Counting => Lent' = Lent \ {c}
      /\ c \in Lent <=> pc[c] \in Counting
  BY <1>1, <1>2
<1>5. /\ place \in InWait => Queued' = Queued \cup {c}
      /\ place \notin InWait => Queued' = Queued \ {c}
      /\ c \in Queued <=> pc[c] \in InWait
  BY <1>1, <1>3
<1> QED
  BY <1>1, <1>4, <1>5 DEF IsHolding

(* A step in which no caller moves.                                        *)
LEMMA CallersStay ==
    ASSUME pc' = pc
    PROVE  Lent' = Lent /\ Queued' = Queued /\ \A d \in Callers : (IsHolding(d))' <=> IsHolding(d)
BY DEF Lent, Creating, Holding, Queued, IsHolding

-----------------------------------------------------------------------------
(* The steps of the pool *)

(* getIdleConn keeps the list a list.                                      *)
LEMMA PopTyped ==
    ASSUME TypeOK, Pop
    PROVE  idle' \in Seq(Conns)
<1>1. CASE idle = <<>>
  BY <1>1 DEF TypeOK, Pop
<1>2. CASE idle # <<>>
  BY <1>2, FrontOf DEF TypeOK, Pop
<1> QED
  BY <1>1, <1>2

(* A caller that moves on, all of the pool's fields as they were.          *)
LEMMA QuietStep ==
    ASSUME ConnPoolInv, NEW c \in Callers, NEW place \in Places, Goto(c, place),
           UNCHANGED <<active, waitCount, closed, idle, open, conn, Wait>>,
           pc[c] \in Counting <=> place \in Counting,
           pc[c] \in InWait <=> place \in InWait,
           IsHolding(c) <=> place \in {"unlock-using", "using"}
    PROVE  pc' \in [Callers -> Places] /\ ActiveCounted' /\ WaitCounted' /\ LendInv' /\ NobodyWaits'
<1>1. pc \in [Callers -> Places]
  BY DEF ConnPoolInv, TypeOK, Places
<1>2. Lent' = Lent /\ Queued' = Queued
  BY <1>1, CallerGoes
<1>3. \A d \in Callers : (IsHolding(d))' <=> IsHolding(d)
  BY <1>1, CallerGoes
<1>4. LendInv'
  BY <1>3, LendKept DEF ConnPoolInv
<1>5. NobodyWaits'
  BY <1>1, CallerGoes DEF ConnPoolInv, NobodyWaits
<1> QED
  BY <1>1, <1>2, <1>4, <1>5, CallerGoes DEF ConnPoolInv, ActiveCounted, WaitCounted

(* A caller that leaves the pool after getIdleConn popped an expired       *)
(* connection, or joins the queue.                                         *)
LEMMA PopStep ==
    ASSUME ConnPoolInv, NEW c \in Callers, NEW place \in Places, Goto(c, place), PopExpired,
           UNCHANGED <<active, closed, conn, Wait>>,
           pc[c] \notin Counting, place \notin Counting,
           place \in InWait => Wait
    PROVE  /\ pc' \in [Callers -> Places] /\ ActiveCounted' /\ LendInv' /\ NobodyWaits'
           /\ idle' \in Seq(Conns) /\ open' \subseteq Conns
<1>1. pc \in [Callers -> Places]
  BY DEF ConnPoolInv, TypeOK, Places
<1>2. Lent' = Lent
  BY <1>1, CallerGoes
<1>3. \A d \in Callers : (IsHolding(d))' <=> IsHolding(d)
  BY <1>1, CallerGoes DEF Counting, IsHolding
<1>4. LendInv'
  BY <1>3, LendPop DEF ConnPoolInv
<1>5. NobodyWaits'
  BY <1>1, CallerGoes DEF ConnPoolInv, NobodyWaits
<1>6. idle' \in Seq(Conns) /\ open' \subseteq Conns
  BY PopTyped DEF ConnPoolInv, TypeOK, PopExpired
<1> QED
  BY <1>1, <1>2, <1>4, <1>5, <1>6, CallerGoes DEF ConnPoolInv, ActiveCounted

(* A caller that gets an idle connection or starts to make one, from Get   *)
(* or after its wait.                                                      *)
LEMMA LendStep ==
    ASSUME ConnPoolInv, NEW c \in Callers, pc[c] \notin Counting, TakeIdle(c) \/ StartCreate(c), Wait' = Wait
    PROVE  /\ pc' \in [Callers -> Places] /\ ActiveCounted' /\ LendInv' /\ NobodyWaits'
           /\ idle' \in Seq(Conns) /\ open' \subseteq Conns /\ active' \in Nat
           /\ conn' \in [Callers -> Conns \cup {None}] /\ Queued' = Queued \ {c}
<1>0. pc \in [Callers -> Places] /\ TypeOK /\ LendInv /\ active \in Nat /\ ActiveCounted
  BY DEF ConnPoolInv, TypeOK, Places
<1>1. PICK place \in {"unlock-using", "unlock-create"} : Goto(c, place)
  BY DEF TakeIdle, StartCreate
<1>2. place \in Places /\ place \in Counting /\ place \notin InWait
  BY DEF Places, Unlocking, Counting, InWait
<1>3. Lent' = Lent \cup {c} /\ c \notin Lent /\ Queued' = Queued \ {c} /\ pc' \in [Callers -> Places]
  BY <1>0, <1>1, <1>2, CallerGoes
<1>4. active' = active + 1 /\ closed' = closed
  BY DEF TakeIdle, StartCreate
<1>5. active' \in Nat /\ ActiveCounted'
  BY <1>0, <1>3, <1>4, LentMore
<1>6. NobodyWaits'
  BY <1>0, <1>1, <1>2, CallerGoes DEF ConnPoolInv, NobodyWaits
<1>7. ~IsHolding(c)
  BY DEF IsHolding, Counting
<1>8. /\ LendInv' /\ idle' \in Seq(Conns) /\ open' \subseteq Conns
      /\ conn' \in [Callers -> Conns \cup {None}]
  <2>1. CASE TakeIdle(c)
    <3>1. idle \in Seq(Conns) /\ idle # <<>>
      BY <1>0, <2>1 DEF TypeOK, TakeIdle, IdleHit
    <3>2. Last(idle) \in Conns
      BY <3>1, FrontOf
    <3>3. conn' \in [Callers -> Conns \cup {None}] /\ open' \subseteq Conns
      BY <1>0, <2>1, <3>2 DEF TypeOK, TakeIdle, connVars
    <3>4. idle' \in Seq(Conns)
      BY <1>0, <2>1, PopTyped DEF TakeIdle
    <3> QED
      BY <1>0, <1>7, <2>1, <3>3, <3>4, LendTake
  <2>2. CASE StartCreate(c)
    <3>1. PopExpired /\ conn' = conn /\ Goto(c, "unlock-create")
      BY <2>2 DEF StartCreate
    <3>2. \A d \in Callers : (IsHolding(d))' <=> IsHolding(d)
      BY <1>0, <1>7, <3>1, CallerGoes DEF Places, Unlocking
    <3>3. idle' \in Seq(Conns) /\ open' \subseteq Conns
      BY <1>0, <3>1, PopTyped DEF TypeOK, PopExpired
    <3> QED
      BY <1>0, <3>1, <3>2, <3>3, LendPop DEF TypeOK
  <2> QED
    BY <2>1, <2>2
<1> QED
  BY <1>3, <1>5, <1>6, <1>8

(* Put: the caller has its connection no more.                             *)
LEMMA PutStep ==
    ASSUME ConnPoolInv, NEW c \in Callers, CloseConn(c), Wait' = Wait
    PROVE  /\ pc' \in [Callers -> Places] /\ ActiveCounted' /\ WaitCounted' /\ LendInv' /\ NobodyWaits'
           /\ idle' \in Seq(Conns) /\ open' \subseteq Conns /\ active' \in Nat
           /\ conn' \in [Callers -> Conns \cup {None}]
<1>0. /\ pc \in [Callers -> Places] /\ TypeOK /\ LendInv /\ active \in Nat /\ ActiveCounted /\ WaitCounted
      /\ pc[c] = "using" /\ Goto(c, "unlock-return") /\ waitCount' = waitCount
      /\ conn' = [conn EXCEPT ![c] = None] /\ DOMAIN conn = Callers
  BY DEF ConnPoolInv, TypeOK, Places, CloseConn, PutClosed, PutSignal, PutIdle, poolVars
<1>1. /\ "unlock-return" \in Places /\ "unlock-return" \notin Counting /\ "unlock-return" \notin InWait
      /\ pc[c] \in Counting /\ pc[c] \notin InWait
  BY <1>0 DEF Places, Unlocking, Counting, InWait
<1>2. Lent' = Lent \ {c} /\ c \in Lent /\ Queued' = Queued /\ pc' \in [Callers -> Places]
  BY <1>0, <1>1, CallerGoes
<1>3. /\ IsHolding(c) /\ ~(IsHolding(c))'
      /\ \A d \in Callers : d # c => ((IsHolding(d))' <=> IsHolding(d))
  BY <1>0, <1>1, CallerGoes DEF IsHolding
<1>4. NobodyWaits'
  BY <1>0, <1>1, CallerGoes DEF ConnPoolInv, NobodyWaits
<1>5. WaitCounted'
  BY <1>0, <1>2 DEF WaitCounted
<1>6. conn[c] \in Conns /\ conn' \in [Callers -> Conns \cup {None}]
  BY <1>0, <1>3 DEF TypeOK, LendInv
<1>7. CASE PutClosed(c, conn[c])
  <2>1. idle' = idle /\ open' = open \ {conn[c]} /\ active' = active /\ closed /\ closed'
    BY <1>7 DEF PutClosed, poolVars
  <2>2. LendInv'
    BY <1>0, <1>3, <2>1, LendGone
  <2>3. ActiveCounted'
    BY <1>0, <1>2, <2>1, LentForgotten
  <2> QED
    BY <1>0, <1>2, <1>4, <1>5, <1>6, <2>1, <2>2, <2>3 DEF TypeOK
<1>8. CASE PutSignal(c, conn[c])
  <2>1. idle' = idle /\ open' = open /\ active' = active - 1 /\ closed' = closed /\ waitCount > 0
    BY <1>8 DEF PutSignal
  <2>2. Wait
    <3>1. SUFFICES ASSUME ~Wait PROVE FALSE
      BY <1>0 DEF TypeOK
    <3>2. Queued = {}
      BY <3>1 DEF ConnPoolInv, NobodyWaits, Queued
    <3>3. Cardinality(Queued) = 0
      BY <3>2, FS_EmptySet
    <3> QED
      BY <1>0, <2>1, <3>3 DEF WaitCounted
  <2>3. LendInv'
    BY <1>0, <1>3, <2>1, <2>2, LendGone
  <2>4. active' \in Nat /\ ActiveCounted'
    BY <1>0, <1>2, <2>1, LentLess
  <2> QED
    BY <1>0, <1>2, <1>4, <1>5, <1>6, <2>1, <2>3, <2>4 DEF TypeOK
<1>9. CASE PutIdle(c, conn[c])
  <2>1. active' = active - 1 /\ closed' = closed
    BY <1>9 DEF PutIdle
  <2>2. active' \in Nat /\ ActiveCounted'
    BY <1>0, <1>2, <2>1, LentLess
  <2>3. CASE idle' = Append(idle, conn[c]) /\ open' = open
    <3>1. LendInv'
      BY <1>0, <1>3, <2>3, LendIdle
    <3>2. idle' \in Seq(Conns)
      BY <1>0, <1>6, <2>3 DEF TypeOK
    <3> QED
      BY <1>0, <1>2, <1>4, <1>5, <1>6, <2>2, <2>3, <3>1, <3>2 DEF TypeOK
  <2>4. CASE idle' = idle /\ open' = open \ {conn[c]}
    <3>1. LendInv'
      BY <1>0, <1>3, <2>4, LendGone
    <3> QED
      BY <1>0, <1>2, <1>4, <1>5, <1>6, <2>2, <2>4, <3>1 DEF TypeOK
  <2> QED
    BY <1>9, <2>3, <2>4 DEF PutIdle
<1> QED
  BY <1>7, <1>8, <1>9 DEF CloseConn

(* Every step of a caller keeps the invariant.                             *)
LEMMA CallerStepInv ==
    ASSUME ConnPoolInv, NEW c \in Callers, CallerNext(c), Wait' = Wait
    PROVE  ConnPoolInv'
<1>0. /\ TypeOK /\ ActiveCounted /\ WaitCounted /\ LendInv /\ NobodyWaits /\ waitCount \in Nat
      /\ pc \in [Callers -> Places] /\ active \in Nat
  BY DEF ConnPoolInv, TypeOK, Places
<1>00. \A place \in {"unlock-return", "unlock-using", "unlock-create", "unlock-wait", "out", "creating",
                     "failed", "using", "waiting", "gaveup", "retry"} : place \in Places
  BY DEF Places, Unlocking
<1>1. CASE GetClosed(c)
  <2>1. /\ Goto(c, "unlock-return") /\ UNCHANGED <<active, waitCount, closed, idle, open, conn>>
        /\ pc[c] \in Counting <=> "unlock-return" \in Counting
        /\ pc[c] \in InWait <=> "unlock-return" \in InWait
        /\ IsHolding(c) <=> "unlock-return" \in {"unlock-using", "using"}
    BY <1>1 DEF GetClosed, poolVars, connVars, Counting, InWait, IsHolding
  <2>2. pc' \in [Callers -> Places] /\ ActiveCounted' /\ WaitCounted' /\ LendInv' /\ NobodyWaits'
    BY <1>00, <2>1, QuietStep
  <2>3. TypeOK'
    BY <1>1, <1>0, <2>2 DEF TypeOK, Places, GetClosed, poolVars, connVars, waitVars, Lock
  <2> QED
    BY <2>2, <2>3 DEF ConnPoolInv
<1>2. CASE GetOpen(c)
  <2>1. /\ pc[c] \notin Counting /\ pc[c] \notin InWait /\ waitCount' = waitCount
        /\ TakeIdle(c) \/ StartCreate(c)
    BY <1>2 DEF GetOpen, Counting, InWait
  <2>2. /\ pc' \in [Callers -> Places] /\ ActiveCounted' /\ LendInv' /\ NobodyWaits'
        /\ idle' \in Seq(Conns) /\ open' \subseteq Conns /\ active' \in Nat
        /\ conn' \in [Callers -> Conns \cup {None}] /\ Queued' = Queued \ {c}
    BY <2>1, LendStep
  <2>3. WaitCounted'
    <3>1. c \notin Queued
      BY <2>1 DEF Queued
    <3>2. Queued' = Queued
      BY <2>2, <3>1
    <3> QED
      BY <1>0, <2>1, <3>2 DEF WaitCounted
  <2>4. TypeOK'
    BY <1>2, <1>0, <2>2 DEF TypeOK, Places, GetOpen, TakeIdle, StartCreate, connVars, waitVars, Lock
  <2> QED
    BY <2>2, <2>3, <2>4 DEF ConnPoolInv
<1>3. CASE GetExhausted(c)
  <2>1. /\ pc[c] \notin Counting /\ pc[c] \notin InWait /\ Goto(c, "unlock-return") /\ PopExpired
        /\ UNCHANGED <<active, closed, conn, waitCount>>
        /\ "unlock-return" \notin Counting /\ "unlock-return" \notin InWait
    BY <1>3 DEF GetExhausted, Counting, InWait
  <2>2. /\ pc' \in [Callers -> Places] /\ ActiveCounted' /\ LendInv' /\ NobodyWaits'
        /\ idle' \in Seq(Conns) /\ open' \subseteq Conns
    BY <1>00, <2>1, PopStep
  <2>3. WaitCounted'
    <3>1. Queued' = Queued
      BY <1>0, <1>00, <2>1, CallerGoes
    <3> QED
      BY <1>0, <2>1, <3>1 DEF WaitCounted
  <2>4. TypeOK'
    BY <1>3, <1>0, <2>2 DEF TypeOK, Places, GetExhausted, waitVars, Lock
  <2> QED
    BY <2>2, <2>3, <2>4 DEF ConnPoolInv
<1>4. CASE GetWait(c)
  <2>1. /\ pc[c] \notin Counting /\ pc[c] \notin InWait /\ Goto(c, "unlock-wait") /\ PopExpired /\ Wait
        /\ UNCHANGED <<active, closed, conn>> /\ waitCount' = waitCount + 1
        /\ "unlock-wait" \notin Counting /\ "unlock-wait" \in InWait
    BY <1>4 DEF GetWait, Counting, InWait
  <2>2. /\ pc' \in [Callers -> Places] /\ ActiveCounted' /\ LendInv' /\ NobodyWaits'
        /\ idle' \in Seq(Conns) /\ open' \subseteq Conns
    BY <1>00, <2>1, PopStep
  <2>3. waitCount' \in Nat /\ WaitCounted'
    <3>1. Queued' = Queued \cup {c} /\ c \notin Queued
      BY <1>0, <1>00, <2>1, CallerGoes
    <3> QED
      BY <1>0, <2>1, <3>1, QueuedMore
  <2>4. TypeOK'
    <3>1. PICK w \in Waits : /\ waiter' = [waiter EXCEPT ![w] = "spawned"]
                             /\ wait' = [wait EXCEPT ![c] = w]
      BY <1>4 DEF GetWait
    <3>2. w \in 0 .. MaxWaits
      BY PoolAssumption DEF Waits
    <3>3. /\ waiter' \in [Waits -> {"none", "spawned", "added", "parked", "woken", "done"}]
          /\ wait' \in [Callers -> 0 .. MaxWaits]
      BY <1>0, <3>1, <3>2 DEF TypeOK
    <3> QED
      BY <1>4, <1>0, <2>2, <2>3, <3>3 DEF TypeOK, Places, GetWait, Lock
  <2> QED
    BY <2>2, <2>3, <2>4 DEF ConnPoolInv
<1>5. CASE CallerUnlock(c)
  <2>0. AfterUnlock(pc[c]) \in {"out", "using", "creating", "waiting"}
    BY <1>5 DEF CallerUnlock, AfterUnlock, Unlocking
  <2>1. /\ Goto(c, AfterUnlock(pc[c])) /\ UNCHANGED <<active, waitCount, closed, idle, open, conn>>
        /\ pc[c] \in Counting <=> AfterUnlock(pc[c]) \in Counting
        /\ pc[c] \in InWait <=> AfterUnlock(pc[c]) \in InWait
        /\ IsHolding(c) <=> AfterUnlock(pc[c]) \in {"unlock-using", "using"}
    BY <1>5 DEF CallerUnlock, AfterUnlock, Unlocking, poolVars, connVars, Counting, InWait, IsHolding
  <2>2. pc' \in [Callers -> Places] /\ ActiveCounted' /\ WaitCounted' /\ LendInv' /\ NobodyWaits'
    BY <1>00, <2>0, <2>1, QuietStep
  <2>3. TypeOK'
    BY <1>5, <1>0, <2>2 DEF TypeOK, Places, CallerUnlock, poolVars, connVars, waitVars, Unlock
  <2> QED
    BY <2>2, <2>3 DEF ConnPoolInv
<1>6. CASE FactoryOK(c)
  <2>1. /\ Goto(c, "using") /\ UNCHANGED <<active, waitCount, closed, idle>>
        /\ pc[c] \in Counting /\ "using" \in Counting /\ pc[c] \notin InWait /\ "using" \notin InWait
    BY <1>6 DEF FactoryOK, poolVars, Counting, InWait
  <2>2. Lent' = Lent /\ Queued' = Queued /\ pc' \in [Callers -> Places]
    BY <1>0, <1>00, <2>1, CallerGoes
  <2>3. LendInv'
    BY <1>0, <1>6, LendMade
  <2>4. NobodyWaits'
    BY <1>0, <1>00, <2>1, CallerGoes DEF NobodyWaits
  <2>5. ActiveCounted' /\ WaitCounted'
    BY <1>0, <2>1, <2>2 DEF ActiveCounted, WaitCounted
  <2>6. TypeOK'
    BY <1>6, <1>0, <2>2 DEF TypeOK, Places, FactoryOK, poolVars, waitVars
  <2> QED
    BY <2>3, <2>4, <2>5, <2>6 DEF ConnPoolInv
<1>7. CASE FactoryErr(c)
  <2>1. /\ Goto(c, "failed") /\ UNCHANGED <<active, waitCount, closed, idle, open, conn>>
        /\ pc[c] \in Counting <=> "failed" \in Counting
        /\ pc[c] \in InWait <=> "failed" \in InWait
        /\ IsHolding(c) <=> "failed" \in {"unlock-using", "using"}
    BY <1>7 DEF FactoryErr, poolVars, connVars, Counting, InWait, IsHolding
  <2>2. pc' \in [Callers -> Places] /\ ActiveCounted' /\ WaitCounted' /\ LendInv' /\ NobodyWaits'
    BY <1>00, <2>1, QuietStep
  <2>3. TypeOK'
    BY <1>7, <1>0, <2>2 DEF TypeOK, Places, FactoryErr, poolVars, connVars, waitVars
  <2> QED
    BY <2>2, <2>3 DEF ConnPoolInv
<1>8. CASE UndoActive(c)
  <2>1. /\ Goto(c, "unlock-return") /\ UNCHANGED <<waitCount, closed, idle, open, conn>>
        /\ active' = active - 1 /\ pc[c] = "failed"
        /\ pc[c] \in Counting /\ "unlock-return" \notin Counting
        /\ pc[c] \notin InWait /\ "unlock-return" \notin InWait
    BY <1>8 DEF UndoActive, connVars, Counting, InWait
  <2>2. Lent' = Lent \ {c} /\ c \in Lent /\ Queued' = Queued /\ pc' \in [Callers -> Places]
    BY <1>0, <1>00, <2>1, CallerGoes
  <2>3. active' \in Nat /\ ActiveCounted'
    BY <1>0, <2>1, <2>2, LentLess
  <2>4. \A d \in Callers : (IsHolding(d))' <=> IsHolding(d)
    BY <1>0, <1>00, <2>1, CallerGoes DEF IsHolding
  <2>5. LendInv'
    BY <1>0, <2>1, <2>4, LendKept
  <2>6. NobodyWaits' /\ WaitCounted'
    BY <1>0, <1>00, <2>1, <2>2, CallerGoes DEF NobodyWaits, WaitCounted
  <2>7. TypeOK'
    BY <1>8, <1>0, <2>2, <2>3 DEF TypeOK, Places, UndoActive, connVars, waitVars, Lock
  <2> QED
    BY <2>3, <2>5, <2>6, <2>7 DEF ConnPoolInv
<1>9. CASE WaitOver(c)
  <2>0. PICK place \in {"retry", "gaveup"} : Goto(c, place)
    BY <1>9 DEF WaitOver
  <2>1. /\ UNCHANGED <<active, waitCount, closed, idle, open, conn>>
        /\ pc[c] \in Counting <=> place \in Counting
        /\ pc[c] \in InWait <=> place \in InWait
        /\ IsHolding(c) <=> place \in {"unlock-using", "using"}
    BY <1>9 DEF WaitOver, poolVars, connVars, Counting, InWait, IsHolding
  <2>2. pc' \in [Callers -> Places] /\ ActiveCounted' /\ WaitCounted' /\ LendInv' /\ NobodyWaits'
    BY <1>00, <2>0, <2>1, QuietStep
  <2>3. TypeOK'
    <3>1. wait' \in [Callers -> 0 .. MaxWaits]
      BY <1>9, <1>0, PoolAssumption DEF TypeOK, WaitOver
    <3> QED
      BY <1>9, <1>0, <2>2, <3>1 DEF TypeOK, Places, WaitOver, poolVars, connVars
  <2> QED
    BY <2>2, <2>3 DEF ConnPoolInv
<1>10. CASE GiveUp(c)
  <2>1. /\ Goto(c, "unlock-return") /\ UNCHANGED <<active, closed, idle, open, conn>>
        /\ waitCount' = waitCount - 1 /\ pc[c] = "gaveup"
        /\ pc[c] \notin Counting /\ "unlock-return" \notin Counting
        /\ pc[c] \in InWait /\ "unlock-return" \notin InWait
    BY <1>10 DEF GiveUp, connVars, Counting, InWait
  <2>2. Lent' = Lent /\ c \in Queued /\ Queued' = Queued \ {c} /\ pc' \in [Callers -> Places]
    BY <1>0, <1>00, <2>1, CallerGoes
  <2>3. waitCount' \in Nat /\ WaitCounted'
    BY <1>0, <2>1, <2>2, QueuedLess
  <2>4. \A d \in Callers : (IsHolding(d))' <=> IsHolding(d)
    BY <1>0, <1>00, <2>1, CallerGoes DEF IsHolding
  <2>5. LendInv'
    BY <1>0, <2>1, <2>4, LendKept
  <2>6. NobodyWaits' /\ ActiveCounted'
    BY <1>0, <1>00, <2>1, <2>2, CallerGoes DEF NobodyWaits, ActiveCounted
  <2>7. TypeOK'
    BY <1>10, <1>0, <2>2, <2>3 DEF TypeOK, Places, GiveUp, connVars, waitVars, Lock
  <2> QED
    BY <2>3, <2>5, <2>6, <2>7 DEF ConnPoolInv
<1>11. CASE Retry(c)
  <2>1. /\ pc[c] = "retry" /\ pc[c] \notin Counting /\ pc[c] \in InWait /\ waitCount' = waitCount - 1
        /\ "unlock-return" \notin Counting /\ "unlock-return" \notin InWait
        /\ UNCHANGED <<wait, waiter, notify, closer, cleaner>> /\ mu' = "held"
    BY <1>11 DEF Retry, Counting, InWait, waitVars, Lock
  <2>2. c \in Queued
    BY <2>1 DEF Queued
  <2>3. Queued' = Queued \ {c} => waitCount' \in Nat /\ WaitCounted'
    BY <1>0, <2>1, <2>2, QueuedLess
  <2>4. CASE TakeIdle(c) \/ StartCreate(c)
    <3>1. /\ pc' \in [Callers -> Places] /\ ActiveCounted' /\ LendInv' /\ NobodyWaits'
          /\ idle' \in Seq(Conns) /\ open' \subseteq Conns /\ active' \in Nat
          /\ conn' \in [Callers -> Conns \cup {None}] /\ Queued' = Queued \ {c}
      BY <2>1, <2>4, LendStep
    <3>2. TypeOK'
      BY <1>0, <2>1, <2>3, <2>4, <3>1 DEF TypeOK, Places, TakeIdle, StartCreate, connVars
    <3> QED
      BY <2>3, <3>1, <3>2 DEF ConnPoolInv
  <2>5. CASE Goto(c, "unlock-return") /\ UNCHANGED <<closed, idle, active, maxActive, connVars, conn>>
    <3>1. Lent' = Lent /\ Queued' = Queued \ {c} /\ pc' \in [Callers -> Places]
      BY <1>0, <1>00, <2>1, <2>5, CallerGoes
    <3>2. \A d \in Callers : (IsHolding(d))' <=> IsHolding(d)
      BY <1>0, <1>00, <2>1, <2>5, CallerGoes DEF IsHolding
    <3>3. LendInv'
      BY <1>0, <2>5, <3>2, LendKept DEF connVars
    <3>4. NobodyWaits' /\ ActiveCounted'
      BY <1>0, <1>00, <2>1, <2>5, <3>1, CallerGoes DEF NobodyWaits, ActiveCounted
    <3>5. TypeOK'
      BY <1>0, <2>1, <2>3, <2>5, <3>1 DEF TypeOK, Places, connVars
    <3> QED
      BY <2>3, <3>1, <3>3, <3>4, <3>5 DEF ConnPoolInv
  <2>6. CASE /\ PopExpired /\ Goto(c, "unlock-return")
             /\ UNCHANGED <<closed, active, maxActive, expired, returned, conn>>
    <3>1. /\ pc' \in [Callers -> Places] /\ ActiveCounted' /\ LendInv' /\ NobodyWaits'
          /\ idle' \in Seq(Conns) /\ open' \subseteq Conns
      BY <1>00, <2>1, <2>6, PopStep
    <3>2. Queued' = Queued \ {c}
      BY <1>0, <1>00, <2>1, <2>6, CallerGoes
    <3>3. TypeOK'
      BY <1>0, <2>1, <2>3, <2>6, <3>1, <3>2 DEF TypeOK, Places
    <3> QED
      BY <2>3, <3>1, <3>2, <3>3 DEF ConnPoolInv
  <2> QED
    BY <1>11, <2>4, <2>5, <2>6 DEF Retry
<1>12. CASE CloseConn(c)
  <2>1. /\ pc' \in [Callers -> Places] /\ ActiveCounted' /\ WaitCounted' /\ LendInv' /\ NobodyWaits'
        /\ idle' \in Seq(Conns) /\ open' \subseteq Conns /\ active' \in Nat
        /\ conn' \in [Callers -> Conns \cup {None}]
    BY <1>12, PutStep
  <2>2. conn[c] \in Conns
    BY <1>0, <1>12 DEF CloseConn, LendInv, IsHolding, TypeOK
  <2>3. /\ closed' = closed /\ maxActive' = maxActive /\ waitCount' = waitCount /\ expired' \subseteq Conns
        /\ returned' \subseteq Conns /\ mu' = "held" /\ UNCHANGED <<wait, closer, cleaner>>
    BY <1>0, <1>12, <2>2 DEF TypeOK, CloseConn, PutClosed, PutSignal, PutIdle, poolVars, Lock
  <2>4. /\ waiter' \in [Waits -> {"none", "spawned", "added", "parked", "woken", "done"}]
        /\ notify' \in Seq(Waits)
    <3>1. CASE UNCHANGED <<waiter, notify>>
      BY <1>0, <3>1 DEF TypeOK
    <3>2. CASE notify # <<>> /\ Wake({Head(notify)}) /\ notify' = Tail(notify)
      <4>1. notify' \in Seq(Waits)
        BY <1>0, <3>2 DEF TypeOK
      <4>2. waiter' \in [Waits -> {"none", "spawned", "added", "parked", "woken", "done"}]
        BY <1>0, <3>2 DEF TypeOK, Wake
      <4> QED
        BY <4>1, <4>2
    <3> QED
      BY <1>12, <3>1, <3>2 DEF CloseConn, PutClosed, PutSignal, PutIdle, Signal
  <2>5. TypeOK'
    BY <1>0, <2>1, <2>3, <2>4 DEF TypeOK, Places
  <2> QED
    BY <2>1, <2>5 DEF ConnPoolInv
<1> QED
  BY <1>1, <1>2, <1>3, <1>4, <1>5, <1>6, <1>7, <1>8, <1>9, <1>10, <1>11, <1>12 DEF CallerNext

(* Every step of a pool whose MaxActive stays keeps the invariant.         *)
LEMMA PoolStepInv ==
    ASSUME ConnPoolInv, [Next]_vars
    PROVE  ConnPoolInv'
<1>0. /\ TypeOK /\ ActiveCounted /\ WaitCounted /\ LendInv /\ NobodyWaits
  BY DEF ConnPoolInv
<1>1. ASSUME NEW c \in Callers, CallerNext(c), Wait' = Wait PROVE ConnPoolInv'
  BY <1>1, CallerStepInv
<1>2. ASSUME UNCHANGED <<poolVars, Wait, pc, conn, open>>, TypeOK' PROVE ConnPoolInv'
  <2>1. Lent' = Lent /\ Queued' = Queued /\ \A d \in Callers : (IsHolding(d))' <=> IsHolding(d)
    BY <1>2, CallersStay
  <2>2. LendInv'
    BY <1>0, <1>2, <2>1, LendKept DEF poolVars
  <2> QED
    BY <1>0, <1>2, <2>1, <2>2 DEF ConnPoolInv, ActiveCounted, WaitCounted, NobodyWaits, poolVars
<1>3. ASSUME NEW w \in Waits, WaiterNext(w), Wait' = Wait PROVE ConnPoolInv'
  <2>1. CASE WaiterAdd(w)
    BY <1>0, <1>2, <1>3, <2>1 DEF TypeOK, WaiterAdd, poolVars, connVars
  <2>2. CASE WaiterUnlock(w)
    BY <1>0, <1>2, <1>3, <2>2 DEF TypeOK, WaiterUnlock, Unlock, poolVars, connVars
  <2>3. CASE WaiterLock(w)
    BY <1>0, <1>2, <1>3, <2>3 DEF TypeOK, WaiterLock, Lock, poolVars, connVars
  <2> QED
    BY <1>3, <2>1, <2>2, <2>3 DEF WaiterNext
<1>4. ASSUME ClosePool, Wait' = Wait PROVE ConnPoolInv'
  <2>1. /\ closed' = TRUE /\ idle' = <<>> /\ open' = open \ ToSet(idle)
        /\ UNCHANGED <<active, maxActive, waitCount, expired, returned, pc, conn, wait, cleaner>>
    BY <1>4 DEF ClosePool
  <2>2. Lent' = Lent /\ Queued' = Queued
    BY <2>1, CallersStay
  <2>3. LendInv'
    BY <1>0, <1>4, <2>1, LendClosed
  <2>4. /\ waiter' \in [Waits -> {"none", "spawned", "added", "parked", "woken", "done"}]
        /\ notify' \in Seq(Waits) /\ idle' \in Seq(Conns)
    BY <1>0, <1>4, <2>1 DEF TypeOK, ClosePool, Broadcast, Wake
  <2>5. TypeOK'
    BY <1>0, <1>4, <2>1, <2>4 DEF TypeOK, ClosePool, Lock
  <2> QED
    BY <1>0, <1>4, <2>1, <2>2, <2>3, <2>5 DEF ConnPoolInv, ActiveCounted, WaitCounted, NobodyWaits
<1>5. ASSUME ClosePoolUnlock, Wait' = Wait PROVE ConnPoolInv'
  BY <1>0, <1>2, <1>5 DEF TypeOK, ClosePoolUnlock, Unlock, poolVars, connVars, waitVars
<1>6. ASSUME Clean, Wait' = Wait PROVE ConnPoolInv'
  <2>1. CASE closed
    <3>1. UNCHANGED <<poolVars, Wait, pc, conn, open>>
      BY <1>6, <2>1 DEF Clean, poolVars
    <3>2. TypeOK'
      BY <1>0, <1>6, <3>1 DEF TypeOK, Clean, Lock, poolVars, waitVars
    <3> QED
      BY <1>2, <3>1, <3>2
  <2>2. CASE ~closed
    <3>1. /\ idle' = Without(expired) /\ open' = open \ (ToSet(idle) \cap expired)
          /\ UNCHANGED <<closed, active, maxActive, waitCount, expired, returned, pc, conn, waitVars, closer>>
      BY <1>6, <2>2 DEF Clean
    <3>2. Lent' = Lent /\ Queued' = Queued
      BY <3>1, CallersStay
    <3>3. LendInv'
      BY <1>0, <1>6, <3>1, LendPruned
    <3>4. idle' \in Seq(Conns)
      BY <1>0, <3>1, WithoutKeeps DEF TypeOK
    <3>5. TypeOK'
      BY <1>0, <1>6, <3>1, <3>4 DEF TypeOK, Clean, Lock, waitVars
    <3> QED
      BY <1>0, <1>6, <3>1, <3>2, <3>3, <3>5 DEF ConnPoolInv, ActiveCounted, WaitCounted, NobodyWaits
  <2> QED
    BY <2>1, <2>2
<1>7. ASSUME CleanUnlock, Wait' = Wait PROVE ConnPoolInv'
  BY <1>0, <1>2, <1>7 DEF TypeOK, CleanUnlock, Unlock, poolVars, connVars, waitVars
<1>8. ASSUME Expire, Wait' = Wait PROVE ConnPoolInv'
  BY <1>0, <1>2, <1>8 DEF TypeOK, Expire, poolVars, waitVars
<1>9. ASSUME UNCHANGED vars PROVE ConnPoolInv'
  BY <1>0, <1>2, <1>9 DEF TypeOK, vars, poolVars, connVars, waitVars
<1> QED
  BY <1>1, <1>3, <1>4, <1>5, <1>6, <1>7, <1>8, <1>9 DEF Next

(* The invariant gives the properties.                                     *)
LEMMA PoolInvGives ==
    ASSUME ConnPoolInv
    PROVE  CountersExact /\ UsedByOne /\ NoLeak
<1>0. /\ TypeOK /\ ActiveCounted /\ WaitCounted /\ LendInv
      /\ DOMAIN idle = 1 .. Len(idle)
  BY DEF ConnPoolInv, TypeOK
<1>1. \A c \in Callers : c \in Holding <=> IsHolding(c)
  BY DEF Holding, IsHolding
<1>2. Holding \subseteq Callers
  BY DEF Holding
<1>3. CountersExact
  BY <1>0 DEF CountersExact, ActiveExact, WaitCountExact, ActiveCounted, WaitCounted, Lent, Queued, InWait
<1>4. UsedByOne
  BY <1>0, <1>1, <1>2 DEF UsedByOne, ExclusiveUse, LentStayOpen, LendInv, Contains
<1>5. NoLeak
  <2> SUFFICES ASSUME ~Wait, NEW k \in open PROVE k \in {conn[c] : c \in Holding} \cup ToSet(idle)
    BY DEF NoLeak
  <2>1. CASE \E c \in Callers : IsHolding(c) /\ conn[c] = k
    BY <1>1, <2>1
  <2>2. CASE \E i \in 1 .. Len(idle) : idle[i] = k
    BY <1>0, <2>2 DEF ToSet
  <2> QED
    BY <1>0, <2>1, <2>2 DEF LendInv
<1> QED
  BY <1>3, <1>4, <1>5

(* A new pool: nothing is lent, idle, open or waited for.                  *)
LEMMA PoolInitInv == Init => ConnPoolInv
<1> SUFFICES ASSUME Init PROVE ConnPoolInv
  OBVIOUS
<1>1. TypeOK
  <2>1. <<>> \in Seq(Conns) /\ <<>> \in Seq(Waits)
    OBVIOUS
  <2>2. idle \in Seq(Conns) /\ notify \in Seq(Waits)
    BY <2>1 DEF Init
  <2>3. pc \in [Callers -> {"out"}] /\ wait \in [Callers -> {0}] /\ waiter \in [Waits -> {"none"}]
    BY DEF Init
  <2>4. /\ wait \in [Callers -> 0 .. MaxWaits]
        /\ waiter \in [Waits -> {"none", "spawned", "added", "parked", "woken", "done"}]
    BY <2>3, PoolAssumption
  <2> QED
    BY <2>2, <2>3, <2>4, PoolAssumption DEF Init, TypeOK, Unlocking
<1>2. Lent = {} /\ Queued = {}
  BY DEF Init, Lent, Creating, Holding, Queued, InWait
<1>3. ActiveCounted /\ WaitCounted
  BY <1>2, FS_EmptySet DEF Init, ActiveCounted, WaitCounted
<1>4. \A c \in Callers : ~IsHolding(c) /\ pc[c] \notin InWait
  BY DEF Init, IsHolding, InWait
<1>5. \A i \in 1 .. Len(idle) : FALSE
  <2>1. Len(idle) = 0
    BY DEF Init
  <2> QED
    BY <2>1
<1>6. LendInv
  BY <1>4, <1>5 DEF Init, LendInv
<1> QED
  BY <1>1, <1>3, <1>4, <1>6 DEF ConnPoolInv, NobodyWaits

(* For any number of callers, connections and waits and any limits, with   *)
(* or without Options.Wait: p.active and p.waitCount are exact, a          *)
(* connection has one user and stays open while it is lent, and without    *)
(* Options.Wait none is left open that is neither lent nor idle            *)
(* (Get, Put, Close and cleaner of internal/connpool/pool.go).             *)
THEOREM PoolIsRight == Spec => [](CountersExact /\ UsedByOne /\ NoLeak)
BY PoolInitInv, PoolStepInv, PoolInvGives, PTL DEF Spec

-----------------------------------------------------------------------------
(* The adaptive pool *)

(* The monitor decides from a Status it read a while ago; what it read was *)
(* a limit in range.                                                       *)
SeenInRange ==
    monitor \in {"unlock-status", "decide", "apply"} =>
        seen.MaxActive \in MinConnections .. MaxConnections

AdaptivePoolInv ==
    ConnPoolInv /\ ATypeOK /\ MaxActiveInRange /\ SeenInRange /\ TotalWithinMaxConnections

(* The invariant of the base pool reads nothing but the base pool.         *)
LEMMA BaseKept ==
    ASSUME ConnPoolInv, UNCHANGED <<Others, idle, open>>, TypeOK'
    PROVE  ConnPoolInv'
<1>0. UNCHANGED <<Wait, closed, active, waitCount, pc, conn, idle, open>>
  BY DEF Others
<1>1. Lent' = Lent /\ Queued' = Queued /\ \A d \in Callers : (IsHolding(d))' <=> IsHolding(d)
  BY <1>0, CallersStay
<1>2. LendInv'
  BY <1>0, <1>1, LendKept DEF ConnPoolInv
<1> QED
  BY <1>0, <1>1, <1>2 DEF ConnPoolInv, ActiveCounted, WaitCounted, NobodyWaits

(* Hundredths of a product of naturals are a natural.                      *)
LEMMA HundredthsNat ==
    ASSUME NEW a \in Nat, NEW b \in Nat
    PROVE  (a * b) \div 100 \in Nat
<1>1. a * b \in Nat
  OBVIOUS
<1> QED
  BY <1>1

(* Scaling a limit in range gives a limit in range, up or down.            *)
LEMMA ScaledInRange ==
    ASSUME ATypeOK, seen.MaxActive \in MinConnections .. MaxConnections
    PROVE  NewMaxActive \in MinConnections .. MaxConnections
<1>1. /\ seen.MaxActive \in Nat /\ ScaleUp \in Nat /\ ScaleDown \in Nat
      /\ MinConnections \in Nat /\ MaxConnections \in Nat /\ MinConnections <= MaxConnections
  BY ScaleAssumption DEF ATypeOK
<1>2. (seen.MaxActive * ScaleUp) \div 100 \in Nat /\ (seen.MaxActive * ScaleDown) \div 100 \in Nat
  BY <1>1, HundredthsNat
<1>3. ScaledUp \in Nat /\ ScaledUp <= MaxConnections
  BY <1>1, <1>2 DEF ScaledUp
<1>4. ScaledDown \in Nat /\ ScaledDown >= MinConnections
  BY <1>1, <1>2 DEF ScaledDown
<1>5. CASE HighSeen /\ ScaledUp > seen.MaxActive
  BY <1>1, <1>3, <1>5 DEF NewMaxActive
<1>6. CASE ~(HighSeen /\ ScaledUp > seen.MaxActive) /\ LowSeen /\ ScaledDown < seen.MaxActive
  BY <1>1, <1>4, <1>6 DEF NewMaxActive
<1>7. CASE /\ ~(HighSeen /\ ScaledUp > seen.MaxActive)
           /\ ~(LowSeen /\ ScaledDown < seen.MaxActive)
  BY <1>7 DEF NewMaxActive
<1> QED
  BY <1>5, <1>6, <1>7

(* A step of the base pool keeps the connections within MaxConnections:    *)
(* one is made only when none is idle or in place of an expired one.       *)
LEMMA TotalStep ==
    ASSUME ConnPoolInv, MaxActiveInRange, TotalWithinMaxConnections, Next
    PROVE  TotalWithinMaxConnections' /\ maxActive' = maxActive
<1>0. /\ idle \in Seq(Conns) /\ Len(idle) \in Nat /\ active \in Nat /\ maxActive \in Nat
      /\ MaxConnections \in Nat /\ MinConnections \in Nat \ {0}
      /\ maxActive >= MinConnections /\ maxActive <= MaxConnections
  <2>1. idle \in Seq(Conns) /\ active \in Nat /\ maxActive \in Nat
    BY DEF ConnPoolInv, TypeOK
  <2>2. Len(idle) \in Nat
    BY <2>1, LenProperties
  <2> QED
    BY <2>1, <2>2, ScaleAssumption DEF MaxActiveInRange
<1>1. ASSUME active' = active, closed' = closed, idle' = idle, maxActive' = maxActive
      PROVE  TotalWithinMaxConnections' /\ maxActive' = maxActive
  BY <1>1 DEF TotalWithinMaxConnections
<1>2. Pop /\ idle # <<>> => Len(idle') = Len(idle) - 1 /\ Len(idle) \in Nat \ {0}
  BY <1>0, FrontOf DEF Pop
<1>3. Pop /\ idle = <<>> => Len(idle') = 0
  BY <1>0 DEF Pop
<1>4. ASSUME PopExpired, active' = active, closed' = closed, maxActive' = maxActive
      PROVE  TotalWithinMaxConnections' /\ maxActive' = maxActive
  <2>1. Len(idle') \in Nat /\ Len(idle') <= Len(idle)
    BY <1>0, <1>2, <1>3, <1>4 DEF PopExpired
  <2> QED
    BY <1>0, <1>4, <2>1 DEF TotalWithinMaxConnections
<1>5. ASSUME NEW c \in Callers, TakeIdle(c) PROVE TotalWithinMaxConnections' /\ maxActive' = maxActive
  <2>1. idle # <<>> /\ Pop /\ active' = active + 1 /\ closed' = closed /\ maxActive' = maxActive
    BY <1>5 DEF TakeIdle, IdleHit
  <2> QED
    BY <1>0, <1>2, <2>1 DEF TotalWithinMaxConnections
<1>6. ASSUME NEW c \in Callers, StartCreate(c) PROVE TotalWithinMaxConnections' /\ maxActive' = maxActive
  <2>1. Room /\ Pop /\ active' = active + 1 /\ closed' = closed /\ maxActive' = maxActive
    BY <1>6 DEF StartCreate, PopExpired
  <2>2. active < maxActive
    BY <1>0, <2>1 DEF Room
  <2>3. CASE idle = <<>>
    BY <1>0, <1>3, <2>1, <2>2, <2>3 DEF TotalWithinMaxConnections
  <2>4. CASE idle # <<>>
    BY <1>0, <1>2, <2>1, <2>4 DEF TotalWithinMaxConnections
  <2> QED
    BY <2>3, <2>4
<1>7. ASSUME NEW c \in Callers, CallerNext(c) PROVE TotalWithinMaxConnections' /\ maxActive' = maxActive
  <2>1. CASE GetClosed(c) \/ CallerUnlock(c) \/ FactoryOK(c) \/ FactoryErr(c) \/ WaitOver(c) \/ GiveUp(c)
    BY <1>1, <2>1 DEF GetClosed, CallerUnlock, FactoryOK, FactoryErr, WaitOver, GiveUp, poolVars
  <2>2. CASE GetOpen(c)
    BY <1>5, <1>6, <2>2 DEF GetOpen
  <2>3. CASE GetExhausted(c) \/ GetWait(c)
    BY <1>4, <2>3 DEF GetExhausted, GetWait
  <2>4. CASE UndoActive(c)
    <3>1. active' = active - 1 /\ closed' = closed /\ idle' = idle /\ maxActive' = maxActive
      BY <2>4 DEF UndoActive
    <3> QED
      BY <1>0, <3>1 DEF TotalWithinMaxConnections
  <2>5. CASE Retry(c)
    BY <1>1, <1>4, <1>5, <1>6, <2>5 DEF Retry
  <2>6. CASE CloseConn(c)
    <3>1. CASE PutClosed(c, conn[c])
      BY <1>1, <3>1 DEF PutClosed, poolVars
    <3>2. CASE active' = active - 1 /\ closed' = closed /\ idle' = idle /\ maxActive' = maxActive
      BY <1>0, <3>2 DEF TotalWithinMaxConnections
    <3>3. CASE active' = active - 1 /\ closed' = closed /\ idle' = Append(idle, conn[c]) /\ maxActive' = maxActive
      <4>1. Len(idle') = Len(idle) + 1
        BY <1>0, <3>3
      <4> QED
        BY <1>0, <3>3, <4>1 DEF TotalWithinMaxConnections
    <3> QED
      BY <2>6, <3>1, <3>2, <3>3 DEF CloseConn, PutSignal, PutIdle
  <2> QED
    BY <1>7, <2>1, <2>2, <2>3, <2>4, <2>5, <2>6 DEF CallerNext
<1>8. ASSUME NEW w \in Waits, WaiterNext(w) PROVE TotalWithinMaxConnections' /\ maxActive' = maxActive
  BY <1>1, <1>8 DEF WaiterNext, WaiterAdd, WaiterUnlock, WaiterLock, poolVars
<1>9. ASSUME ClosePool PROVE TotalWithinMaxConnections' /\ maxActive' = maxActive
  BY <1>9 DEF ClosePool, TotalWithinMaxConnections
<1>10. ASSUME Clean PROVE TotalWithinMaxConnections' /\ maxActive' = maxActive
  <2>1. CASE closed
    BY <1>1, <1>10, <2>1 DEF Clean
  <2>2. CASE ~closed
    <3>1. idle' = Without(expired) /\ UNCHANGED <<closed, active, maxActive>>
      BY <1>10, <2>2 DEF Clean
    <3>2. Len(idle') \in Nat /\ Len(idle') <= Len(idle)
      BY <1>0, <3>1, WithoutKeeps
    <3> QED
      BY <1>0, <3>1, <3>2 DEF TotalWithinMaxConnections
  <2> QED
    BY <2>1, <2>2
<1>11. ASSUME ClosePoolUnlock \/ CleanUnlock \/ Expire PROVE TotalWithinMaxConnections' /\ maxActive' = maxActive
  BY <1>1, <1>11 DEF ClosePoolUnlock, CleanUnlock, Expire, poolVars
<1> QED
  BY <1>7, <1>8, <1>9, <1>10, <1>11 DEF Next

(* Every step of the adaptive pool keeps the invariant.                    *)
LEMMA AdaptiveStepInv ==
    ASSUME AdaptivePoolInv, [ANext]_avars
    PROVE  AdaptivePoolInv'
<1>0. /\ ConnPoolInv /\ ATypeOK /\ MaxActiveInRange /\ SeenInRange /\ TotalWithinMaxConnections
      /\ TypeOK /\ LendInv
  BY DEF AdaptivePoolInv, ATypeOK, ConnPoolInv
<1>1. ASSUME UNCHANGED <<Others, maxActive, idle, open>>, mu' \in {"free", "held", "fatal"} PROVE
        ConnPoolInv' /\ TypeOK' /\ MaxActiveInRange' /\ TotalWithinMaxConnections'
  <2>1. TypeOK'
    BY <1>0, <1>1 DEF TypeOK, Others, waitVars
  <2>2. ConnPoolInv'
    BY <1>0, <1>1, <2>1, BaseKept
  <2> QED
    BY <1>0, <1>1, <2>1, <2>2 DEF Others, MaxActiveInRange, TotalWithinMaxConnections
<1>2. CASE Next /\ UNCHANGED <<health, monitor, seen>>
  <2>1. ConnPoolInv'
    BY <1>0, <1>2, PoolStepInv
  <2>2. TotalWithinMaxConnections' /\ maxActive' = maxActive
    BY <1>0, <1>2, TotalStep
  <2> QED
    BY <1>0, <1>2, <2>1, <2>2 DEF AdaptivePoolInv, ATypeOK, MaxActiveInRange, SeenInRange, ConnPoolInv
<1>3. CASE CheckHealth
  <2>1. PICK bad \in SUBSET ToSet(idle) : idle' = Without(bad) /\ open' = open \ bad
    BY <1>3 DEF CheckHealth
  <2>2. open' = open \ (ToSet(idle) \cap bad)
    BY <2>1
  <2>3. UNCHANGED <<Wait, closed, active, waitCount, expired, returned, pc, conn, wait, waiter, notify,
                    closer, cleaner, maxActive, monitor, seen>>
    BY <1>3 DEF CheckHealth, Others, waitVars
  <2>4. Lent' = Lent /\ Queued' = Queued
    BY <2>3, CallersStay
  <2>5. LendInv'
    BY <1>0, <2>1, <2>2, <2>3, LendPruned
  <2>6. idle' \in Seq(Conns) /\ Len(idle') \in Nat /\ Len(idle') <= Len(idle)
    BY <1>0, <2>1, WithoutKeeps DEF TypeOK
  <2>7. TypeOK'
    BY <1>0, <1>3, <2>1, <2>3, <2>6 DEF TypeOK, CheckHealth, Lock
  <2>8. ConnPoolInv'
    BY <1>0, <2>3, <2>4, <2>5, <2>7 DEF ConnPoolInv, ActiveCounted, WaitCounted, NobodyWaits
  <2>9. TotalWithinMaxConnections'
    <3>1. Len(idle) \in Nat /\ active \in Nat /\ MaxConnections \in Nat
      BY <1>0, ScaleAssumption DEF TypeOK
    <3> QED
      BY <1>0, <2>3, <2>6, <3>1 DEF TotalWithinMaxConnections
  <2> QED
    BY <1>0, <1>3, <2>3, <2>7, <2>8, <2>9
    DEF AdaptivePoolInv, ATypeOK, MaxActiveInRange, SeenInRange, CheckHealth
<1>4. CASE HealthUnlock
  <2>1. ConnPoolInv' /\ TypeOK' /\ MaxActiveInRange' /\ TotalWithinMaxConnections'
    BY <1>1, <1>4 DEF HealthUnlock, Unlock
  <2> QED
    BY <1>0, <1>4, <2>1 DEF AdaptivePoolInv, ATypeOK, SeenInRange, HealthUnlock
<1>5. CASE ReadStatus
  <2>1. ConnPoolInv' /\ TypeOK' /\ MaxActiveInRange' /\ TotalWithinMaxConnections'
    BY <1>1, <1>5 DEF ReadStatus, Lock
  <2>2. seen' \in [ActiveCount : Int, MaxActive : Nat, WaitCount : Int] /\ seen'.MaxActive = maxActive
    BY <1>0, <1>5 DEF ReadStatus, TypeOK
  <2> QED
    BY <1>0, <1>5, <2>1, <2>2 DEF AdaptivePoolInv, ATypeOK, SeenInRange, MaxActiveInRange, ReadStatus
<1>6. CASE StatusUnlock
  <2>1. ConnPoolInv' /\ TypeOK' /\ MaxActiveInRange' /\ TotalWithinMaxConnections'
    BY <1>1, <1>6 DEF StatusUnlock, Unlock
  <2> QED
    BY <1>0, <1>6, <2>1 DEF AdaptivePoolInv, ATypeOK, SeenInRange, StatusUnlock
<1>7. CASE Decide
  <2>1. ConnPoolInv' /\ TypeOK' /\ MaxActiveInRange' /\ TotalWithinMaxConnections'
    BY <1>0, <1>1, <1>7 DEF Decide, TypeOK
  <2>2. monitor' \in {"apply", "ticking"}
    BY <1>7 DEF Decide
  <2> QED
    BY <1>0, <1>7, <2>1, <2>2 DEF AdaptivePoolInv, ATypeOK, SeenInRange, Decide
<1>8. CASE Apply
  <2>1. UNCHANGED <<Others, idle, open, health, seen>> /\ mu' = "held" /\ maxActive' = NewMaxActive
        /\ monitor = "apply" /\ monitor' = "unlock-apply"
    BY <1>8 DEF Apply, Lock
  <2>2. NewMaxActive \in MinConnections .. MaxConnections
    BY <1>0, <2>1, ScaledInRange DEF SeenInRange
  <2>3. NewMaxActive \in Nat
    BY <2>2, ScaleAssumption
  <2>4. TypeOK'
    BY <1>0, <2>1, <2>3 DEF TypeOK, Others, waitVars
  <2>5. ConnPoolInv'
    BY <1>0, <2>1, <2>4, BaseKept
  <2>6. TotalWithinMaxConnections'
    BY <1>0, <2>1 DEF TotalWithinMaxConnections, Others
  <2> QED
    BY <1>0, <2>1, <2>2, <2>4, <2>5, <2>6 DEF AdaptivePoolInv, ATypeOK, SeenInRange, MaxActiveInRange
<1>9. CASE ApplyUnlock
  <2>1. ConnPoolInv' /\ TypeOK' /\ MaxActiveInRange' /\ TotalWithinMaxConnections'
    BY <1>1, <1>9 DEF ApplyUnlock, Unlock
  <2> QED
    BY <1>0, <1>9, <2>1 DEF AdaptivePoolInv, ATypeOK, SeenInRange, ApplyUnlock
<1>10. CASE StopHealth \/ StopMonitor \/ UNCHANGED avars
  <2>1. UNCHANGED vars
    BY <1>10 DEF StopHealth, StopMonitor, avars
  <2>2. ConnPoolInv' /\ TypeOK' /\ MaxActiveInRange' /\ TotalWithinMaxConnections'
    <3>1. UNCHANGED <<Others, maxActive, idle, open>> /\ mu' = mu
      BY <2>1 DEF vars, poolVars, connVars, waitVars, Others
    <3> QED
      BY <1>0, <1>1, <3>1 DEF TypeOK
  <2> QED
    BY <1>0, <1>10, <2>2 DEF AdaptivePoolInv, ATypeOK, SeenInRange, StopHealth, StopMonitor, avars
<1> QED
  BY <1>2, <1>3, <1>4, <1>5, <1>6, <1>7, <1>8, <1>9, <1>10 DEF ANext

(* A new adaptive pool.                                                    *)
LEMMA AdaptiveInitInv == AInit => AdaptivePoolInv
<1> SUFFICES ASSUME AInit PROVE AdaptivePoolInv
  OBVIOUS
<1>1. ConnPoolInv /\ Init
  BY PoolInitInv DEF AInit
<1>2. TypeOK /\ idle = <<>> /\ active = 0 /\ maxActive = InitMaxActive
  BY <1>1 DEF ConnPoolInv, Init
<1>3. ATypeOK /\ SeenInRange
  BY <1>2 DEF AInit, ATypeOK, SeenInRange
<1>4. TotalWithinMaxConnections /\ MaxActiveInRange
  <2>1. Len(idle) = 0
    BY <1>2
  <2> QED
    BY <1>2, <2>1, ScaleAssumption DEF TotalWithinMaxConnections, MaxActiveInRange
<1> QED
  BY <1>1, <1>3, <1>4 DEF AdaptivePoolInv

(* With the health checker and the load monitor running, for any limits    *)
(* and scale factors: MaxActive stays in its range and the connections,    *)
(* lent and idle, within MaxConnections, although the monitor decides from *)
(* a Status that is old by then (checkAndAdjustPool).                      *)
THEOREM LimitsAreKept == ASpec => []LimitsHold
<1>1. AdaptivePoolInv => LimitsHold
  BY DEF AdaptivePoolInv, LimitsHold
<1> QED
  BY <1>1, AdaptiveInitInv, AdaptiveStepInv, PTL DEF ASpec

(* The same pool: the counters are exact whatever the checker and the      *)
(* monitor do between the sections of Get and Put.                         *)
THEOREM AdaptiveCounters == ASpec => []CountersExact
<1>1. AdaptivePoolInv => CountersExact
  BY PoolInvGives DEF AdaptivePoolInv
<1> QED
  BY <1>1, AdaptiveInitInv, AdaptiveStepInv, PTL DEF ASpec

(* The health checker closes no connection that a caller uses, and what    *)
(* it leaves idle is open (checkHealth).                                   *)
THEOREM AdaptiveUse == ASpec => []UsedByOne
<1>1. AdaptivePoolInv => UsedByOne
  BY PoolInvGives DEF AdaptivePoolInv
<1> QED
  BY <1>1, AdaptiveInitInv, AdaptiveStepInv, PTL DEF ASpec

(* Without Options.Wait no connection stays open that is neither lent nor  *)
(* idle, through expiry, health checks and Close.                          *)
THEOREM AdaptiveNoLeak == ASpec => []NoLeak
<1>1. AdaptivePoolInv => NoLeak
  BY PoolInvGives DEF AdaptivePoolInv
<1> QED
  BY <1>1, AdaptiveInitInv, AdaptiveStepInv, PTL DEF ASpec
=============================================================================
