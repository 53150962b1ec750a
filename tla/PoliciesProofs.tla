--------------------------- MODULE PoliciesProofs ---------------------------
(***************************************************************************)
(* Proofs about the client's policies, for any number of connections,      *)
(* callers and attempts and any weights and delays: LeastActive picks the  *)
(* connection with the fewest calls, WeightRoundRobin keeps its weights    *)
(* exact although results race with picks, Backoff keeps its delays and    *)
(* its attempts within bounds, and Pickers follow the filter, take turns   *)
(* and draw by weight.  What the recursive definitions in them (sums,      *)
(* powers of two) compute is proved by induction on the least number, or   *)
(* the smallest set, for which it would be wrong.                          *)
(***************************************************************************)
EXTENDS LeastActive, WeightRoundRobin, Backoff, Pickers, FiniteSetTheorems, WellFoundedInduction, TLAPS

-----------------------------------------------------------------------------
(* Induction *)

(* A set of naturals has a least element.  A property of every natural is  *)
(* proved below from the least one that would not have it.                 *)
LEMMA LeastBy ==
    ASSUME NEW R, IsWellFoundedOn(R, Nat), \A x, y \in Nat : <<y, x>> \in R <=> y < x,
           NEW T, T \subseteq Nat, T # {}
    PROVE  \E x \in T : \A y \in T : x <= y
<1>1. PICK x \in T : \A y \in T : ~(<<y, x>> \in R)
  BY WFMin
<1>2. ASSUME NEW y \in T PROVE x <= y
  <2>1. x \in Nat /\ y \in Nat
    OBVIOUS
  <2>2. ~(y < x)
    BY <1>1, <2>1
  <2> QED
    BY <2>1, <2>2
<1> QED
  BY <1>2

LEMMA LeastElement ==
    ASSUME NEW T, T \subseteq Nat, T # {}
    PROVE  \E x \in T : \A y \in T : x <= y
<1> DEFINE R == OpToRel(<, Nat)
<1>1. IsWellFoundedOn(R, Nat)
  BY NatLessThanWellFounded, Zenon
<1>2. \A x, y \in Nat : <<y, x>> \in R <=> y < x
  BY DEF OpToRel
<1> HIDE DEF R
<1> QED
  BY <1>1, <1>2, LeastBy, Zenon

(* A set of subsets of a finite set has one that is smallest.              *)
LEMMA SmallestSubset ==
    ASSUME NEW D, IsFiniteSet(D), NEW B, B \subseteq SUBSET D, B # {}
    PROVE  \E s \in B : \A t \in B : Cardinality(s) <= Cardinality(t)
<1> DEFINE T == {Cardinality(s) : s \in B}
<1>1. \A s \in B : Cardinality(s) \in Nat
  BY FS_Subset, FS_CardinalityType
<1>2. T \subseteq Nat /\ T # {}
  BY <1>1
<1>3. PICK n \in T : \A m \in T : n <= m
  <2> HIDE DEF T
  <2> QED
    BY <1>2, LeastElement
<1> QED
  BY <1>3

-----------------------------------------------------------------------------
(* Sums.  SumFunction folds a function by taking some element of what is   *)
(* left of its domain; partial sums are the sums of the subsets.           *)

One(s) == CHOOSE x \in s : TRUE
SumsTo(f, g, B) ==
    \A s \in B : g[s] = IF s = {} THEN 0 ELSE f[One(s)] + g[s \ {One(s)}]
Sums(f) == CHOOSE g : g = [s \in SUBSET DOMAIN f |->
                              IF s = {} THEN 0 ELSE f[One(s)] + g[s \ {One(s)}]]
SubsetsUpTo(D, n) == {s \in SUBSET D : Cardinality(s) <= n}

LEMMA SumIsSums == ASSUME NEW f PROVE SumFunction(f) = Sums(f)[DOMAIN f]
BY DEF SumFunction, SumFunctionOnSet, FoldFunctionOnSet, MapThenFoldSet, Sums, One

(* What is left of a set without one of its elements is smaller.           *)
LEMMA OneLess ==
    ASSUME NEW D, IsFiniteSet(D), NEW s \in SUBSET D, s # {}
    PROVE  /\ One(s) \in s /\ s \ {One(s)} \in SUBSET D
           /\ Cardinality(s) \in Nat /\ Cardinality(s) > 0
           /\ Cardinality(s \ {One(s)}) = Cardinality(s) - 1
<1>1. One(s) \in s
  BY DEF One
<1>2. IsFiniteSet(s)
  BY FS_Subset
<1>3. Cardinality(s) \in Nat
  BY <1>2, FS_CardinalityType
<1>4. Cardinality(s \ {One(s)}) = Cardinality(s) - 1
  BY <1>1, <1>2, FS_RemoveElement
<1>5. Cardinality(s) # 0
  BY <1>2, FS_EmptySet
<1> QED
  BY <1>1, <1>3, <1>4, <1>5

LEMMA SumsExist ==
    ASSUME NEW f, IsFiniteSet(DOMAIN f), NEW n \in Nat
    PROVE  \E g : DOMAIN g = SubsetsUpTo(DOMAIN f, n) /\ SumsTo(f, g, SubsetsUpTo(DOMAIN f, n))
<1> DEFINE P(g, k) == DOMAIN g = SubsetsUpTo(DOMAIN f, k) /\ SumsTo(f, g, SubsetsUpTo(DOMAIN f, k))
           K == {k \in Nat : ~\E g : P(g, k)}
<1> SUFFICES ASSUME n \in K PROVE FALSE
  OBVIOUS
<1>1. PICK m \in K : \A y \in K : m <= y
  <2>1. K \subseteq Nat /\ K # {}
    OBVIOUS
  <2> HIDE DEF K
  <2> QED
    BY <2>1, LeastElement
<1>2. CASE m = 0
  <2> DEFINE g == [s \in SubsetsUpTo(DOMAIN f, 0) |-> 0]
  <2>1. \A s \in SubsetsUpTo(DOMAIN f, 0) : s = {}
    <3> SUFFICES ASSUME NEW s \in SubsetsUpTo(DOMAIN f, 0), s # {} PROVE FALSE
      OBVIOUS
    <3>1. s \in SUBSET DOMAIN f /\ Cardinality(s) <= 0
      BY DEF SubsetsUpTo
    <3>2. Cardinality(s) \in Nat /\ Cardinality(s) > 0
      BY <3>1, OneLess
    <3> QED
      BY <3>1, <3>2
  <2>2. P(g, 0)
    BY <2>1 DEF SumsTo
  <2> QED
    BY <1>2, <2>2
<1>3. CASE m # 0
  <2>1. m \in Nat /\ m - 1 \in Nat /\ ~(m <= m - 1)
    BY <1>3
  <2>2. PICK g : P(g, m - 1)
    BY <1>1, <2>1
  <2> DEFINE A == SubsetsUpTo(DOMAIN f, m - 1)
             B == SubsetsUpTo(DOMAIN f, m)
             h == [s \in B |-> IF s = {} THEN 0 ELSE f[One(s)] + g[s \ {One(s)}]]
  <2>3. A \subseteq B
    <3> SUFFICES ASSUME NEW s \in A PROVE s \in B
      OBVIOUS
    <3>1. s \in SUBSET DOMAIN f /\ Cardinality(s) <= m - 1
      BY DEF SubsetsUpTo
    <3>2. Cardinality(s) \in Nat
      BY <3>1, FS_Subset, FS_CardinalityType
    <3>3. Cardinality(s) <= m
      BY <2>1, <3>1, <3>2
    <3> QED
      BY <3>1, <3>3 DEF SubsetsUpTo
  <2>4. ASSUME NEW s \in B, s # {} PROVE s \ {One(s)} \in A
    <3>1. s \in SUBSET DOMAIN f /\ Cardinality(s) <= m
      BY DEF SubsetsUpTo
    <3>2. /\ s \ {One(s)} \in SUBSET DOMAIN f /\ Cardinality(s) \in Nat
          /\ Cardinality(s \ {One(s)}) = Cardinality(s) - 1
      BY <2>4, <3>1, OneLess
    <3>3. Cardinality(s \ {One(s)}) <= m - 1
      BY <2>1, <3>1, <3>2
    <3> QED
      BY <3>2, <3>3 DEF SubsetsUpTo
  <2>5. SumsTo(f, g, A)
    BY <2>2
  <2> HIDE DEF A, B
  <2>6. ASSUME NEW t \in A PROVE h[t] = g[t]
    BY <2>3, <2>5 DEF SumsTo
  <2>7. SumsTo(f, h, B)
    <3> SUFFICES ASSUME NEW s \in B
                 PROVE  h[s] = IF s = {} THEN 0 ELSE f[One(s)] + h[s \ {One(s)}]
      BY DEF SumsTo
    <3>1. h[s] = IF s = {} THEN 0 ELSE f[One(s)] + g[s \ {One(s)}]
      OBVIOUS
    <3>2. s # {} => h[s \ {One(s)}] = g[s \ {One(s)}]
      BY <2>4, <2>6
    <3> HIDE DEF h
    <3> QED
      BY <3>1, <3>2
  <2>8. DOMAIN h = B
    OBVIOUS
  <2> HIDE DEF h
  <2>9. P(h, m)
    BY <2>7, <2>8 DEF B
  <2> QED
    BY <2>9
<1> QED
  BY <1>2, <1>3

(* The partial sums are defined for every function with a finite domain. *)
LEMMA SumsDefined ==
    ASSUME NEW f, IsFiniteSet(DOMAIN f)
    PROVE  SumsTo(f, Sums(f), SUBSET DOMAIN f)
<1> DEFINE n == Cardinality(DOMAIN f)
           B == SUBSET DOMAIN f
           E(g) == [s \in B |-> IF s = {} THEN 0 ELSE f[One(s)] + g[s \ {One(s)}]]
<1>1. n \in Nat
  BY FS_CardinalityType
<1>2. SubsetsUpTo(DOMAIN f, n) = B
  <2>1. \A s \in B : Cardinality(s) <= n
    BY FS_Subset
  <2> QED
    BY <2>1 DEF SubsetsUpTo
<1>3. PICK g : DOMAIN g = B /\ SumsTo(f, g, B)
  <2> HIDE DEF n, B
  <2> QED
    BY <1>1, <1>2, SumsExist
<1>4. PICK h : h = E(g)
  OBVIOUS
<1>5. \A s \in B : g[s] = h[s]
  BY <1>3, <1>4 DEF SumsTo
<1>6. \A s \in B : s \ {One(s)} \in B
  OBVIOUS
<1>7. h = E(h)
  BY <1>4, <1>5, <1>6
<1>8. Sums(f) = E(Sums(f))
  BY <1>7 DEF Sums
<1>9. PICK r : r = Sums(f)
  OBVIOUS
<1>10. r = E(r)
  BY <1>8, <1>9
<1>11. SumsTo(f, r, B)
  BY <1>10 DEF SumsTo
<1> QED
  BY <1>9, <1>11

(* The sum of integers is one. *)
LEMMA SumsAreInts ==
    ASSUME NEW D, IsFiniteSet(D), NEW f \in [D -> Int], NEW s \in SUBSET D
    PROVE  Sums(f)[s] \in Int
<1> DEFINE B == {t \in SUBSET D : Sums(f)[t] \notin Int}
<1> SUFFICES ASSUME s \in B PROVE FALSE
  OBVIOUS
<1>1. PICK t \in B : \A y \in B : Cardinality(t) <= Cardinality(y)
  <2>1. B \subseteq SUBSET D /\ B # {}
    OBVIOUS
  <2> HIDE DEF B
  <2> QED
    BY <2>1, SmallestSubset
<1>2. Sums(f)[t] = IF t = {} THEN 0 ELSE f[One(t)] + Sums(f)[t \ {One(t)}]
  BY SumsDefined DEF SumsTo
<1>3. t # {}
  BY <1>2
<1>4. /\ One(t) \in D /\ t \ {One(t)} \in SUBSET D /\ Cardinality(t) \in Nat
      /\ Cardinality(t \ {One(t)}) = Cardinality(t) - 1
  BY <1>3, OneLess
<1>5. ~(Cardinality(t) <= Cardinality(t \ {One(t)}))
  BY <1>4
<1>6. Sums(f)[t \ {One(t)}] \in Int
  BY <1>1, <1>4, <1>5
<1>7. f[One(t)] \in Int
  BY <1>4
<1> QED
  BY <1>2, <1>3, <1>6, <1>7

(* A function that differs at c only has a sum that differs by as much. *)
LEMMA SumsDiffer ==
    ASSUME NEW D, IsFiniteSet(D), NEW f \in [D -> Int], NEW h \in [D -> Int], NEW c \in D,
           \A x \in D : x # c => h[x] = f[x], NEW s \in SUBSET D
    PROVE  Sums(h)[s] = Sums(f)[s] + IF c \in s THEN h[c] - f[c] ELSE 0
<1> DEFINE B == {t \in SUBSET D : Sums(h)[t] # Sums(f)[t] + IF c \in t THEN h[c] - f[c] ELSE 0}
<1> SUFFICES ASSUME s \in B PROVE FALSE
  OBVIOUS
<1>1. PICK t \in B : \A y \in B : Cardinality(t) <= Cardinality(y)
  <2>1. B \subseteq SUBSET D /\ B # {}
    OBVIOUS
  <2> HIDE DEF B
  <2> QED
    BY <2>1, SmallestSubset
<1>2. /\ Sums(f)[t] = IF t = {} THEN 0 ELSE f[One(t)] + Sums(f)[t \ {One(t)}]
      /\ Sums(h)[t] = IF t = {} THEN 0 ELSE h[One(t)] + Sums(h)[t \ {One(t)}]
  BY SumsDefined DEF SumsTo
<1>3. t # {}
  BY <1>2
<1>4. PICK x \in D : x = One(t) /\ x \in t
  BY <1>3, OneLess
<1>5. PICK r \in SUBSET D : r = t \ {x}
  BY <1>4
<1>6. Cardinality(t) \in Nat /\ Cardinality(r) = Cardinality(t) - 1
  BY <1>3, <1>4, <1>5, OneLess
<1>7. ~(Cardinality(t) <= Cardinality(r))
  BY <1>6
<1>8. Sums(h)[r] = Sums(f)[r] + IF c \in r THEN h[c] - f[c] ELSE 0
  BY <1>1, <1>7
<1>9. /\ Sums(f)[r] \in Int /\ f[c] \in Int /\ h[c] \in Int
      /\ f[x] \in Int /\ h[x] \in Int
  BY SumsAreInts
<1>10. Sums(f)[t] = f[x] + Sums(f)[r] /\ Sums(h)[t] = h[x] + Sums(h)[r]
  BY <1>2, <1>3, <1>4, <1>5
<1>11. Sums(h)[t] # Sums(f)[t] + IF c \in t THEN h[c] - f[c] ELSE 0
  OBVIOUS
<1>12. CASE x = c
  <2>1. c \in t /\ c \notin r
    BY <1>4, <1>5, <1>12
  <2>2. Sums(h)[r] = Sums(f)[r]
    BY <1>8, <1>9, <2>1
  <2>3. Sums(h)[t] # Sums(f)[t] + (h[c] - f[c])
    BY <1>11, <2>1
  <2> QED
    BY <1>9, <1>10, <1>12, <2>2, <2>3
<1>13. CASE x # c
  <2>1. h[x] = f[x] /\ (c \in t <=> c \in r)
    BY <1>5, <1>13
  <2>2. PICK d \in Int : d = IF c \in t THEN h[c] - f[c] ELSE 0
    BY <1>9
  <2>3. Sums(h)[r] = Sums(f)[r] + d
    BY <1>8, <2>1, <2>2
  <2>4. Sums(h)[t] # Sums(f)[t] + d
    BY <1>11, <2>2
  <2> QED
    BY <1>9, <1>10, <2>1, <2>3, <2>4
<1> QED
  BY <1>12, <1>13

LEMMA SumChanges ==
    ASSUME NEW D, IsFiniteSet(D), NEW f \in [D -> Int], NEW h \in [D -> Int], NEW c \in D,
           \A x \in D : x # c => h[x] = f[x]
    PROVE  /\ SumFunction(f) \in Int /\ SumFunction(h) \in Int
           /\ SumFunction(h) = SumFunction(f) + h[c] - f[c]
<1>1. D \in SUBSET D /\ DOMAIN f = D /\ DOMAIN h = D
  OBVIOUS
<1>2. SumFunction(f) = Sums(f)[D] /\ SumFunction(h) = Sums(h)[D]
  BY <1>1, SumIsSums
<1>3. Sums(f)[D] \in Int /\ Sums(h)[D] \in Int
  BY <1>1, SumsAreInts
<1>4. Sums(h)[D] = Sums(f)[D] + IF c \in D THEN h[c] - f[c] ELSE 0
  BY <1>1, SumsDiffer
<1>5. f[c] \in Int /\ h[c] \in Int
  OBVIOUS
<1> QED
  BY <1>2, <1>3, <1>4, <1>5

LEMMA SumOfInts ==
    ASSUME NEW D, IsFiniteSet(D), NEW f \in [D -> Int]
    PROVE  SumFunction(f) \in Int
<1>1. D \in SUBSET D /\ DOMAIN f = D
  OBVIOUS
<1> QED
  BY <1>1, SumIsSums, SumsAreInts

(* The sum of zeros is zero. *)
LEMMA SumOfZeros ==
    ASSUME NEW D, IsFiniteSet(D)
    PROVE  SumFunction([x \in D |-> 0]) = 0
<1>1. PICK f : f = [x \in D |-> 0]
  OBVIOUS
<1>2. f \in [D -> Int] /\ DOMAIN f = D /\ \A x \in D : f[x] = 0
  BY <1>1
<1> DEFINE B == {t \in SUBSET D : Sums(f)[t] # 0}
<1>3. B = {}
  <2> SUFFICES ASSUME B # {} PROVE FALSE
    OBVIOUS
  <2>1. PICK t \in B : \A y \in B : Cardinality(t) <= Cardinality(y)
    <3>1. B \subseteq SUBSET D
      OBVIOUS
    <3> HIDE DEF B
    <3> QED
      BY <3>1, SmallestSubset
  <2>2. Sums(f)[t] = IF t = {} THEN 0 ELSE f[One(t)] + Sums(f)[t \ {One(t)}]
    BY <1>2, SumsDefined DEF SumsTo
  <2>3. t # {}
    BY <2>2
  <2>4. /\ One(t) \in D /\ t \ {One(t)} \in SUBSET D /\ Cardinality(t) \in Nat
        /\ Cardinality(t \ {One(t)}) = Cardinality(t) - 1
    BY <2>3, OneLess
  <2>5. ~(Cardinality(t) <= Cardinality(t \ {One(t)}))
    BY <2>4
  <2>6. Sums(f)[t \ {One(t)}] = 0 /\ f[One(t)] = 0
    BY <1>2, <2>1, <2>4, <2>5
  <2> QED
    BY <2>2, <2>3, <2>6
<1>4. Sums(f)[D] = 0
  <2>1. D \in SUBSET D /\ D \notin B
    BY <1>3
  <2> QED
    BY <2>1
<1> QED
  BY <1>1, <1>2, <1>4, SumIsSums

(* Any element may be the first one taken.                                 *)
LEMMA SumsRemove ==
    ASSUME NEW D, IsFiniteSet(D), NEW f \in [D -> Int], NEW s \in SUBSET D, NEW c \in s
    PROVE  Sums(f)[s] = f[c] + Sums(f)[s \ {c}]
<1> DEFINE B == {t \in SUBSET D : \E x \in t : Sums(f)[t] # f[x] + Sums(f)[t \ {x}]}
<1> SUFFICES ASSUME s \in B PROVE FALSE
  OBVIOUS
<1>1. PICK t \in B : \A y \in B : Cardinality(t) <= Cardinality(y)
  <2>1. B \subseteq SUBSET D /\ B # {}
    OBVIOUS
  <2> HIDE DEF B
  <2> QED
    BY <2>1, SmallestSubset
<1>2. PICK x \in t : Sums(f)[t] # f[x] + Sums(f)[t \ {x}]
  OBVIOUS
<1>3. t \in SUBSET D /\ x \in D
  OBVIOUS
<1>4. PICK y \in D : y = One(t) /\ y \in t
  BY <1>2, <1>3, OneLess
<1>5. Sums(f)[t] = f[y] + Sums(f)[t \ {y}]
  <2>1. t # {}
    BY <1>2
  <2>2. Sums(f)[t] = IF t = {} THEN 0 ELSE f[One(t)] + Sums(f)[t \ {One(t)}]
    BY SumsDefined DEF SumsTo
  <2> QED
    BY <1>4, <2>1, <2>2
<1>6. x # y
  BY <1>2, <1>5
<1>7. ASSUME NEW z \in t PROVE t \ {z} \in SUBSET D /\ t \ {z} \notin B
  <2>1. IsFiniteSet(t)
    BY <1>3, FS_Subset
  <2>2. Cardinality(t) \in Nat /\ Cardinality(t \ {z}) = Cardinality(t) - 1
    BY <2>1, FS_CardinalityType, FS_RemoveElement
  <2>3. ~(Cardinality(t) <= Cardinality(t \ {z}))
    BY <2>2
  <2> HIDE DEF B
  <2> QED
    BY <1>1, <1>3, <2>3
<1>8. Sums(f)[t \ {y}] = f[x] + Sums(f)[(t \ {y}) \ {x}]
  <2>1. t \ {y} \in SUBSET D /\ t \ {y} \notin B
    BY <1>4, <1>7
  <2>2. x \in t \ {y}
    BY <1>6
  <2> QED
    BY <2>1, <2>2
<1>9. Sums(f)[t \ {x}] = f[y] + Sums(f)[(t \ {x}) \ {y}]
  <2>1. t \ {x} \in SUBSET D /\ t \ {x} \notin B
    BY <1>7
  <2>2. y \in t \ {x}
    BY <1>4, <1>6
  <2> QED
    BY <2>1, <2>2
<1>10. PICK r \in SUBSET D : r = (t \ {y}) \ {x} /\ r = (t \ {x}) \ {y}
  BY <1>3
<1>11. Sums(f)[r] \in Int /\ f[x] \in Int /\ f[y] \in Int
  BY <1>3, SumsAreInts
<1>12. Sums(f)[t] = f[y] + (f[x] + Sums(f)[r]) /\ Sums(f)[t \ {x}] = f[y] + Sums(f)[r]
  BY <1>5, <1>8, <1>9, <1>10
<1>13. f[y] + (f[x] + Sums(f)[r]) = f[x] + (f[y] + Sums(f)[r])
  BY <1>11
<1> QED
  BY <1>2, <1>12, <1>13

(* A sum depends on the terms alone.                                       *)
LEMMA SumsAgree ==
    ASSUME NEW D, IsFiniteSet(D), NEW f \in [D -> Int], NEW E, IsFiniteSet(E), NEW h \in [E -> Int],
           NEW s, s \subseteq D, s \subseteq E, \A x \in s : f[x] = h[x]
    PROVE  Sums(f)[s] = Sums(h)[s]
<1> DEFINE B == {t \in SUBSET s : Sums(f)[t] # Sums(h)[t]}
<1> SUFFICES ASSUME s \in B PROVE FALSE
  OBVIOUS
<1>0. IsFiniteSet(s)
  BY FS_Subset
<1>1. PICK t \in B : \A y \in B : Cardinality(t) <= Cardinality(y)
  <2>1. B \subseteq SUBSET s /\ B # {}
    OBVIOUS
  <2> HIDE DEF B
  <2> QED
    BY <1>0, <2>1, SmallestSubset
<1>2. t \in SUBSET s /\ t \in SUBSET D /\ t \in SUBSET E /\ Sums(f)[t] # Sums(h)[t]
  OBVIOUS
<1>3. Sums(f)[t] = IF t = {} THEN 0 ELSE f[One(t)] + Sums(f)[t \ {One(t)}]
  BY <1>2, SumsDefined DEF SumsTo
<1>4. Sums(h)[t] = IF t = {} THEN 0 ELSE h[One(t)] + Sums(h)[t \ {One(t)}]
  BY <1>2, SumsDefined DEF SumsTo
<1>5. t # {}
  BY <1>2, <1>3, <1>4
<1>6. /\ One(t) \in t /\ t \ {One(t)} \in SUBSET s /\ Cardinality(t) \in Nat
      /\ Cardinality(t \ {One(t)}) = Cardinality(t) - 1
  BY <1>0, <1>2, <1>5, OneLess
<1>7. ~(Cardinality(t) <= Cardinality(t \ {One(t)}))
  BY <1>6
<1>8. Sums(f)[t \ {One(t)}] = Sums(h)[t \ {One(t)}]
  BY <1>1, <1>6, <1>7
<1> QED
  BY <1>2, <1>3, <1>4, <1>5, <1>6, <1>8

(* The sum of naturals is one.                                             *)
LEMMA SumsAreNats ==
    ASSUME NEW D, IsFiniteSet(D), NEW f \in [D -> Nat], NEW s \in SUBSET D
    PROVE  Sums(f)[s] \in Nat
<1> DEFINE B == {t \in SUBSET D : Sums(f)[t] \notin Nat}
<1> SUFFICES ASSUME s \in B PROVE FALSE
  OBVIOUS
<1>1. PICK t \in B : \A y \in B : Cardinality(t) <= Cardinality(y)
  <2>1. B \subseteq SUBSET D /\ B # {}
    OBVIOUS
  <2> HIDE DEF B
  <2> QED
    BY <2>1, SmallestSubset
<1>2. Sums(f)[t] = IF t = {} THEN 0 ELSE f[One(t)] + Sums(f)[t \ {One(t)}]
  BY SumsDefined DEF SumsTo
<1>3. t # {}
  BY <1>2
<1>4. /\ One(t) \in D /\ t \ {One(t)} \in SUBSET D /\ Cardinality(t) \in Nat
      /\ Cardinality(t \ {One(t)}) = Cardinality(t) - 1
  BY <1>3, OneLess
<1>5. ~(Cardinality(t) <= Cardinality(t \ {One(t)}))
  BY <1>4
<1>6. Sums(f)[t \ {One(t)}] \in Nat
  BY <1>1, <1>4, <1>5
<1>7. f[One(t)] \in Nat
  BY <1>4
<1> QED
  BY <1>2, <1>3, <1>6, <1>7

(* No term is above the sum.                                               *)
LEMMA TermsWithinSum ==
    ASSUME NEW D, IsFiniteSet(D), NEW f \in [D -> Nat]
    PROVE  SumFunction(f) \in Nat /\ \A c \in D : f[c] <= SumFunction(f)
<1>1. DOMAIN f = D /\ f \in [D -> Int] /\ D \in SUBSET D
  OBVIOUS
<1>2. SumFunction(f) = Sums(f)[D]
  BY <1>1, SumIsSums
<1>3. Sums(f)[D] \in Nat
  BY <1>1, SumsAreNats
<1>4. ASSUME NEW c \in D PROVE f[c] <= Sums(f)[D]
  <2>0. PICK h \in [D -> Int] : h = f
    BY <1>1
  <2>1. Sums(f)[D] = f[c] + Sums(f)[D \ {c}]
    <3> HIDE <1>1
    <3>1. Sums(h)[D] = h[c] + Sums(h)[D \ {c}]
      BY SumsRemove
    <3> QED
      BY <2>0, <3>1
  <2>2. D \ {c} \in SUBSET D
    OBVIOUS
  <2>3. Sums(f)[D \ {c}] \in Nat
    BY <2>2, SumsAreNats
  <2>4. f[c] \in Nat
    OBVIOUS
  <2> QED
    BY <2>1, <2>3, <2>4
<1> QED
  BY <1>2, <1>3, <1>4

(* One more term adds to the sum.                                          *)
LEMMA SumGrows ==
    ASSUME NEW D, IsFiniteSet(D), NEW n \in D, NEW E, E \subseteq D, n \notin E, \A k \in D \ {n} : k \in E,
    NEW a \in [D -> Int], 
           NEW b \in [E -> Int], \A k \in E : a[k] = b[k]
    PROVE  SumFunction(b) \in Int /\ SumFunction(a) = SumFunction(b) + a[n]
<1>1. DOMAIN a = D /\ DOMAIN b = E /\ E = D \ {n} /\ D \in SUBSET D /\ E \in SUBSET E /\ E \subseteq D /\ E \subseteq E
  OBVIOUS
<1>2. IsFiniteSet(E)
  BY <1>1, FS_Subset
<1>3. SumFunction(a) = Sums(a)[D] /\ SumFunction(b) = Sums(b)[E]
  BY <1>1, SumIsSums
<1>4. Sums(a)[D] = a[n] + Sums(a)[D \ {n}]
  BY <1>1, SumsRemove
<1>5. Sums(a)[E] = Sums(b)[E]
  BY <1>1, <1>2, SumsAgree
<1>6. Sums(b)[E] \in Int
  BY <1>1, <1>2, SumsAreInts
<1>7. a[n] \in Int
  OBVIOUS
<1> QED
  BY <1>1, <1>3, <1>4, <1>5, <1>6, <1>7

(* The sum of the first n terms is that of the first n - 1 and the n-th.   *)
LEMMA PrefixSums ==
    ASSUME NEW m \in Nat, NEW f \in [1 .. m -> Nat], NEW n \in 1 .. m
    PROVE  SumFunction([k \in 1 .. n |-> f[k]]) = SumFunction([k \in 1 .. n - 1 |-> f[k]]) + f[n]
<1>1. PICK a : a = [k \in 1 .. n |-> f[k]]
  OBVIOUS
<1>2. PICK b : b = [k \in 1 .. n - 1 |-> f[k]]
  OBVIOUS
<1>3. PICK D : D = 1 .. n
  OBVIOUS
<1>4. PICK E : E = 1 .. n - 1
  OBVIOUS
<1>5. PICK x \in D : x = n
  BY <1>3
<1>6. /\ a \in [D -> Int] /\ b \in [E -> Int] /\ a[x] = f[n]
      /\ E \subseteq D /\ x \notin E /\ (\A k \in D \ {x} : k \in E) /\ \A k \in E : a[k] = b[k]
  BY <1>1, <1>2, <1>3, <1>4, <1>5
<1>7. IsFiniteSet(D)
  BY <1>3, FS_Interval
<1>8. SumFunction(a) = SumFunction(b) + a[x]
  BY <1>6, <1>7, SumGrows
<1> QED
  BY <1>1, <1>2, <1>6, <1>8

-----------------------------------------------------------------------------
(* Weighted round robin *)

(* A call that has a connection names one, and a weight that will be       *)
(* swapped is not at the bound its result could take it over.              *)
HeldByCalls ==
    \A u \in Users : user[u] \in {"call", "load", "swap"} => heldConn[u] \in Backends
LoadedInside ==
    \A u \in Users : user[u] = "swap" => loaded[u] # IF failed[u] THEN 0 ELSE Width - 1
WeightsTyped ==
    /\ weight \in [Backends -> Uint] /\ shift \in [Backends -> Int]
    /\ failed \in [Users -> BOOLEAN]
    /\ scan \in [conn : Nat, read : {"total", "current"}]

WrrInv == WrrTypeOK /\ WeightsTyped /\ HeldByCalls /\ LoadedInside /\ EfficientExact

(* The connections are numbered from 1. *)
LEMMA WrrConstants ==
    /\ Width \in Nat /\ Width > 0
    /\ \E n \in Nat : Cardinality(Backends) = n /\ Backends = 1 .. n /\ n > 0
<1>1. Width \in Nat /\ Width > 0
  BY WeightRoundRobinAssumption
<1>2. Cardinality(Backends) \in Nat
  BY WeightRoundRobinAssumption, FS_CardinalityType
<1> QED
  BY <1>1, <1>2, WeightRoundRobinAssumption

LEMMA Remainders == ASSUME NEW x \in Int PROVE x % Width \in Uint
BY WrrConstants DEF Uint

(* A result that does not take a weight over its bound is not wrapped. *)
LEMMA NoWrap ==
    ASSUME NEW x \in Uint, NEW f \in BOOLEAN, x # IF f THEN 0 ELSE Width - 1
    PROVE  LET n == IF f THEN -1 ELSE 1 IN (x + n) % Width = x + n /\ x + n \in Uint
<1>1. Width \in Nat /\ Width > 0
  BY WrrConstants
<1>2. \A y \in 0 .. Width - 1 : y % Width = y
  BY <1>1
<1>3. CASE f
  <2>1. x - 1 \in 0 .. Width - 1 /\ x + -1 = x - 1
    BY <1>1, <1>3 DEF Uint
  <2> QED
    BY <1>2, <1>3, <2>1 DEF Uint
<1>4. CASE ~f
  <2>1. x + 1 \in 0 .. Width - 1
    BY <1>1, <1>4 DEF Uint
  <2> QED
    BY <1>2, <1>4, <2>1 DEF Uint
<1> QED
  BY <1>3, <1>4

LEMMA WrrStarts == WrrInit => WrrInv
<1> SUFFICES ASSUME NEW w \in [Backends -> Attributes], WeightBalancerBuild(w) PROVE WrrInv
  BY DEF WrrInit
<1>1. w \in [Backends -> Uint]
  BY WeightRoundRobinAssumption DEF Uint
<1>2. 0 \in Uint
  BY WrrConstants DEF Uint
<1>3. WrrTypeOK
  <2>1. 1 \in Backends
    BY WrrConstants
  <2>2. currentWeight \in [Backends -> Uint] /\ efficientWeight \in [Backends -> Uint]
    BY <1>1, <1>2 DEF WeightBalancerBuild
  <2>3. /\ user \in [Users -> {"idle", "pick", "call", "load", "swap"}]
        /\ heldConn \in [Users -> Backends \cup {NoBackend}] /\ loaded \in [Users -> Uint]
    BY <1>2 DEF WeightBalancerBuild
  <2>4. scan.conn = 1 /\ scan.read = "total"
    BY DEF WeightBalancerBuild
  <2> QED
    BY <1>2, <2>1, <2>2, <2>3, <2>4 DEF WeightBalancerBuild, WrrTypeOK
<1>4. WeightsTyped
  BY <1>1 DEF WeightBalancerBuild, WeightsTyped
<1>5. HeldByCalls /\ LoadedInside
  BY DEF WeightBalancerBuild, HeldByCalls, LoadedInside
<1>6. EfficientExact
  <2>1. ASSUME NEW c \in Backends PROVE efficientWeight[c] = weight[c] + shift[c]
    <3>1. w[c] \in Int
      BY <1>1, WrrConstants DEF Uint
    <3>2. efficientWeight[c] = w[c] /\ weight[c] = w[c] /\ shift[c] = 0
      BY DEF WeightBalancerBuild
    <3> QED
      BY <3>1, <3>2
  <2> QED
    BY <2>1 DEF EfficientExact
<1> QED
  BY <1>3, <1>4, <1>5, <1>6 DEF WrrInv

(* Steps of Pick, which touch no efficient weight. *)
LEMMA PickKeepsWeights ==
    ASSUME WrrInv, UNCHANGED <<weight, efficientWeight, user, heldConn, failed, loaded, shift, mutex, eligible>>,
           currentWeight' \in [Backends -> Uint], totalWeight' \in Uint,
           res' \in Backends \cup {NoBackend}, scan' \in [conn : Nat, read : {"total", "current"}],
           scan'.conn \in Backends \cup {Cardinality(Backends) + 1}
    PROVE  WrrInv'
<1>1. scan'.read \in {"total", "current"}
  OBVIOUS
<1>2. WrrTypeOK'
  BY <1>1 DEF WrrInv, WrrTypeOK
<1>3. WeightsTyped' /\ HeldByCalls' /\ LoadedInside' /\ EfficientExact'
  BY DEF WrrInv, WeightsTyped, HeldByCalls, LoadedInside, EfficientExact
<1> QED
  BY <1>2, <1>3 DEF WrrInv

LEMMA ScanKeeps ==
    ASSUME WrrInv, SkipFiltered \/ AddTotal \/ AddCurrent
    PROVE  WrrInv'
<1>1. PICK n \in Nat : Cardinality(Backends) = n /\ Backends = 1 .. n /\ n > 0
  BY WrrConstants
<1>2. /\ scan \in [conn : Nat, read : {"total", "current"}] /\ scan.conn \in Backends
      /\ UNCHANGED <<weight, efficientWeight, user, heldConn, failed, loaded, shift, mutex, eligible>>
  BY DEF WrrInv, WeightsTyped, SkipFiltered, AddTotal, AddCurrent, Reads
<1>3. PICK c \in 1 .. n : c = scan.conn
  BY <1>1, <1>2
<1>4. c + 1 \in Nat /\ (c + 1 \in 1 .. n \/ c + 1 = n + 1)
  BY <1>1
<1>5. efficientWeight[c] \in Int /\ currentWeight[c] \in Int /\ totalWeight \in Int
  <2>1. efficientWeight[c] \in Uint /\ currentWeight[c] \in Uint /\ totalWeight \in Uint
    BY <1>1 DEF WrrInv, WrrTypeOK
  <2> QED
    BY <2>1, WrrConstants DEF Uint
<1>6. CASE SkipFiltered
  <2>1. scan' = [scan EXCEPT !.conn = @ + 1] /\ UNCHANGED <<currentWeight, totalWeight, res>>
    BY <1>6 DEF SkipFiltered
  <2>2. /\ scan' \in [conn : Nat, read : {"total", "current"}]
        /\ scan'.conn \in Backends \cup {Cardinality(Backends) + 1}
    BY <1>1, <1>2, <1>3, <1>4, <2>1
  <2>3. /\ currentWeight' \in [Backends -> Uint] /\ totalWeight' \in Uint
        /\ res' \in Backends \cup {NoBackend}
    BY <2>1 DEF WrrInv, WrrTypeOK
  <2> QED
    BY <1>2, <2>2, <2>3, PickKeepsWeights
<1>7. CASE AddTotal
  <2>1. /\ scan' = [scan EXCEPT !.read = "current"] /\ UNCHANGED <<currentWeight, res>>
        /\ totalWeight' = (totalWeight + efficientWeight[scan.conn]) % Width
    BY <1>7 DEF AddTotal
  <2>2. /\ scan' \in [conn : Nat, read : {"total", "current"}]
        /\ scan'.conn \in Backends \cup {Cardinality(Backends) + 1}
    BY <1>2, <2>1
  <2>3. totalWeight' \in Uint
    BY <1>3, <1>5, <2>1, Remainders
  <2>4. currentWeight' \in [Backends -> Uint] /\ res' \in Backends \cup {NoBackend}
    BY <2>1 DEF WrrInv, WrrTypeOK
  <2> QED
    BY <1>2, <2>2, <2>3, <2>4, PickKeepsWeights
<1>8. CASE AddCurrent
  <2>1. /\ scan' = [conn |-> scan.conn + 1, read |-> "total"] /\ UNCHANGED totalWeight
        /\ currentWeight' = [currentWeight EXCEPT ![scan.conn] =
                               (currentWeight[scan.conn] + efficientWeight[scan.conn]) % Width]
        /\ res' = scan.conn \/ res' = res
    BY <1>8 DEF AddCurrent
  <2>2. /\ scan' \in [conn : Nat, read : {"total", "current"}]
        /\ scan'.conn \in Backends \cup {Cardinality(Backends) + 1}
    BY <1>1, <1>3, <1>4, <2>1
  <2>3. currentWeight' \in [Backends -> Uint]
    <3>1. (currentWeight[scan.conn] + efficientWeight[scan.conn]) % Width \in Uint
      BY <1>3, <1>5, Remainders
    <3> QED
      BY <2>1, <3>1 DEF WrrInv, WrrTypeOK
  <2>4. totalWeight' \in Uint /\ res' \in Backends \cup {NoBackend}
    BY <1>2, <2>1 DEF WrrInv, WrrTypeOK
  <2> QED
    BY <1>2, <2>2, <2>3, <2>4, PickKeepsWeights
<1> QED
  BY <1>6, <1>7, <1>8

(* The local variables of Pick are reset to values of their types. *)
LEMMA LocalsTyped ==
    ASSUME NEW S \in SUBSET Backends, Locals(S)
    PROVE  /\ scan' \in [conn : Nat, read : {"total", "current"}]
           /\ scan'.conn \in Backends \cup {Cardinality(Backends) + 1}
           /\ scan'.read \in {"total", "current"}
           /\ eligible' \subseteq Backends /\ totalWeight' \in Uint /\ res' \in Backends \cup {NoBackend}
<1>1. 0 \in Uint /\ 1 \in Backends
  BY WrrConstants DEF Uint
<1>2. scan' = [conn |-> 1, read |-> "total"] /\ eligible' = S /\ totalWeight' = 0 /\ res' = NoBackend
  BY DEF Locals
<1> QED
  BY <1>1, <1>2

LEMMA LockKeeps == ASSUME WrrInv, NEW u \in Users, Lock(u) PROVE WrrInv'
<1>1. PICK S \in Filters : Locals(S)
  BY DEF Lock
<1>2. S \in SUBSET Backends
  BY WeightRoundRobinAssumption
<1>3. /\ UNCHANGED <<weight, currentWeight, efficientWeight, heldConn, failed, loaded, shift>>
      /\ user' = [user EXCEPT ![u] = "pick"] /\ mutex' = u
  BY DEF Lock
<1>4. user' \in [Users -> {"idle", "pick", "call", "load", "swap"}]
  BY <1>3 DEF WrrInv, WrrTypeOK
<1>5. WrrTypeOK'
  BY <1>1, <1>2, <1>3, <1>4, LocalsTyped DEF WrrInv, WrrTypeOK
<1>6. WeightsTyped'
  BY <1>1, <1>2, <1>3, LocalsTyped DEF WrrInv, WeightsTyped
<1>7. \A v \in Users : user'[v] = "pick" \/ user'[v] = user[v]
  BY <1>3 DEF WrrInv, WrrTypeOK
<1>8. HeldByCalls'
  BY <1>3, <1>7 DEF WrrInv, HeldByCalls
<1>9. LoadedInside'
  BY <1>3, <1>7 DEF WrrInv, LoadedInside
<1>10. EfficientExact'
  BY <1>3 DEF WrrInv, EfficientExact
<1> QED
  BY <1>5, <1>6, <1>8, <1>9, <1>10 DEF WrrInv

LEMMA UnlockKeeps == ASSUME WrrInv, Unlock PROVE WrrInv'
<1>1. Locals({}) /\ mutex \in Users /\ mutex' = NoUser
      /\ UNCHANGED <<weight, efficientWeight, failed, loaded, shift>>
  BY DEF Unlock, WrrInv, WrrTypeOK
<1>2. /\ user' \in [Users -> {"idle", "pick", "call", "load", "swap"}]
      /\ heldConn' \in [Users -> Backends \cup {NoBackend}]
      /\ currentWeight' \in [Backends -> Uint]
      /\ \A v \in Users : \/ user'[v] = "idle"
                          \/ user'[v] = user[v] /\ heldConn'[v] = heldConn[v]
                          \/ user'[v] = "call" /\ heldConn'[v] \in Backends
  <2>1. CASE res = NoBackend
    <3>1. user' = [user EXCEPT ![mutex] = "idle"] /\ UNCHANGED <<currentWeight, heldConn>>
      BY <2>1 DEF Unlock
    <3> QED
      BY <1>1, <3>1 DEF WrrInv, WrrTypeOK
  <2>2. CASE res # NoBackend
    <3>1. /\ user' = [user EXCEPT ![mutex] = "call"] /\ heldConn' = [heldConn EXCEPT ![mutex] = res]
          /\ currentWeight' = [currentWeight EXCEPT ![res] = (currentWeight[res] - totalWeight + Width) % Width]
      BY <2>2 DEF Unlock, TakeTotal
    <3>2. res \in Backends
      BY <2>2 DEF WrrInv, WrrTypeOK
    <3>3. (currentWeight[res] - totalWeight + Width) % Width \in Uint
      <4>1. currentWeight[res] \in Uint /\ totalWeight \in Uint
        BY <3>2 DEF WrrInv, WrrTypeOK
      <4>2. currentWeight[res] - totalWeight + Width \in Int
        BY <4>1, WrrConstants DEF Uint
      <4> QED
        BY <4>2, Remainders
    <3>4. currentWeight' \in [Backends -> Uint]
      BY <3>1, <3>3 DEF WrrInv, WrrTypeOK
    <3> QED
      BY <1>1, <3>1, <3>2, <3>4 DEF WrrInv, WrrTypeOK
  <2> QED
    BY <2>1, <2>2
<1>3. WrrTypeOK'
  <2>1. {} \in SUBSET Backends
    OBVIOUS
  <2> QED
    BY <1>1, <1>2, <2>1, LocalsTyped DEF WrrInv, WrrTypeOK
<1>4. WeightsTyped'
  <2>1. {} \in SUBSET Backends
    OBVIOUS
  <2> QED
    BY <1>1, <2>1, LocalsTyped DEF WrrInv, WeightsTyped
<1>5. HeldByCalls'
  BY <1>2 DEF WrrInv, HeldByCalls
<1>6. LoadedInside'
  BY <1>1, <1>2 DEF WrrInv, LoadedInside
<1>7. EfficientExact'
  BY <1>1 DEF WrrInv, EfficientExact
<1> QED
  BY <1>3, <1>4, <1>5, <1>6, <1>7 DEF WrrInv

LEMMA EndCallKeeps == ASSUME WrrInv, NEW u \in Users, EndCall(u) PROVE WrrInv'
<1>1. PICK f \in BOOLEAN : failed' = [failed EXCEPT ![u] = f]
  BY DEF EndCall
<1>2. /\ UNCHANGED <<weight, currentWeight, efficientWeight, mutex, scan, eligible, totalWeight, res, heldConn,
                     loaded, shift>>
      /\ user[u] = "call" /\ user' = [user EXCEPT ![u] = "load"]
  BY DEF EndCall
<1>3. WrrTypeOK'
  <2>1. user' \in [Users -> {"idle", "pick", "call", "load", "swap"}]
    BY <1>2 DEF WrrInv, WrrTypeOK
  <2> QED
    BY <1>2, <2>1 DEF WrrInv, WrrTypeOK
<1>4. WeightsTyped'
  BY <1>1, <1>2 DEF WrrInv, WeightsTyped
<1>5. \A v \in Users : v # u => user'[v] = user[v] /\ failed'[v] = failed[v]
  BY <1>1, <1>2 DEF WrrInv, WrrTypeOK, WeightsTyped
<1>6. user'[u] = "load"
  BY <1>2 DEF WrrInv, WrrTypeOK
<1>7. HeldByCalls'
  BY <1>2, <1>5 DEF WrrInv, HeldByCalls
<1>8. LoadedInside'
  BY <1>2, <1>5, <1>6 DEF WrrInv, LoadedInside
<1>9. EfficientExact'
  BY <1>2 DEF WrrInv, EfficientExact
<1> QED
  BY <1>3, <1>4, <1>7, <1>8, <1>9 DEF WrrInv

LEMMA LoadKeeps == ASSUME WrrInv, NEW u \in Users, LoadWeight(u) PROVE WrrInv'
<1>1. /\ UNCHANGED <<weight, currentWeight, efficientWeight, mutex, scan, eligible, totalWeight, res, heldConn,
                     failed, shift>>
      /\ user[u] = "load"
  BY DEF LoadWeight
<1>2. heldConn[u] \in Backends /\ efficientWeight[heldConn[u]] \in Uint
  BY <1>1 DEF WrrInv, HeldByCalls, WrrTypeOK
<1>3. /\ user' \in [Users -> {"idle", "pick", "call", "load", "swap"}] /\ loaded' \in [Users -> Uint]
      /\ \A v \in Users : v # u => user'[v] = user[v] /\ loaded'[v] = loaded[v]
      /\ user'[u] \in {"idle", "swap"}
      /\ user'[u] = "swap" => loaded'[u] # IF failed[u] THEN 0 ELSE Width - 1
  <2>1. CASE AtBound(u)
    <3>1. user' = [user EXCEPT ![u] = "idle"] /\ UNCHANGED loaded
      BY <2>1 DEF LoadWeight
    <3> QED
      BY <3>1 DEF WrrInv, WrrTypeOK
  <2>2. CASE ~AtBound(u)
    <3>1. user' = [user EXCEPT ![u] = "swap"]
          /\ loaded' = [loaded EXCEPT ![u] = efficientWeight[heldConn[u]]]
      BY <2>2 DEF LoadWeight
    <3>2. efficientWeight[heldConn[u]] # IF failed[u] THEN 0 ELSE Width - 1
      BY <2>2 DEF AtBound
    <3>3. user \in [Users -> {"idle", "pick", "call", "load", "swap"}] /\ loaded \in [Users -> Uint]
      BY DEF WrrInv, WrrTypeOK
    <3>4. loaded'[u] = efficientWeight[heldConn[u]]
      BY <3>1, <3>3
    <3> QED
      BY <1>2, <3>1, <3>2, <3>3, <3>4
  <2> QED
    BY <2>1, <2>2
<1>4. WrrTypeOK'
  BY <1>1, <1>3 DEF WrrInv, WrrTypeOK
<1>5. WeightsTyped' /\ EfficientExact'
  BY <1>1 DEF WrrInv, WeightsTyped, EfficientExact
<1>6. HeldByCalls'
  BY <1>1, <1>2, <1>3 DEF WrrInv, HeldByCalls
<1>7. LoadedInside'
  BY <1>1, <1>3 DEF WrrInv, LoadedInside
<1> QED
  BY <1>4, <1>5, <1>6, <1>7 DEF WrrInv

LEMMA SwapKeeps == ASSUME WrrInv, NEW u \in Users, SwapWeight(u) PROVE WrrInv'
<1>1. /\ UNCHANGED <<weight, currentWeight, mutex, scan, eligible, totalWeight, res, heldConn, failed, loaded>>
      /\ user[u] = "swap"
  BY DEF SwapWeight
<1>2. /\ heldConn[u] \in Backends /\ efficientWeight[heldConn[u]] \in Uint /\ loaded[u] \in Uint
      /\ failed[u] \in BOOLEAN
  BY <1>1 DEF WrrInv, HeldByCalls, WrrTypeOK, WeightsTyped
<1>3. /\ user' \in [Users -> {"idle", "pick", "call", "load", "swap"}]
      /\ \A v \in Users : (user'[v] \in {"idle", "load"} /\ v = u) \/ user'[v] = user[v]
  <2>1. user' = [user EXCEPT ![u] = "idle"] \/ user' = [user EXCEPT ![u] = "load"]
    BY DEF SwapWeight
  <2> QED
    BY <2>1 DEF WrrInv, WrrTypeOK
<1>4. HeldByCalls'
  BY <1>1, <1>2, <1>3 DEF WrrInv, HeldByCalls
<1>5. LoadedInside'
  BY <1>1, <1>3 DEF WrrInv, LoadedInside
<1>6. /\ efficientWeight' \in [Backends -> Uint] /\ shift' \in [Backends -> Int]
      /\ EfficientExact'
  <2>1. CASE Swaps(u)
    <3> DEFINE n == IF failed[u] THEN -1 ELSE 1
    <3>1. /\ efficientWeight' = [efficientWeight EXCEPT ![heldConn[u]] = (loaded[u] + n) % Width]
          /\ shift' = [shift EXCEPT ![heldConn[u]] = shift[heldConn[u]] + n]
      BY <2>1 DEF SwapWeight
    <3>2. efficientWeight[heldConn[u]] = loaded[u]
      BY <2>1 DEF Swaps
    <3>3. (loaded[u] + n) % Width = loaded[u] + n /\ loaded[u] + n \in Uint
      <4>1. loaded[u] # IF failed[u] THEN 0 ELSE Width - 1
        BY <1>1 DEF WrrInv, LoadedInside
      <4> QED
        BY <1>2, <4>1, NoWrap
    <3>4. n \in Int
      OBVIOUS
    <3> HIDE DEF n
    <3>5. /\ efficientWeight \in [Backends -> Uint] /\ shift \in [Backends -> Int]
          /\ weight \in [Backends -> Uint]
      BY DEF WrrInv, WrrTypeOK, WeightsTyped
    <3>6. efficientWeight' \in [Backends -> Uint]
      BY <3>1, <3>3, <3>5
    <3>7. shift[heldConn[u]] + n \in Int
      BY <1>2, <3>4, <3>5
    <3>8. shift' \in [Backends -> Int]
      BY <3>1, <3>5, <3>7
    <3>9. ASSUME NEW c \in Backends PROVE efficientWeight'[c] = weight[c] + shift'[c]
      <4>1. efficientWeight[c] = weight[c] + shift[c]
        BY DEF WrrInv, EfficientExact
      <4>2. CASE c # heldConn[u]
        BY <3>1, <3>5, <4>1, <4>2
      <4>3. CASE c = heldConn[u]
        <5>1. efficientWeight'[c] = efficientWeight[c] + n /\ shift'[c] = shift[c] + n
          BY <3>1, <3>2, <3>3, <3>5, <4>3
        <5>2. weight[c] \in Int /\ shift[c] \in Int
          BY <3>5, WrrConstants DEF Uint
        <5> QED
          BY <3>4, <4>1, <5>1, <5>2
      <4> QED
        BY <4>2, <4>3
    <3> QED
      BY <1>1, <3>6, <3>8, <3>9 DEF EfficientExact
  <2>2. CASE ~Swaps(u)
    <3>1. UNCHANGED <<efficientWeight, shift>>
      BY <2>2 DEF SwapWeight
    <3> QED
      BY <1>1, <3>1 DEF WrrInv, WrrTypeOK, WeightsTyped, EfficientExact
  <2> QED
    BY <2>1, <2>2
<1>7. WrrTypeOK'
  BY <1>1, <1>3, <1>6 DEF WrrInv, WrrTypeOK
<1>8. WeightsTyped'
  BY <1>1, <1>6 DEF WrrInv, WeightsTyped
<1> QED
  BY <1>4, <1>5, <1>6, <1>7, <1>8 DEF WrrInv

-----------------------------------------------------------------------------
(* The balance of the current weights.  They are integers modulo Width, so *)
(* it holds up to a multiple of Width.                                     *)

Multiples == {m * Width : m \in Int}

LEMMA MultiplesClosed ==
    /\ Multiples \subseteq Int /\ 0 \in Multiples /\ Width \in Multiples
    /\ \A x, y \in Multiples : x + y \in Multiples /\ x - y \in Multiples
    /\ \A x \in Multiples : x <= 0 \/ x >= Width
    /\ \A x \in Int : x - (x % Width) \in Multiples
<1>1. Width \in Nat /\ Width > 0
  BY WrrConstants
<1>2. Multiples \subseteq Int
  <2>1. ASSUME NEW m \in Int PROVE m * Width \in Int
    BY <1>1
  <2> QED
    BY <2>1 DEF Multiples
<1>3. 0 \in Multiples /\ Width \in Multiples
  <2>1. 0 * Width = 0 /\ 1 * Width = Width
    BY <1>1
  <2> QED
    BY <2>1 DEF Multiples
<1>4. ASSUME NEW x \in Multiples, NEW y \in Multiples PROVE x + y \in Multiples /\ x - y \in Multiples
  <2>1. PICK m \in Int, n \in Int : x = m * Width /\ y = n * Width
    BY DEF Multiples
  <2>2. x + y = (m + n) * Width /\ x - y = (m - n) * Width
    BY <1>1, <2>1
  <2>3. m + n \in Int /\ m - n \in Int
    OBVIOUS
  <2> QED
    BY <2>2, <2>3 DEF Multiples
<1>5. ASSUME NEW x \in Multiples PROVE x <= 0 \/ x >= Width
  <2>1. PICK m \in Int : x = m * Width
    BY DEF Multiples
  <2>2. CASE m <= 0
    BY <1>1, <2>1, <2>2
  <2>3. CASE m >= 1
    BY <1>1, <2>1, <2>3
  <2> QED
    BY <2>2, <2>3
<1>6. ASSUME NEW x \in Int PROVE x - (x % Width) \in Multiples
  <2>1. x \div Width \in Int /\ x % Width \in Int
    BY <1>1
  <2>2. x = Width * (x \div Width) + (x % Width)
    BY <1>1
  <2>3. x - (x % Width) = (x \div Width) * Width
    BY <1>1, <2>1, <2>2
  <2> QED
    BY <2>1, <2>3 DEF Multiples
<1> QED
  BY <1>2, <1>3, <1>4, <1>5, <1>6

(* What AddTotal has put into the total and AddCurrent will put into the   *)
(* current weight, as long as Done leaves it alone.                        *)
Pending == IF Reads("current") THEN efficientWeight[scan.conn] ELSE 0

ScanOK ==
    /\ races \in Nat
    /\ mutex = NoUser => totalWeight = 0
    /\ scan.read = "current" => scan.conn \in Backends
    /\ (res = NoBackend /\ scan.read = "total") => totalWeight = 0

(* The current weights and the pending one sum to the total of this Pick,  *)
(* but for as many ones as there were changes between the two reads.       *)
BalancedBy(k) ==
    /\ k \in Int /\ -races <= k /\ k <= races
    /\ SumFunction(currentWeight) + Pending - totalWeight - k \in Multiples
Balanced == \E k \in Int : BalancedBy(k)

BalanceInv == WrrInv /\ ScanOK /\ Balanced

LEMMA BalanceTypes ==
    ASSUME WrrInv
    PROVE  /\ SumFunction(currentWeight) \in Int /\ totalWeight \in Int /\ Pending \in Int
           /\ IsFiniteSet(Backends) /\ currentWeight \in [Backends -> Int]
           /\ efficientWeight \in [Backends -> Int] /\ Width \in Nat
<1>1. Uint \subseteq Int /\ IsFiniteSet(Backends) /\ Width \in Nat
  BY WeightRoundRobinAssumption DEF Uint
<1>2. /\ currentWeight \in [Backends -> Int] /\ efficientWeight \in [Backends -> Int]
      /\ totalWeight \in Int
  BY <1>1 DEF WrrInv, WrrTypeOK
<1>3. SumFunction(currentWeight) \in Int
  BY <1>1, <1>2, SumOfInts
<1>4. Pending \in Int
  BY <1>2 DEF Pending, Reads
<1> QED
  BY <1>1, <1>2, <1>3, <1>4

(* Between picks the sum is within races of a multiple of Width. *)
LEMMA BalanceSuffices == BalanceInv => CurrentWeightsBalance
<1> SUFFICES ASSUME BalanceInv, mutex = NoUser
             PROVE  LET sum == SumFunction(currentWeight) % Width
                    IN  sum <= races \/ Width - sum <= races
  BY DEF CurrentWeightsBalance
<1>1. PICK k \in Int : BalancedBy(k)
  BY DEF BalanceInv, Balanced
<1>2. PICK S \in Int : S = SumFunction(currentWeight)
  BY BalanceTypes DEF BalanceInv
<1>3. Pending = 0 /\ totalWeight = 0
  BY DEF BalanceInv, ScanOK, Pending, Reads
<1>4. S + 0 - 0 - k \in Multiples
  BY <1>1, <1>2, <1>3 DEF BalancedBy
<1>5. S + 0 - 0 - k = S - k
  BY <1>2
<1>6. PICK r \in Int : r = S % Width /\ 0 <= r /\ r < Width
  BY <1>2, WrrConstants
<1>7. S - r \in Multiples
  BY <1>2, <1>6, MultiplesClosed
<1>8. (S - k) - (S - r) \in Multiples
  BY <1>4, <1>5, <1>7, MultiplesClosed
<1>9. r - k <= 0 \/ r - k >= Width
  <2>1. (S - k) - (S - r) = r - k
    BY <1>2, <1>6
  <2>2. r - k \in Multiples
    BY <1>8, <2>1
  <2> QED
    BY <2>2, MultiplesClosed
<1>10. races \in Nat /\ -races <= k /\ k <= races
  BY <1>1 DEF BalanceInv, ScanOK, BalancedBy
<1>11. r <= races \/ Width - r <= races
  BY <1>6, <1>9, <1>10, WrrConstants
<1> QED
  BY <1>2, <1>6, <1>11

LEMMA BalanceStarts == WrrInit => BalanceInv
<1> SUFFICES ASSUME NEW w \in [Backends -> Attributes], WeightBalancerBuild(w) PROVE BalanceInv
  BY DEF WrrInit
<1>1. WrrInv
  BY WrrStarts DEF WrrInit
<1>2. ScanOK
  BY DEF WeightBalancerBuild, ScanOK
<1>3. SumFunction(currentWeight) = 0 /\ Pending = 0 /\ totalWeight = 0 /\ races = 0
  <2>1. currentWeight = [c \in Backends |-> 0] /\ mutex = NoUser /\ totalWeight = 0 /\ races = 0
    BY DEF WeightBalancerBuild
  <2>2. IsFiniteSet(Backends)
    BY WeightRoundRobinAssumption
  <2> QED
    BY <2>1, <2>2, SumOfZeros DEF Pending, Reads
<1>4. BalancedBy(0)
  BY <1>3, MultiplesClosed DEF BalancedBy
<1> QED
  BY <1>1, <1>2, <1>4 DEF BalanceInv, Balanced

(* The balance moves by a multiple of Width. *)
LEMMA BalanceMoves ==
    ASSUME NEW k \in Int, BalancedBy(k), races' = races, NEW x \in Multiples,
           NEW s \in Int, s = SumFunction(currentWeight), NEW p \in Int, p = Pending,
           NEW t \in Int, t = totalWeight,
           NEW u \in Int, u = SumFunction(currentWeight'), NEW q \in Int, q = Pending',
           NEW v \in Int, v = totalWeight',
           u + q - v = s + p - t + x
    PROVE  Balanced'
<1>1. s + p - t - k \in Multiples /\ -races' <= k /\ k <= races'
  BY DEF BalancedBy
<1>2. (s + p - t - k) + x \in Multiples
  BY <1>1, MultiplesClosed
<1>3. u + q - v - k \in Multiples
  <2>1. x \in Int
    BY MultiplesClosed
  <2>2. u + q - v - k = (s + p - t - k) + x
    BY <2>1
  <2> QED
    BY <1>2, <2>2
<1>4. BalancedBy(k)'
  BY <1>1, <1>3 DEF BalancedBy, Multiples
<1> QED
  BY <1>4 DEF Balanced

(* The types after a step. *)
LEMMA BalanceTypesNext ==
    ASSUME WrrInv'
    PROVE  /\ SumFunction(currentWeight') \in Int /\ totalWeight' \in Int /\ Pending' \in Int
           /\ currentWeight' \in [Backends -> Int] /\ efficientWeight' \in [Backends -> Int]
<1>1. Uint \subseteq Int /\ IsFiniteSet(Backends)
  BY WeightRoundRobinAssumption DEF Uint
<1>2. /\ currentWeight' \in [Backends -> Int] /\ efficientWeight' \in [Backends -> Int]
      /\ totalWeight' \in Int
  BY <1>1 DEF WrrInv, WrrTypeOK
<1>3. SumFunction(currentWeight') \in Int
  BY <1>1, <1>2, SumOfInts
<1>4. Pending' \in Int
  BY <1>2 DEF Pending, Reads
<1> QED
  BY <1>2, <1>3, <1>4

LEMMA ScanBalances ==
    ASSUME BalanceInv, WrrInv', SkipFiltered \/ AddTotal \/ AddCurrent
    PROVE  ScanOK' /\ Balanced'
<1>1. /\ WrrInv /\ ScanOK /\ mutex # NoUser /\ scan.conn \in Backends /\ races' = races /\ mutex' = mutex
  BY DEF BalanceInv, SkipFiltered, AddTotal, AddCurrent, Reads
<1>2. PICK k \in Int : BalancedBy(k)
  BY DEF BalanceInv, Balanced
<1>3. PICK s \in Int, p \in Int, t \in Int, e \in Int :
        s = SumFunction(currentWeight) /\ p = Pending /\ t = totalWeight /\ e = efficientWeight[scan.conn]
  BY <1>1, BalanceTypes
<1>4. PICK u \in Int, q \in Int, v \in Int :
        u = SumFunction(currentWeight') /\ q = Pending' /\ v = totalWeight'
  BY BalanceTypesNext
<1>5. scan \in [conn : Nat, read : {"total", "current"}]
  BY <1>1 DEF WrrInv, WeightsTyped
<1>6. CASE SkipFiltered
  <2>1. /\ scan.read = "total" /\ scan' = [scan EXCEPT !.conn = @ + 1]
        /\ UNCHANGED <<currentWeight, totalWeight, res, efficientWeight>>
    BY <1>6 DEF SkipFiltered, Reads
  <2>2. scan'.read = "total"
    BY <1>5, <2>1
  <2>3. ScanOK'
    BY <1>1, <2>1, <2>2 DEF ScanOK
  <2>4. p = 0 /\ q = 0
    BY <1>3, <1>4, <2>1, <2>2 DEF Pending, Reads
  <2>5. u = s /\ v = t
    BY <1>3, <1>4, <2>1
  <2>6. 0 \in Multiples /\ u + q - v = s + p - t + 0
    BY <2>4, <2>5, MultiplesClosed
  <2> QED
    BY <1>1, <1>2, <1>3, <1>4, <2>3, <2>6, BalanceMoves
<1>7. CASE AddTotal
  <2>1. /\ scan.read = "total" /\ scan' = [scan EXCEPT !.read = "current"]
        /\ UNCHANGED <<currentWeight, res, efficientWeight>>
        /\ totalWeight' = (totalWeight + efficientWeight[scan.conn]) % Width
    BY <1>7 DEF AddTotal, Reads
  <2>2. scan'.read = "current" /\ scan'.conn = scan.conn
    BY <1>5, <2>1
  <2>3. ScanOK'
    BY <1>1, <2>1, <2>2 DEF ScanOK
  <2>4. p = 0 /\ q = e
    BY <1>1, <1>3, <1>4, <2>1, <2>2 DEF Pending, Reads
  <2>5. u = s /\ v = (t + e) % Width
    BY <1>3, <1>4, <2>1
  <2>6. (t + e) - v \in Multiples
    BY <2>5, MultiplesClosed
  <2>7. u + q - v = s + p - t + ((t + e) - v)
    BY <2>4, <2>5
  <2> QED
    BY <1>1, <1>2, <1>3, <1>4, <2>3, <2>6, <2>7, BalanceMoves
<1>8. CASE AddCurrent
  <2>1. /\ scan.read = "current" /\ scan' = [conn |-> scan.conn + 1, read |-> "total"]
        /\ UNCHANGED <<totalWeight, efficientWeight>>
        /\ currentWeight' = [currentWeight EXCEPT ![scan.conn] =
                               (currentWeight[scan.conn] + efficientWeight[scan.conn]) % Width]
        /\ res' = scan.conn \/ (res # NoBackend /\ res' = res)
    BY <1>8 DEF AddCurrent, Reads
  <2>2. scan'.read = "total" /\ res' # NoBackend
    <3>1. NoBackend \notin Backends
      BY WrrConstants DEF NoBackend
    <3> QED
      BY <1>1, <2>1, <3>1
  <2>3. ScanOK'
    BY <1>1, <2>1, <2>2 DEF ScanOK
  <2>4. p = e /\ q = 0
    BY <1>1, <1>3, <1>4, <2>1, <2>2 DEF Pending, Reads
  <2>5. PICK c \in Int, d \in Int : c = currentWeight[scan.conn] /\ d = (c + e) % Width
    BY <1>1, BalanceTypes, WrrConstants
  <2>6. u = s + d - c
    <3>1. /\ currentWeight \in [Backends -> Int] /\ currentWeight' \in [Backends -> Int]
          /\ IsFiniteSet(Backends)
      BY <1>1, BalanceTypes, BalanceTypesNext
    <3>2. \A x \in Backends : x # scan.conn => currentWeight'[x] = currentWeight[x]
      BY <2>1, <3>1
    <3>3. currentWeight'[scan.conn] = d
      BY <1>1, <1>3, <2>1, <2>5, <3>1
    <3>4. SumFunction(currentWeight')
            = SumFunction(currentWeight) + currentWeight'[scan.conn] - currentWeight[scan.conn]
      BY <1>1, <3>1, <3>2, SumChanges
    <3> QED
      BY <1>3, <1>4, <2>5, <3>3, <3>4
  <2>7. (c + e) - d \in Multiples
    BY <2>5, MultiplesClosed
  <2>8. 0 - ((c + e) - d) \in Multiples
    BY <2>7, MultiplesClosed
  <2>9. u + q - v = s + p - t + (0 - ((c + e) - d))
    <3>1. v = t
      BY <1>3, <1>4, <2>1
    <3> QED
      BY <2>4, <2>6, <3>1
  <2> QED
    BY <1>1, <1>2, <1>3, <1>4, <2>3, <2>8, <2>9, BalanceMoves
<1> QED
  BY <1>6, <1>7, <1>8

(* Lock begins, and Unlock ends, with an empty total. *)
LEMMA LockBalances ==
    ASSUME BalanceInv, WrrInv', NEW w \in Users, Lock(w)
    PROVE  ScanOK' /\ Balanced'
<1>1. /\ WrrInv /\ ScanOK /\ mutex = NoUser /\ races' = races /\ currentWeight' = currentWeight
      /\ scan' = [conn |-> 1, read |-> "total"] /\ totalWeight' = 0
  BY DEF BalanceInv, Lock, Locals
<1>2. scan'.read = "total"
  BY <1>1
<1>3. ScanOK'
  BY <1>1, <1>2 DEF ScanOK
<1>4. PICK k \in Int : BalancedBy(k)
  BY DEF BalanceInv, Balanced
<1>5. PICK s \in Int : s = SumFunction(currentWeight)
  BY <1>1, BalanceTypes
<1>6. Pending = 0 /\ Pending' = 0 /\ totalWeight = 0
  BY <1>1, <1>2 DEF Pending, Reads, ScanOK
<1>7. 0 \in Multiples /\ s + 0 - 0 = s + 0 - 0 + 0 /\ 0 \in Int
  BY MultiplesClosed
<1> QED
  BY <1>1, <1>3, <1>4, <1>5, <1>6, <1>7, BalanceMoves

LEMMA UnlockBalances ==
    ASSUME BalanceInv, WrrInv', Unlock
    PROVE  ScanOK' /\ Balanced'
<1>1. /\ WrrInv /\ ScanOK /\ races' = races /\ scan.conn \notin Backends /\ mutex' = NoUser
      /\ scan' = [conn |-> 1, read |-> "total"] /\ totalWeight' = 0
  BY DEF BalanceInv, Unlock, Locals
<1>2. scan'.read = "total" /\ scan.read = "total"
  BY <1>1 DEF ScanOK, WrrInv, WrrTypeOK
<1>3. ScanOK'
  BY <1>1, <1>2 DEF ScanOK
<1>4. PICK k \in Int : BalancedBy(k)
  BY DEF BalanceInv, Balanced
<1>5. PICK s \in Int, t \in Int, u \in Int :
        s = SumFunction(currentWeight) /\ t = totalWeight /\ u = SumFunction(currentWeight')
  BY <1>1, BalanceTypes, BalanceTypesNext
<1>6. Pending = 0 /\ Pending' = 0 /\ 0 \in Int
  BY <1>1, <1>2 DEF Pending, Reads
<1>7. CASE res = NoBackend
  <2>1. currentWeight' = currentWeight
    BY <1>7 DEF Unlock
  <2>2. t = 0 /\ u = s
    BY <1>1, <1>2, <1>5, <1>7, <2>1 DEF ScanOK
  <2>3. 0 \in Multiples /\ u + 0 - 0 = s + 0 - t + 0
    BY <2>2, MultiplesClosed
  <2> QED
    BY <1>1, <1>3, <1>4, <1>5, <1>6, <2>3, BalanceMoves
<1>8. CASE res # NoBackend
  <2>1. /\ currentWeight' = [currentWeight EXCEPT ![res] = (currentWeight[res] - totalWeight + Width) % Width]
        /\ res \in Backends
    BY <1>1, <1>8 DEF Unlock, TakeTotal, WrrInv, WrrTypeOK
  <2>2. PICK c \in Int, d \in Int : c = currentWeight[res] /\ d = (c - t + Width) % Width
    BY <1>1, <2>1, BalanceTypes, WrrConstants
  <2>3. u = s + d - c
    <3>1. /\ currentWeight \in [Backends -> Int] /\ currentWeight' \in [Backends -> Int]
          /\ IsFiniteSet(Backends)
      BY <1>1, BalanceTypes, BalanceTypesNext
    <3>2. \A x \in Backends : x # res => currentWeight'[x] = currentWeight[x]
      BY <2>1, <3>1
    <3>3. currentWeight'[res] = d
      BY <1>5, <2>1, <2>2, <3>1
    <3>4. PICK b \in Backends : b = res
      BY <2>1
    <3>5. SumFunction(currentWeight') = SumFunction(currentWeight) + currentWeight'[b] - currentWeight[b]
      BY <3>1, <3>2, <3>4, SumChanges
    <3> QED
      BY <1>5, <2>2, <3>3, <3>4, <3>5
  <2>4. Width \in Int /\ c - t + Width \in Int
    BY WrrConstants
  <2>5. (c - t + Width) - d \in Multiples
    BY <2>2, <2>4, MultiplesClosed
  <2>6. Width - ((c - t + Width) - d) \in Multiples
    BY <2>5, MultiplesClosed
  <2>7. u + 0 - 0 = s + 0 - t + (Width - ((c - t + Width) - d))
    BY <2>3, <2>4
  <2> QED
    BY <1>1, <1>3, <1>4, <1>5, <1>6, <2>6, <2>7, BalanceMoves
<1> QED
  BY <1>7, <1>8

(* A result that comes between the two reads moves the balance by one, and *)
(* is counted.                                                             *)
LEMMA SwapBalances ==
    ASSUME BalanceInv, WrrInv', NEW w \in Users, SwapWeight(w)
    PROVE  ScanOK' /\ Balanced'
<1>1. /\ WrrInv /\ ScanOK /\ user[w] = "swap"
      /\ UNCHANGED <<currentWeight, mutex, scan, totalWeight, res>>
  BY DEF BalanceInv, SwapWeight
<1>2. /\ heldConn[w] \in Backends /\ loaded[w] \in Uint /\ failed[w] \in BOOLEAN
      /\ loaded[w] # IF failed[w] THEN 0 ELSE Width - 1
  BY <1>1 DEF WrrInv, HeldByCalls, WrrTypeOK, WeightsTyped, LoadedInside
<1>3. PICK k \in Int : BalancedBy(k)
  BY DEF BalanceInv, Balanced
<1>4. PICK s \in Int, p \in Int, t \in Int :
        s = SumFunction(currentWeight) /\ p = Pending /\ t = totalWeight
  BY <1>1, BalanceTypes
<1>5. PICK q \in Int : q = Pending'
  BY BalanceTypesNext
<1>6. races \in Nat /\ -races <= k /\ k <= races /\ s + p - t - k \in Multiples
  BY <1>1, <1>3, <1>4 DEF ScanOK, BalancedBy
<1>7. CASE Swaps(w) /\ Reads("current") /\ scan.conn = heldConn[w]
  <2> DEFINE n == IF failed[w] THEN -1 ELSE 1
  <2>1. /\ efficientWeight' = [efficientWeight EXCEPT ![heldConn[w]] = (loaded[w] + n) % Width]
        /\ races' = races + 1
    BY <1>7 DEF SwapWeight
  <2>2. n \in Int /\ -1 <= n /\ n <= 1
    OBVIOUS
  <2>3. (loaded[w] + n) % Width = loaded[w] + n
    BY <1>2, NoWrap
  <2> HIDE DEF n
  <2>4. efficientWeight[scan.conn] = loaded[w]
    BY <1>7 DEF Swaps
  <2>5. p = loaded[w]
    BY <1>4, <1>7, <2>4 DEF Pending
  <2>6. Reads("current")' /\ scan'.conn = heldConn[w]
    BY <1>1, <1>7 DEF Reads
  <2>7. q = p + n
    <3>1. efficientWeight'[heldConn[w]] = loaded[w] + n
      BY <1>1, <1>2, <2>1, <2>3 DEF WrrInv, WrrTypeOK
    <3> QED
      BY <1>5, <2>5, <2>6, <3>1 DEF Pending
  <2>8. k + n \in Int /\ -races' <= k + n /\ k + n <= races'
    BY <1>6, <2>1, <2>2
  <2>9. s + q - t - (k + n) = s + p - t - k
    BY <2>2, <2>7
  <2>10. s + q - t - (k + n) \in Multiples
    BY <1>6, <2>9
  <2>11. PICK j \in Int : j = k + n
    BY <2>8
  <2>12. BalancedBy(j)'
    BY <1>1, <1>4, <1>5, <2>8, <2>10, <2>11 DEF BalancedBy, Multiples
  <2>13. ScanOK'
    BY <1>1, <1>6, <2>1 DEF ScanOK
  <2> QED
    BY <2>12, <2>13 DEF Balanced
<1>8. CASE ~(Swaps(w) /\ Reads("current") /\ scan.conn = heldConn[w])
  <2>1. races' = races
    BY <1>8 DEF SwapWeight
  <2>2. q = p
    <3>1. Reads("current")' <=> Reads("current")
      BY <1>1 DEF Reads
    <3>2. CASE Reads("current")
      <4>1. scan.conn \in Backends /\ scan'.conn = scan.conn
        BY <1>1, <3>2 DEF Reads
      <4>2. efficientWeight'[scan.conn] = efficientWeight[scan.conn]
        BY <1>1, <1>8, <3>2, <4>1 DEF SwapWeight, WrrInv, WrrTypeOK
      <4> QED
        BY <1>4, <1>5, <3>1, <3>2, <4>1, <4>2 DEF Pending
    <3>3. CASE ~Reads("current")
      BY <1>4, <1>5, <3>1, <3>3 DEF Pending
    <3> QED
      BY <3>2, <3>3
  <2>3. ScanOK'
    BY <1>1, <2>1 DEF ScanOK
  <2>4. BalancedBy(k)'
    BY <1>1, <1>4, <1>5, <1>6, <2>1, <2>2 DEF BalancedBy, Multiples
  <2> QED
    BY <2>3, <2>4 DEF Balanced
<1> QED
  BY <1>7, <1>8

(* Where nothing of the balance changes, it stays. *)
LEMMA OtherBalances ==
    ASSUME BalanceInv, UNCHANGED <<currentWeight, efficientWeight, mutex, scan, totalWeight, res, races>>
    PROVE  ScanOK' /\ Balanced'
<1>1. PICK k \in Int : BalancedBy(k)
  BY DEF BalanceInv, Balanced
<1>2. Pending' = Pending
  BY DEF Pending, Reads
<1>3. BalancedBy(k)'
  BY <1>1, <1>2 DEF BalancedBy, Multiples
<1>4. ScanOK'
  BY DEF BalanceInv, ScanOK
<1> QED
  BY <1>3, <1>4 DEF Balanced

(* Weights are exact however results race with picks: the efficient ones   *)
(* count every result, the current ones sum to zero between picks but for  *)
(* the results that came between the two reads of one (Pick and Done of    *)
(* WeightBalancer), for every number of connections and callers.           *)
THEOREM WeightsKept == WrrSpec => []WeightsRight
<1>1. BalanceInv /\ [WrrNext]_wrrVars => BalanceInv'
  <2> SUFFICES ASSUME BalanceInv, [WrrNext]_wrrVars PROVE BalanceInv'
    OBVIOUS
  <2>0. WrrInv
    BY DEF BalanceInv
  <2>1. CASE SkipFiltered \/ AddTotal \/ AddCurrent
    BY <2>0, <2>1, ScanKeeps, ScanBalances DEF BalanceInv
  <2>2. CASE Unlock
    BY <2>0, <2>2, UnlockKeeps, UnlockBalances DEF BalanceInv
  <2>3. ASSUME NEW u \in Users, Lock(u) PROVE BalanceInv'
    BY <2>0, <2>3, LockKeeps, LockBalances DEF BalanceInv
  <2>4. ASSUME NEW u \in Users, EndCall(u) \/ LoadWeight(u) PROVE BalanceInv'
    <3>1. UNCHANGED <<currentWeight, efficientWeight, mutex, scan, totalWeight, res, races>>
      BY <2>4 DEF EndCall, LoadWeight
    <3> QED
      BY <2>0, <2>4, <3>1, EndCallKeeps, LoadKeeps, OtherBalances DEF BalanceInv
  <2>5. ASSUME NEW u \in Users, SwapWeight(u) PROVE BalanceInv'
    BY <2>0, <2>5, SwapKeeps, SwapBalances DEF BalanceInv
  <2>6. CASE UNCHANGED wrrVars
    <3>1. WrrInv'
      BY <2>0, <2>6 DEF wrrVars, WrrInv, WrrTypeOK, WeightsTyped, HeldByCalls, LoadedInside, EfficientExact
    <3>2. UNCHANGED <<currentWeight, efficientWeight, mutex, scan, totalWeight, res, races>>
      BY <2>6 DEF wrrVars
    <3> QED
      BY <3>1, <3>2, OtherBalances DEF BalanceInv
  <2> QED
    BY <2>1, <2>2, <2>3, <2>4, <2>5, <2>6 DEF WrrNext
<1>2. BalanceInv => WeightsRight
  BY BalanceSuffices DEF BalanceInv, WrrInv, WeightsRight
<1> QED
  BY <1>1, <1>2, BalanceStarts, PTL DEF WrrSpec

-----------------------------------------------------------------------------
(* The least active connection.                                            *)

CallsOn(c) == {p \in Callers : stage[p] = "call" /\ least[p].conn = c}
Conn(p) == least[p].conn

(* What a scan has found so far, as long as no count has changed: none of  *)
(* the connections it has passed is below its least, and its least is what *)
(* that connection still counts.                                           *)
ScanOf(p) ==
    (stage[p] \in {"scan", "add"} /\ ~disturbed[p]) =>
        /\ least[p].conn # 0 => least[p].conn \in allowed /\ active[least[p].conn] = least[p].count
        /\ \A d \in allowed : d < pos[p] => least[p].count <= active[d]
        /\ stage[p] = "add" => \A d \in allowed : d < pos[p]
Chosen == \A p \in Callers : stage[p] \in {"add", "call"} => least[p].conn \in Pool
LeastInv ==
    /\ LeastActiveTypeOK /\ Chosen
    /\ ActiveIsCallsInProgress
    /\ \A p \in Callers : ScanOf(p)

(* A counter modulo Mod that stays below it counts up and down as a number *)
(* does: adding the largest value takes one away (atomic.AddUint32).       *)
LEMMA ModuloCounts ==
    ASSUME NEW m \in Nat, NEW n \in Nat, n < m
    PROVE  /\ n + 1 < m => (n + 1) % m = n + 1
           /\ n > 0 => (n + (m - 1)) % m = n - 1
  OBVIOUS

(* Picks in progress are finitely many, and fewer than the counter holds.  *)
LEMMA CallsBounded ==
    ASSUME NEW c
    PROVE  /\ IsFiniteSet(CallsOn(c)) /\ Cardinality(CallsOn(c)) \in Nat
           /\ Cardinality(CallsOn(c)) <= Cardinality(Callers)
           /\ Cardinality(Callers) \in Nat /\ Cardinality(Callers) + 1 < Mod
<1>1. IsFiniteSet(Callers) /\ Mod \in Nat /\ Mod > Cardinality(Callers) + 1
  BY LeastActiveAssumption
<1>2. CallsOn(c) \subseteq Callers
  BY DEF CallsOn
<1>3. IsFiniteSet(CallsOn(c)) /\ Cardinality(CallsOn(c)) <= Cardinality(Callers)
  BY <1>1, <1>2, FS_Subset
<1>4. Cardinality(CallsOn(c)) \in Nat /\ Cardinality(Callers) \in Nat
  BY <1>1, <1>3, FS_CardinalityType
<1> QED
  BY <1>1, <1>3, <1>4

(* The constants are numbers: connections 1 to n, and a width above 1.     *)
LEMMA LeastConstants ==
    /\ Cardinality(Pool) \in Nat /\ Mod \in Nat /\ Mod > 1 /\ Pool = 1 .. Cardinality(Pool)
    /\ IsFiniteSet(Callers) /\ 0 \notin Pool
<1>1. /\ IsFiniteSet(Pool) /\ Pool = 1 .. Cardinality(Pool) /\ IsFiniteSet(Callers)
      /\ Mod \in Nat /\ Mod > Cardinality(Callers) + 1
  BY LeastActiveAssumption
<1>2. Cardinality(Pool) \in Nat
  BY <1>1, FS_CardinalityType
<1>3. Cardinality(Callers) \in Nat
  BY <1>1, FS_CardinalityType
<1>4. 0 \notin Pool
  BY <1>1, <1>2
<1>5. Mod > 1
  BY <1>1, <1>3
<1> QED
  BY <1>1, <1>2, <1>4, <1>5

(* A picker that was just built satisfies the invariant.                   *)
LEMMA LeastInitInv == LeastActiveInit => LeastInv
<1> SUFFICES ASSUME NEW a \in SUBSET Pool, BuildLeastActive(a) PROVE LeastInv
  BY DEF LeastActiveInit
<1>1. Cardinality(Pool) \in Nat /\ Mod \in Nat /\ Mod > 1
  BY LeastConstants
<1>2. LeastActiveTypeOK /\ Chosen
  BY <1>1 DEF BuildLeastActive, LeastActiveTypeOK, Chosen, None
<1>3. ActiveIsCallsInProgress
  <2> SUFFICES ASSUME NEW c \in Pool PROVE active[c] = Cardinality(CallsOn(c))
    BY DEF ActiveIsCallsInProgress, CallsOn
  <2>1. CallsOn(c) = {}
    BY DEF CallsOn, BuildLeastActive
  <2> QED
    BY <2>1, FS_EmptySet DEF BuildLeastActive
<1>4. \A p \in Callers : ScanOf(p)
  BY DEF BuildLeastActive, ScanOf
<1> QED
  BY <1>2, <1>3, <1>4 DEF LeastInv

(* No step of a pick or of a Done breaks it, however they interleave.      *)
LEMMA LeastStepInv ==
    ASSUME LeastInv, [LeastActiveNext]_leastVars
    PROVE  LeastInv'
<1>0. /\ Cardinality(Pool) \in Nat /\ Mod \in Nat /\ Mod > 1 /\ Pool = 1 .. Cardinality(Pool)
      /\ IsFiniteSet(Callers)
  BY LeastConstants
<1>1. ASSUME NEW p \in Callers, BeginPick(p) PROVE LeastInv'
  <2>1. LeastActiveTypeOK'
    BY <1>0, <1>1 DEF LeastInv, LeastActiveTypeOK, BeginPick, None
  <2>2. Chosen'
    BY <1>1 DEF LeastInv, LeastActiveTypeOK, Chosen, BeginPick
  <2>3. \A c : CallsOn(c)' = CallsOn(c)
    BY <1>1 DEF CallsOn, BeginPick, LeastInv, LeastActiveTypeOK
  <2>4. ActiveIsCallsInProgress'
    BY <1>1, <2>3 DEF LeastInv, ActiveIsCallsInProgress, CallsOn, BeginPick
  <2>5. ASSUME NEW q \in Callers PROVE ScanOf(q)'
    <3>1. CASE q = p
      <4>1. stage'[q] = "scan" /\ pos'[q] = 1 /\ least'[q].conn = 0
        BY <1>1, <3>1 DEF LeastInv, LeastActiveTypeOK, BeginPick, None
      <4>2. \A d \in allowed' : ~(d < 1)
        BY <1>0, <2>1 DEF LeastActiveTypeOK
      <4> QED
        BY <4>1, <4>2 DEF ScanOf
    <3>2. CASE q # p
      <4>1. /\ stage'[q] = stage[q] /\ pos'[q] = pos[q] /\ least'[q] = least[q]
            /\ disturbed'[q] = disturbed[q] /\ allowed' = allowed /\ active' = active
        BY <1>1, <3>2 DEF LeastInv, LeastActiveTypeOK, BeginPick
      <4>2. ScanOf(q)
        BY DEF LeastInv
      <4> QED
        BY <4>1, <4>2 DEF ScanOf
    <3> QED
      BY <3>1, <3>2
  <2> QED
    BY <2>1, <2>2, <2>4, <2>5 DEF LeastInv
<1>2. ASSUME NEW p \in Callers, Scan(p) PROVE LeastInv'
  <2>1. LeastActiveTypeOK'
    BY <1>0, <1>2 DEF LeastInv, LeastActiveTypeOK, Scan, Better
  <2>2. Chosen'
    BY <1>2 DEF LeastInv, LeastActiveTypeOK, Chosen, Scan
  <2>3. \A c : CallsOn(c)' = CallsOn(c)
    BY <1>2 DEF CallsOn, Scan, LeastInv, LeastActiveTypeOK
  <2>4. ActiveIsCallsInProgress'
    BY <1>2, <2>3 DEF LeastInv, ActiveIsCallsInProgress, CallsOn, Scan
  <2>5. ASSUME NEW q \in Callers PROVE ScanOf(q)'
    <3>0. ScanOf(q)
      BY DEF LeastInv
    <3>1. CASE q = p
      <4>1. /\ stage'[q] = "scan" /\ pos'[q] = pos[q] + 1 /\ stage[q] = "scan"
            /\ disturbed'[q] = disturbed[q] /\ allowed' = allowed /\ active' = active
            /\ pos[q] \in Pool
        BY <1>2, <3>1 DEF LeastInv, LeastActiveTypeOK, Scan
      <4>2. CASE Better(q, pos[q])
        <5>1. /\ least'[q].conn = pos[q] /\ least'[q].count = active[pos[q]]
              /\ pos[q] \in allowed /\ active[pos[q]] < least[q].count
          BY <1>2, <3>1, <4>2 DEF Better, LeastInv, LeastActiveTypeOK, Scan
        <5>2. /\ allowed \subseteq Pool /\ active \in [Pool -> 0 .. Mod - 1]
              /\ least[q].count \in 0 .. Mod - 1
          BY DEF LeastInv, LeastActiveTypeOK
        <5>3. ASSUME ~disturbed[q], NEW d \in allowed, d < pos[q] + 1 PROVE active[pos[q]] <= active[d]
          <6>1. d < pos[q] => least[q].count <= active[d]
            BY <3>0, <4>1, <5>3 DEF ScanOf
          <6>2. /\ d \in Int /\ pos[q] \in Int /\ active[d] \in Int /\ active[pos[q]] \in Int
                /\ least[q].count \in Int
            BY <1>0, <4>1, <5>2, <5>3
          <6>3. d < pos[q] \/ d = pos[q]
            BY <5>3, <6>2
          <6> QED
            BY <5>1, <6>1, <6>2, <6>3
        <5> QED
          BY <4>1, <5>1, <5>3 DEF ScanOf
      <4>3. CASE ~Better(q, pos[q])
        <5>1. least'[q] = least[q] /\ (pos[q] \in allowed => ~(active[pos[q]] < least[q].count))
          BY <1>2, <3>1, <4>3 DEF Better, Scan
        <5>2. /\ allowed \subseteq Pool /\ active \in [Pool -> 0 .. Mod - 1]
              /\ least[q].count \in 0 .. Mod - 1
          BY DEF LeastInv, LeastActiveTypeOK
        <5> QED
          BY <1>0, <3>0, <4>1, <5>1, <5>2 DEF ScanOf
      <4> QED
        BY <4>2, <4>3
    <3>2. CASE q # p
      <4>1. /\ stage'[q] = stage[q] /\ pos'[q] = pos[q] /\ least'[q] = least[q]
            /\ disturbed'[q] = disturbed[q] /\ allowed' = allowed /\ active' = active
        BY <1>2, <3>2 DEF LeastInv, LeastActiveTypeOK, Scan
      <4> QED
        BY <3>0, <4>1 DEF ScanOf
    <3> QED
      BY <3>1, <3>2
  <2> QED
    BY <2>1, <2>2, <2>4, <2>5 DEF LeastInv
<1>3. ASSUME NEW p \in Callers, EndScan(p) PROVE LeastInv'
  <2>1. LeastActiveTypeOK'
    BY <1>3 DEF LeastInv, LeastActiveTypeOK, EndScan
  <2>2. Chosen'
    BY <1>3 DEF LeastInv, LeastActiveTypeOK, Chosen, EndScan
  <2>3. \A c : CallsOn(c)' = CallsOn(c)
    BY <1>3 DEF CallsOn, EndScan, LeastInv, LeastActiveTypeOK
  <2>4. ActiveIsCallsInProgress'
    BY <1>3, <2>3 DEF LeastInv, ActiveIsCallsInProgress, CallsOn, EndScan
  <2>5. ASSUME NEW q \in Callers PROVE ScanOf(q)'
    <3>0. ScanOf(q)
      BY DEF LeastInv
    <3>1. /\ pos'[q] = pos[q] /\ least'[q] = least[q]
          /\ disturbed'[q] = disturbed[q] /\ allowed' = allowed /\ active' = active
      BY <1>3 DEF EndScan
    <3>2. CASE q = p
      <4>1. stage[q] = "scan" /\ stage'[q] \in {"idle", "add"}
        BY <1>3, <3>2 DEF LeastInv, LeastActiveTypeOK, EndScan
      <4>2. \A d \in allowed : d < pos[q]
        <5>1. allowed \subseteq Pool /\ pos[q] \in 1 .. Cardinality(Pool) + 1 /\ pos[q] \notin Pool
          BY <1>3, <3>2 DEF LeastInv, LeastActiveTypeOK, EndScan
        <5> QED
          BY <1>0, <5>1
      <4> QED
        BY <3>0, <3>1, <4>1, <4>2 DEF ScanOf
    <3>3. CASE q # p
      <4>1. stage'[q] = stage[q]
        BY <1>3, <3>3 DEF LeastInv, LeastActiveTypeOK, EndScan
      <4> QED
        BY <3>0, <3>1, <4>1 DEF ScanOf
    <3> QED
      BY <3>2, <3>3
  <2> QED
    BY <2>1, <2>2, <2>4, <2>5 DEF LeastInv
<1>4. ASSUME NEW p \in Callers, AddOne(p) PROVE LeastInv'
  <2>0. Conn(p) \in Pool
    BY <1>4 DEF LeastInv, Chosen, AddOne, Conn
  <2>1. LeastActiveTypeOK'
    <3>1. active' \in [Pool -> 0 .. Mod - 1]
      <4>1. active \in [Pool -> 0 .. Mod - 1] /\ active' = [active EXCEPT ![Conn(p)] = (@ + (1)) % Mod]
        BY <1>4 DEF LeastInv, LeastActiveTypeOK, AddOne, Add, Conn
      <4>2. \A n \in 0 .. Mod - 1 : (n + (1)) % Mod \in 0 .. Mod - 1
        BY <1>0
      <4> QED
        BY <2>0, <4>1, <4>2
    <3> QED
      BY <1>4, <3>1 DEF LeastInv, LeastActiveTypeOK, AddOne, Disturb
  <2>2. Chosen'
    BY <1>4 DEF LeastInv, LeastActiveTypeOK, Chosen, AddOne
  <2>3. ASSUME NEW c \in Pool PROVE active'[c] = Cardinality(CallsOn(c)')
    <3>1. active[c] = Cardinality(CallsOn(c)) /\ p \notin CallsOn(c)
      BY <1>4 DEF LeastInv, ActiveIsCallsInProgress, CallsOn, AddOne
    <3>2. CASE c = Conn(p)
      <4>1. CallsOn(c)' = CallsOn(c) \cup {p}
        BY <1>4, <3>2 DEF CallsOn, AddOne, LeastInv, LeastActiveTypeOK, Conn
      <4>2. Cardinality(CallsOn(c)') = Cardinality(CallsOn(c)) + 1
        <5>1. IsFiniteSet(CallsOn(c))
          BY CallsBounded
        <5> QED
          BY <3>1, <4>1, <5>1, FS_AddElement
      <4>3. active'[c] = (active[c] + 1) % Mod
        BY <1>4, <3>2 DEF AddOne, Add, LeastInv, LeastActiveTypeOK, Conn
      <4>4. active[c] \in Nat /\ active[c] + 1 < Mod /\ Mod \in Nat
        BY <1>0, <3>1, CallsBounded
      <4> QED
        BY <3>1, <4>2, <4>3, <4>4, ModuloCounts
    <3>3. CASE c # Conn(p)
      <4>1. CallsOn(c)' = CallsOn(c)
        BY <1>4, <3>3 DEF CallsOn, AddOne, LeastInv, LeastActiveTypeOK, Conn
      <4>2. active'[c] = active[c]
        BY <1>4, <3>3 DEF AddOne, Add, LeastInv, LeastActiveTypeOK, Conn
      <4> QED
        BY <3>1, <4>1, <4>2
    <3> QED
      BY <3>2, <3>3
  <2>4. ActiveIsCallsInProgress'
    BY <2>3 DEF ActiveIsCallsInProgress, CallsOn
  <2>5. ASSUME NEW q \in Callers PROVE ScanOf(q)'
    <3>1. CASE q = p
      BY <1>4, <3>1 DEF ScanOf, AddOne, LeastInv, LeastActiveTypeOK
    <3>2. CASE q # p
      BY <1>4, <3>2 DEF ScanOf, AddOne, Disturb
    <3> QED
      BY <3>1, <3>2
  <2> QED
    BY <2>1, <2>2, <2>4, <2>5 DEF LeastInv
<1>5. ASSUME NEW p \in Callers, Done(p) PROVE LeastInv'
  <2>0. Conn(p) \in Pool
    BY <1>5 DEF LeastInv, Chosen, Done, Conn
  <2>1. LeastActiveTypeOK'
    <3>1. active' \in [Pool -> 0 .. Mod - 1]
      <4>1. active \in [Pool -> 0 .. Mod - 1] /\ active' = [active EXCEPT ![Conn(p)] = (@ + (Mod - 1)) % Mod]
        BY <1>5 DEF LeastInv, LeastActiveTypeOK, Done, Add, Conn
      <4>2. \A n \in 0 .. Mod - 1 : (n + (Mod - 1)) % Mod \in 0 .. Mod - 1
        BY <1>0
      <4> QED
        BY <2>0, <4>1, <4>2
    <3> QED
      BY <1>5, <3>1 DEF LeastInv, LeastActiveTypeOK, Done, Disturb
  <2>2. Chosen'
    BY <1>5 DEF LeastInv, LeastActiveTypeOK, Chosen, Done
  <2>3. ASSUME NEW c \in Pool PROVE active'[c] = Cardinality(CallsOn(c)')
    <3>1. active[c] = Cardinality(CallsOn(c))
      BY DEF LeastInv, ActiveIsCallsInProgress, CallsOn
    <3>2. CASE c = Conn(p)
      <4>1. CallsOn(c)' = CallsOn(c) \ {p} /\ p \in CallsOn(c)
        BY <1>5, <3>2 DEF CallsOn, Done, LeastInv, LeastActiveTypeOK, Conn
      <4>2. Cardinality(CallsOn(c)') = Cardinality(CallsOn(c)) - 1 /\ Cardinality(CallsOn(c)) > 0
        <5>1. IsFiniteSet(CallsOn(c)) /\ Cardinality(CallsOn(c)) \in Nat
          BY CallsBounded
        <5>2. Cardinality(CallsOn(c)) # 0
          BY <4>1, <5>1, FS_EmptySet
        <5>3. Cardinality(CallsOn(c)') = Cardinality(CallsOn(c)) - 1
          BY <4>1, <5>1, FS_RemoveElement
        <5> QED
          BY <5>1, <5>2, <5>3
      <4>3. active'[c] = (active[c] + (Mod - 1)) % Mod
        BY <1>5, <3>2 DEF Done, Add, LeastInv, LeastActiveTypeOK, Conn
      <4>4. active[c] \in Nat /\ active[c] < Mod /\ Mod \in Nat
        BY <1>0, <3>1, CallsBounded
      <4> QED
        BY <3>1, <4>2, <4>3, <4>4, ModuloCounts
    <3>3. CASE c # Conn(p)
      <4>1. CallsOn(c)' = CallsOn(c)
        BY <1>5, <3>3 DEF CallsOn, Done, LeastInv, LeastActiveTypeOK, Conn
      <4>2. active'[c] = active[c]
        BY <1>5, <3>3 DEF Done, Add, LeastInv, LeastActiveTypeOK, Conn
      <4> QED
        BY <3>1, <4>1, <4>2
    <3> QED
      BY <3>2, <3>3
  <2>4. ActiveIsCallsInProgress'
    BY <2>3 DEF ActiveIsCallsInProgress, CallsOn
  <2>5. ASSUME NEW q \in Callers PROVE ScanOf(q)'
    <3>1. CASE q = p
      BY <1>5, <3>1 DEF ScanOf, Done, LeastInv, LeastActiveTypeOK
    <3>2. CASE q # p
      BY <1>5, <3>2 DEF ScanOf, Done, Disturb
    <3> QED
      BY <3>1, <3>2
  <2> QED
    BY <2>1, <2>2, <2>4, <2>5 DEF LeastInv
<1>6. CASE UNCHANGED leastVars
  BY <1>6 DEF leastVars, LeastInv, LeastActiveTypeOK, Chosen, ActiveIsCallsInProgress, ScanOf
<1> QED
  BY <1>1, <1>2, <1>3, <1>4, <1>5, <1>6 DEF LeastActiveNext

(* For every number of connections and callers, every filter and every     *)
(* width of the counters: the count of a connection is the number of its   *)
(* calls in progress, and a pick that nothing disturbed takes one with the *)
(* fewest (leastactive Pick, Done).                                        *)
THEOREM LeastIsRight == LeastActiveSpec => []LeastRight
<1>1. LeastInv => LeastRight
  <2> SUFFICES ASSUME LeastInv, NEW p \in Callers, stage[p] = "add", ~disturbed[p]
               PROVE  /\ least[p].conn \in allowed
                      /\ \A d \in allowed : active[least[p].conn] <= active[d]
    BY DEF LeastInv, LeastRight, LeastUnlessDisturbed
  <2>1. ScanOf(p) /\ least[p].conn \in Pool /\ 0 \notin Pool
    BY LeastConstants DEF LeastInv, Chosen
  <2> QED
    BY <2>1 DEF ScanOf
<1> QED
  BY <1>1, LeastInitInv, LeastStepInv, PTL DEF LeastActiveSpec

-----------------------------------------------------------------------------
(* The back-off: the powers of two *)

(* g lists the powers of two up to the n-th. *)
Doubles(g, n) ==
    /\ g \in [0 .. n -> Nat] /\ g[0] = 1
    /\ \A k \in 1 .. n : g[k] = 2 * g[k - 1]

LEMMA DoublesExist ==
    ASSUME NEW n \in Nat
    PROVE  \E g : Doubles(g, n)
<1> DEFINE D == {k \in Nat : ~\E g : Doubles(g, k)}
<1> SUFFICES ASSUME n \in D PROVE FALSE
  OBVIOUS
<1>1. PICK m \in D : \A y \in D : m <= y
  <2>1. D \subseteq Nat /\ D # {}
    OBVIOUS
  <2> HIDE DEF D
  <2> QED
    BY <2>1, LeastElement
<1>2. CASE m = 0
  <2>1. Doubles([k \in 0 .. 0 |-> 1], 0)
    BY DEF Doubles
  <2> QED
    BY <1>2, <2>1
<1>3. CASE m # 0
  <2>1. m \in Nat /\ m - 1 \in Nat /\ ~(m <= m - 1)
    BY <1>3
  <2>2. m - 1 \notin D
    BY <1>1, <2>1
  <2>3. PICK g : Doubles(g, m - 1)
    BY <2>1, <2>2
  <2> DEFINE h == [k \in 0 .. m |-> IF k = m THEN 2 * g[m - 1] ELSE g[k]]
  <2>4. /\ g \in [0 .. m - 1 -> Nat] /\ g[0] = 1
        /\ \A k \in 1 .. m - 1 : g[k] = 2 * g[k - 1]
    BY <2>3 DEF Doubles
  <2>5. \A k \in 0 .. m - 1 : k \in 0 .. m /\ k # m /\ g[k] \in Nat
    BY <2>1, <2>4
  <2>6. \A k \in 0 .. m : k = m \/ k \in 0 .. m - 1
    BY <2>1
  <2>7. m - 1 \in 0 .. m - 1 /\ 2 * g[m - 1] \in Nat
    <3>1. m - 1 \in 0 .. m - 1
      BY <2>1
    <3>2. g[m - 1] \in Nat
      BY <2>5, <3>1
    <3> QED
      BY <3>1, <3>2
  <2>8. h \in [0 .. m -> Nat]
    BY <2>5, <2>6, <2>7
  <2>9. h[0] = 1
    BY <2>1, <2>4
  <2>10. ASSUME NEW k \in 1 .. m PROVE h[k] = 2 * h[k - 1]
    <3>1. k \in 0 .. m /\ k - 1 \in 0 .. m /\ k - 1 # m /\ (k = m \/ k \in 1 .. m - 1)
      BY <2>1
    <3>2. h[k - 1] = g[k - 1]
      BY <3>1
    <3>3. CASE k = m
      BY <3>1, <3>2, <3>3
    <3>4. CASE k \in 1 .. m - 1
      <4>1. k # m /\ h[k] = g[k]
        BY <2>1, <3>1, <3>4
      <4> QED
        BY <2>4, <3>2, <3>4, <4>1
    <3> QED
      BY <3>1, <3>3, <3>4
  <2> HIDE DEF h
  <2>11. Doubles(h, m)
    BY <2>8, <2>9, <2>10 DEF Doubles
  <2> QED
    BY <2>11
<1> QED
  BY <1>2, <1>3

LEMMA DoublesUnique ==
    ASSUME NEW n \in Nat, NEW m \in Nat, NEW g, NEW h, Doubles(g, n), Doubles(h, m),
           NEW k \in 0 .. n, k \in 0 .. m
    PROVE  g[k] = h[k]
<1> DEFINE D == {j \in Nat : j <= n /\ j <= m /\ g[j] # h[j]}
<1> SUFFICES ASSUME k \in D PROVE FALSE
  OBVIOUS
<1>1. PICK j \in D : \A y \in D : j <= y
  <2>1. D \subseteq Nat /\ D # {}
    OBVIOUS
  <2> HIDE DEF D
  <2> QED
    BY <2>1, LeastElement
<1>2. j \in Nat /\ j <= n /\ j <= m /\ g[j] # h[j]
  OBVIOUS
<1>3. j # 0
  BY <1>2 DEF Doubles
<1>4. j - 1 \in Nat /\ j - 1 <= n /\ j - 1 <= m /\ ~(j <= j - 1)
  BY <1>2, <1>3
<1>5. g[j - 1] = h[j - 1]
  BY <1>1, <1>4
<1>6. j \in 1 .. n /\ j \in 1 .. m
  BY <1>2, <1>3
<1>7. g[j] = 2 * g[j - 1] /\ h[j] = 2 * h[j - 1]
  BY <1>6 DEF Doubles
<1> QED
  BY <1>2, <1>5, <1>7

(* The recursion of Pow2 has a solution, so Pow2 is one. *)
LEMMA PowersOfTwo ==
    /\ Pow2 = [n \in Nat |-> IF n = 0 THEN 1 ELSE 2 * Pow2[n - 1]]
    /\ \A n \in Nat : Pow2[n] \in Nat
<1> DEFINE G(n) == CHOOSE g : Doubles(g, n)
           f == [n \in Nat |-> G(n)[n]]
<1>1. ASSUME NEW n \in Nat PROVE Doubles(G(n), n)
  BY DoublesExist
<1> HIDE DEF G
<1>2. ASSUME NEW n \in Nat PROVE f[n] = G(n)[n] /\ f[n] \in Nat
  <2>1. Doubles(G(n), n) /\ n \in 0 .. n
    BY <1>1
  <2>2. G(n)[n] \in Nat
    BY <2>1 DEF Doubles
  <2> QED
    BY <2>2
<1>3. f[0] = 1
  <2>1. Doubles(G(0), 0)
    BY <1>1
  <2> QED
    BY <1>2, <2>1 DEF Doubles
<1>4. ASSUME NEW n \in Nat, n # 0 PROVE f[n] = 2 * f[n - 1]
  <2>1. n - 1 \in Nat /\ n \in 1 .. n /\ n - 1 \in 0 .. n /\ n - 1 \in 0 .. n - 1
    BY <1>4
  <2>2. Doubles(G(n), n) /\ Doubles(G(n - 1), n - 1)
    BY <1>1, <2>1
  <2>3. G(n)[n] = 2 * G(n)[n - 1]
    BY <2>1, <2>2 DEF Doubles
  <2>4. G(n)[n - 1] = G(n - 1)[n - 1]
    BY <2>1, <2>2, DoublesUnique
  <2> QED
    BY <1>2, <2>1, <2>3, <2>4
<1>5. f = [n \in Nat |-> IF n = 0 THEN 1 ELSE 2 * f[n - 1]]
  <2>1. DOMAIN f = Nat /\ \A n \in Nat : f[n] = IF n = 0 THEN 1 ELSE 2 * f[n - 1]
    BY <1>3, <1>4
  <2>2. f = [n \in Nat |-> f[n]]
    OBVIOUS
  <2> HIDE DEF f
  <2> QED
    BY <2>1, <2>2
<1> HIDE DEF f
<1>6. \E p : p = [n \in Nat |-> IF n = 0 THEN 1 ELSE 2 * p[n - 1]]
  BY <1>5
<1>7. Pow2 = [n \in Nat |-> IF n = 0 THEN 1 ELSE 2 * Pow2[n - 1]]
  BY <1>6 DEF Pow2
<1>8. ASSUME NEW n \in Nat PROVE Pow2[n] \in Nat
  <2> DEFINE D == {k \in Nat : Pow2[k] \notin Nat}
  <2> SUFFICES ASSUME n \in D PROVE FALSE
    OBVIOUS
  <2>1. PICK m \in D : \A y \in D : m <= y
    <3>1. D \subseteq Nat /\ D # {}
      OBVIOUS
    <3> HIDE DEF D
    <3> QED
      BY <3>1, LeastElement
  <2>2. m \in Nat /\ Pow2[m] \notin Nat
    OBVIOUS
  <2>3. Pow2[m] = IF m = 0 THEN 1 ELSE 2 * Pow2[m - 1]
    BY <1>7, <2>2
  <2>4. m # 0 /\ m - 1 \in Nat /\ ~(m <= m - 1)
    BY <2>2, <2>3
  <2>5. Pow2[m - 1] \in Nat
    BY <2>1, <2>4
  <2> QED
    BY <2>2, <2>3, <2>4, <2>5
<1> QED
  BY <1>7, <1>8

-----------------------------------------------------------------------------
(* The values of the strategies *)

LEMMA Products ==
    ASSUME NEW a \in Nat, NEW b \in Nat, NEW c \in Nat, a <= b
    PROVE  /\ a * c \in Nat /\ b * c \in Nat /\ a * c <= b * c
           /\ c * a \in Nat /\ c * b \in Nat /\ c * a <= c * b
OBVIOUS

LEMMA Quotients ==
    ASSUME NEW a \in Nat, NEW b \in Nat, a <= b
    PROVE  a \div 100 \in Nat /\ b \div 100 \in Nat /\ a \div 100 <= b \div 100
OBVIOUS

LEMMA BackoffConstants ==
    /\ InitialBackoff \in Nat /\ MaxBackoff \in Nat /\ InitialBackoff <= MaxBackoff
    /\ Tries \in Nat /\ JitterPct \in Nat /\ JitterPct <= 100 /\ SmoothPct \in 0 .. 100
    /\ MaxDuration \in Nat /\ 2 * MaxBackoff <= MaxDuration
    /\ Latencies \subseteq 0 .. MaxDuration
BY BackoffAssumption

(* A jittered delay is at most the delay and its largest jitter. *)
LEMMA JitterBounds ==
    ASSUME NEW d \in Nat, NEW m \in Nat, d <= m, NEW w \in Jitter(d)
    PROVE  w \in Nat /\ w <= m + (m * JitterPct) \div 100
<1>1. PICK j \in 0 .. JitterPct : w = d + (d * j) \div 100
  BY DEF Jitter
<1>2. j \in Nat /\ j <= JitterPct
  BY BackoffConstants
<1>3. PICK x \in Nat : x = d * j /\ x <= d * JitterPct
  BY <1>2, BackoffConstants, Products
<1>4. PICK y \in Nat : y = m * JitterPct /\ x <= y
  <2>1. d * JitterPct \in Nat /\ m * JitterPct \in Nat /\ d * JitterPct <= m * JitterPct
    BY BackoffConstants, Products
  <2> QED
    BY <1>3, <2>1
<1>5. x \div 100 \in Nat /\ y \div 100 \in Nat /\ x \div 100 <= y \div 100
  BY <1>4, Quotients
<1> QED
  BY <1>1, <1>3, <1>4, <1>5

(* Jitter at most doubles a delay, so Max and its jitter fit a Duration. *)
LEMMA JitterFits == (MaxBackoff * JitterPct) \div 100 \in Nat
                    /\ MaxBackoff + (MaxBackoff * JitterPct) \div 100 <= MaxDuration
<1>1. PICK y \in Nat : y = MaxBackoff * JitterPct /\ y <= MaxBackoff * 100
  BY BackoffConstants, Products
<1>2. y \div 100 \in Nat /\ y \div 100 <= MaxBackoff
  BY <1>1, BackoffConstants
<1> QED
  BY <1>1, <1>2, BackoffConstants

(* What NextBackoff and calculateDelay return is within the bounds. *)
LEMMA BackoffValues ==
    ASSUME NEW n \in Nat, n > 0, NEW w \in NextBackoff(n),
           avgLatency \in Nat, failureCount \in Nat,
           strategy \in {"FixedDelay", "ExponentialBackoff", "RandomizedBackoff", "Exponential",
                         "Jittered", "Adaptive"}
    PROVE  /\ w \in 0 .. MaxDuration
           /\ strategy # "Jittered" => w <= MaxBackoff
           /\ strategy = "Jittered" => w <= MaxBackoff + (MaxBackoff * JitterPct) \div 100
           /\ strategy = "Adaptive" => w >= InitialBackoff
<1>0. /\ InitialBackoff \in Nat /\ MaxBackoff \in Nat /\ InitialBackoff <= MaxBackoff
      /\ MaxDuration \in Nat /\ MaxBackoff <= MaxDuration
  BY BackoffConstants
<1>1. ASSUME NEW x \in Nat
      PROVE  AtMost(x, MaxBackoff) \in Nat /\ AtMost(x, MaxBackoff) <= MaxBackoff
  BY <1>0 DEF AtMost
<1>2. ASSUME NEW k \in Nat PROVE InitialBackoff * Pow2[k] \in Nat
  <2>1. Pow2[k] \in Nat
    BY PowersOfTwo
  <2> QED
    BY <1>0, <2>1
<1>3. ASSUME NEW k \in Nat PROVE Exponential(k) \in Nat /\ Exponential(k) <= MaxBackoff
  BY <1>1, <1>2 DEF Exponential
<1>4. n - 1 \in Nat
  OBVIOUS
<1>5. CASE strategy = "Exponential" \/ strategy = "FixedDelay" \/ strategy = "ExponentialBackoff"
  <2>1. \/ w = Exponential(n) \/ w = AtMost(InitialBackoff, MaxBackoff)
        \/ w = AtMost(InitialBackoff * Pow2[n - 1], MaxBackoff)
    BY <1>5 DEF NextBackoff
  <2>2. w \in Nat /\ w <= MaxBackoff
    BY <1>0, <1>1, <1>2, <1>3, <1>4, <2>1
  <2> QED
    BY <1>0, <1>5, <2>2
<1>6. CASE strategy = "Jittered"
  <2>1. w \in Jitter(Exponential(n))
    BY <1>6 DEF NextBackoff
  <2>2. w \in Nat /\ w <= MaxBackoff + (MaxBackoff * JitterPct) \div 100
    BY <1>0, <1>3, <2>1, JitterBounds
  <2> QED
    BY <1>0, <1>6, <2>2, JitterFits
<1>7. CASE strategy = "RandomizedBackoff"
  <2>1. PICK d \in Jitter(InitialBackoff * Pow2[n - 1]) : w = AtMost(d, MaxBackoff)
    BY <1>7 DEF NextBackoff
  <2>2. PICK x \in Nat : x = InitialBackoff * Pow2[n - 1]
    BY <1>2, <1>4
  <2>3. d \in Nat
    <3>1. x <= x
      OBVIOUS
    <3> QED
      BY <2>2, <3>1, JitterBounds
  <2>4. w \in Nat /\ w <= MaxBackoff
    BY <1>1, <2>1, <2>3
  <2> QED
    BY <1>0, <1>7, <2>4
<1>8. CASE strategy = "Adaptive"
  <2> DEFINE x == (avgLatency * (10 + AtMost(failureCount, 10)) * Pow2[n]) \div 10
  <2>1. w = AtMost(AtLeast(x, InitialBackoff), MaxBackoff)
    BY <1>8 DEF NextBackoff, Adaptive
  <2>2. x \in Int
    <3>1. PICK p \in Nat : p = Pow2[n]
      BY PowersOfTwo
    <3>2. PICK c \in Nat : c = 10 + AtMost(failureCount, 10)
      BY DEF AtMost
    <3>3. PICK y \in Nat : y = avgLatency * c
      BY <3>2
    <3>4. PICK z \in Nat : z = y * p
      BY <3>1, <3>3
    <3>5. x = z \div 10
      BY <3>1, <3>2, <3>3, <3>4
    <3>6. z \div 10 \in Int
      BY <3>4
    <3> HIDE DEF x
    <3> QED
      BY <3>5, <3>6
  <2> HIDE DEF x
  <2>3. w \in Nat /\ w <= MaxBackoff /\ w >= InitialBackoff
    BY <1>0, <2>1, <2>2 DEF AtMost, AtLeast
  <2> QED
    BY <1>0, <1>8, <2>3
<1> QED
  BY <1>5, <1>6, <1>7, <1>8

(* The average stays between the latencies it is made of. *)
LEMMA AverageBounds ==
    ASSUME NEW a \in 0 .. MaxDuration, NEW l \in 0 .. MaxDuration
    PROVE  (a * (100 - SmoothPct) + l * SmoothPct) \div 100 \in 0 .. MaxDuration
<1>1. /\ MaxDuration \in Nat /\ SmoothPct \in Nat /\ 100 - SmoothPct \in Nat
      /\ a \in Nat /\ a <= MaxDuration /\ l \in Nat /\ l <= MaxDuration
  BY BackoffConstants
<1>2. PICK s \in Nat, t \in Nat : s = SmoothPct /\ t = 100 - SmoothPct /\ s + t = 100
  BY <1>1
<1>3. PICK x \in Nat : x = a * t /\ x <= MaxDuration * t
  BY <1>1, Products
<1>4. PICK y \in Nat : y = l * s /\ y <= MaxDuration * s
  BY <1>1, Products
<1>5. MaxDuration * t + MaxDuration * s = MaxDuration * 100
  BY <1>1, <1>2
<1>6. MaxDuration * t \in Nat /\ MaxDuration * s \in Nat
  BY <1>1
<1>7. x + y <= MaxDuration * 100
  BY <1>3, <1>4, <1>5, <1>6, <1>1
<1>8. (x + y) \div 100 \in 0 .. MaxDuration
  BY <1>1, <1>7
<1> QED
  BY <1>2, <1>3, <1>4, <1>8

-----------------------------------------------------------------------------
(* The retrier *)

(* The calls made so far are the attempt, plus one while it is judged or   *)
(* when the retrier is done, and no attempt begins after the last.         *)
CallsCounted ==
    /\ fnCalls \in {tries, tries + 1}
    /\ step \in {"idle", "check", "call", "sleep"} => fnCalls = tries
    /\ step = "judge" => fnCalls = tries + 1
    /\ tries = 0 \/ ~UsedUp(tries)

HistoryOK == failures \in Nat /\ before \in Nat /\ after \in Nat

BackoffInv == BackoffTypeOK /\ HistoryOK /\ CallsCounted /\ BackoffInRange /\ CallbacksMatch

(* A new retrier has called nothing and waited for nothing. *)
LEMMA BackoffStarts == BackoffInit => BackoffInv
<1> SUFFICES ASSUME BackoffInit PROVE BackoffInv
  OBVIOUS
<1>1. PICK mt \in Retriers : \E st \in StrategiesOf(mt) : \E sh \in BOOLEAN : NewRetrier(mt, st, sh)
  BY DEF BackoffInit
<1>2. PICK st \in StrategiesOf(mt) : \E sh \in BOOLEAN : NewRetrier(mt, st, sh)
  BY <1>1
<1>3. PICK sh \in BOOLEAN : NewRetrier(mt, st, sh)
  BY <1>2
<1>4. InitialBackoff \in 0 .. MaxDuration /\ Tries \in Nat /\ MaxBackoff \in Nat /\ MaxDuration \in Nat
  BY BackoffConstants
<1>5. BackoffTypeOK
  <2>1. method \in Retriers /\ strategy \in StrategiesOf(method) /\ shared \in BOOLEAN
    BY <1>3, Zenon DEF NewRetrier
  <2>2. /\ avgLatency = InitialBackoff /\ failureCount = 0 /\ successCount = 0 /\ step = "idle"
        /\ tries = 0 /\ ctxEnded = FALSE /\ wait = -1
    BY <1>3, Zenon DEF NewRetrier
  <2>3. ctxEnded \in BOOLEAN
    BY <2>2, Zenon
  <2> QED
    BY <1>4, <2>1, <2>2, <2>3 DEF BackoffTypeOK
<1>6. CallsCounted /\ HistoryOK
  BY <1>3 DEF NewRetrier, CallsCounted, HistoryOK
<1>7. BackoffInRange
  BY <1>3, <1>4, JitterFits DEF NewRetrier, BackoffInRange
<1>8. CallbacksMatch
  BY <1>3 DEF NewRetrier, CallbacksMatch
<1> QED
  BY <1>5, <1>6, <1>7, <1>8 DEF BackoffInv

(* What is recorded in an adaptive strategy, by the retrier or by others,  *)
(* leaves its average a Duration and its counts natural.                   *)
LEMMA RecordsKeepTypes ==
    ASSUME avgLatency \in 0 .. MaxDuration, failureCount \in Nat, successCount \in Nat,
           \/ RecordFailure \/ Reset \/ Unrecorded
           \/ \E l \in Latencies : RecordSuccess(l)
    PROVE  avgLatency' \in 0 .. MaxDuration /\ failureCount' \in Nat /\ successCount' \in Nat
<1>0. InitialBackoff \in 0 .. MaxDuration /\ MaxBackoff \in 0 .. MaxDuration /\ MaxDuration \in Nat
  BY BackoffConstants
<1>1. CASE RecordFailure
  <2>1. PICK x \in Nat : x = (avgLatency * 11) \div 10
    BY <1>0
  <2>2. AtMost(x, MaxBackoff) \in 0 .. MaxDuration
    BY <1>0 DEF AtMost
  <2> QED
    BY <1>1, <2>1, <2>2 DEF RecordFailure
<1>2. CASE Reset
  BY <1>0, <1>2 DEF Reset
<1>3. CASE Unrecorded
  BY <1>3 DEF Unrecorded
<1>4. CASE \E l \in Latencies : RecordSuccess(l)
  <2>1. PICK l \in Latencies : RecordSuccess(l)
    BY <1>4
  <2>2. l \in 0 .. MaxDuration
    BY BackoffConstants
  <2>3. (avgLatency * (100 - SmoothPct) + l * SmoothPct) \div 100 \in 0 .. MaxDuration
    BY <2>2, AverageBounds
  <2>4. avgLatency' \in 0 .. MaxDuration
    BY <2>1, <2>2, <2>3 DEF RecordSuccess
  <2> QED
    BY <2>1, <2>4 DEF RecordSuccess
<1> QED
  BY <1>1, <1>2, <1>3, <1>4

(* A call of fn counts, and its callbacks are told. *)
LEMMA CallsKeep ==
    ASSUME BackoffInv, CallSucceeds \/ CallFails \/ CallFailsForGood
    PROVE  BackoffInv'
<1> USE DEF BackoffInv
<1>1. /\ UNCHANGED <<method, strategy, shared, others, tries, ctxEnded, wait>>
      /\ step = "call" /\ fnCalls' = fnCalls + 1 /\ step' \in {"judge", "done"}
      /\ before' = IF method = "ListenableDo" /\ tries > 0 THEN before + 1 ELSE before
  BY DEF CallSucceeds, CallFails, CallFailsForGood, Reports
<1>2. \/ UNCHANGED <<failures, after>>
      \/ /\ failures' = failures + 1
         /\ after' = IF method = "ListenableDo" THEN after + 1 ELSE after
  BY DEF CallSucceeds, CallFails, CallFailsForGood
<1>3. avgLatency' \in 0 .. MaxDuration /\ failureCount' \in Nat /\ successCount' \in Nat
  <2>1. avgLatency \in 0 .. MaxDuration /\ failureCount \in Nat /\ successCount \in Nat
    BY DEF BackoffTypeOK
  <2>2. RecordFailure \/ Reset \/ Unrecorded \/ \E l \in Latencies : RecordSuccess(l)
    BY DEF CallSucceeds, CallFails, CallFailsForGood, Unrecorded
  <2> QED
    BY <2>1, <2>2, RecordsKeepTypes
<1>4. BackoffTypeOK'
  <2>1. /\ method' \in Retriers /\ strategy' \in StrategiesOf(method') /\ shared' \in BOOLEAN
        /\ tries' \in 0 .. Tries /\ ctxEnded' \in BOOLEAN /\ wait' \in -1 .. MaxDuration
    BY <1>1 DEF BackoffTypeOK
  <2> QED
    BY <1>1, <1>3, <2>1 DEF BackoffTypeOK
<1>5. tries \in Nat /\ fnCalls = tries
  BY <1>1, BackoffConstants DEF BackoffTypeOK, CallsCounted
<1>6. CallsCounted'
  <2>1. UsedUp(tries)' <=> UsedUp(tries)
    BY <1>1 DEF UsedUp
  <2> QED
    BY <1>1, <1>5, <2>1 DEF CallsCounted
<1>7. HistoryOK'
  BY <1>1, <1>2 DEF HistoryOK
<1>8. BackoffInRange'
  BY <1>1 DEF BackoffInRange
<1>9. CallbacksMatch'
  BY <1>1, <1>2, <1>5 DEF CallbacksMatch, HistoryOK
<1> QED
  BY <1>4, <1>6, <1>7, <1>8, <1>9

(* The next attempt begins only when there is one left, and the wait       *)
(* before it is one the strategy returns.                                  *)
LEMMA JudgeKeeps == BackoffInv /\ Judge => BackoffInv'
<1> SUFFICES ASSUME BackoffInv, Judge PROVE BackoffInv'
  OBVIOUS
<1> USE DEF BackoffInv
<1>1. /\ UNCHANGED <<method, strategy, shared, avgLatency, failureCount, successCount, others, ctxEnded,
                     fnCalls, failures, before, after>>
      /\ step = "judge"
  BY DEF Judge
<1>2. tries \in Nat /\ tries + 1 \in Nat /\ tries + 1 > 0 /\ fnCalls = tries + 1 /\ Tries \in Nat
  BY <1>1, BackoffConstants DEF BackoffTypeOK, CallsCounted
<1>3. HistoryOK' /\ CallbacksMatch'
  BY <1>1 DEF HistoryOK, CallbacksMatch
<1>4. /\ method' \in Retriers /\ strategy' \in StrategiesOf(method') /\ shared' \in BOOLEAN
      /\ avgLatency' \in 0 .. MaxDuration /\ failureCount' \in Nat /\ successCount' \in Nat
      /\ ctxEnded' \in BOOLEAN
  BY <1>1 DEF BackoffTypeOK
<1>5. CASE UsedUp(tries + 1)
  <2>1. step' = "done" /\ tries' = tries /\ wait' = wait
    BY <1>5 DEF Judge
  <2>2. BackoffTypeOK'
    BY <1>4, <2>1 DEF BackoffTypeOK
  <2>3. CallsCounted'
    BY <1>1, <1>2, <2>1 DEF CallsCounted, UsedUp
  <2>4. BackoffInRange'
    BY <1>1, <2>1 DEF BackoffInRange
  <2> QED
    BY <1>3, <2>2, <2>3, <2>4
<1>6. CASE ~UsedUp(tries + 1)
  <2>1. tries' = tries + 1 /\ step' = "sleep" /\ wait' \in NextBackoff(tries + 1)
    BY <1>6 DEF Judge
  <2>2. strategy \in {"FixedDelay", "ExponentialBackoff", "RandomizedBackoff", "Exponential",
                      "Jittered", "Adaptive"}
    BY DEF BackoffTypeOK, StrategiesOf, Retriers
  <2>3. avgLatency \in Nat /\ failureCount \in Nat
    BY DEF BackoffTypeOK
  <2>4. /\ wait' \in 0 .. MaxDuration
        /\ strategy # "Jittered" => wait' <= MaxBackoff
        /\ strategy = "Jittered" => wait' <= MaxBackoff + (MaxBackoff * JitterPct) \div 100
        /\ strategy = "Adaptive" => wait' >= InitialBackoff
    <3>1. PICK w \in NextBackoff(tries + 1) : w = wait'
      BY <2>1
    <3> QED
      BY <1>2, <2>2, <2>3, <3>1, BackoffValues
  <2>5. tries' \in 0 .. Tries
    BY <1>2, <1>6, <2>1 DEF UsedUp
  <2>6. wait' \in -1 .. MaxDuration
    BY <2>4, BackoffConstants
  <2>7. BackoffTypeOK'
    BY <1>4, <2>1, <2>5, <2>6 DEF BackoffTypeOK
  <2>8. CallsCounted'
    BY <1>1, <1>2, <1>6, <2>1 DEF CallsCounted, UsedUp
  <2>9. BackoffInRange'
    BY <1>1, <2>4 DEF BackoffInRange
  <2> QED
    BY <1>3, <2>7, <2>8, <2>9
<1> QED
  BY <1>5, <1>6

(* The other steps of the loop move the retrier and touch nothing else. *)
LEMMA MovesKeep ==
    ASSUME BackoffInv, Start \/ CheckContext \/ Wake \/ Interrupted \/ ContextEnds
    PROVE  BackoffInv'
<1> USE DEF BackoffInv
<1>1. /\ UNCHANGED <<method, strategy, shared, avgLatency, failureCount, successCount, others, tries,
                     fnCalls, failures, before, after, wait>>
  BY DEF Start, CheckContext, Wake, Interrupted, ContextEnds
<1>2. ctxEnded' \in BOOLEAN
  BY DEF Start, CheckContext, Wake, Interrupted, ContextEnds, BackoffTypeOK
<1>3. \/ step' = step
      \/ step \in {"idle", "check", "sleep"} /\ step' \in {"check", "call", "done"}
  BY DEF Start, CheckContext, Wake, Interrupted, ContextEnds
<1>4. BackoffTypeOK'
  <2>1. /\ method' \in Retriers /\ strategy' \in StrategiesOf(method') /\ shared' \in BOOLEAN
        /\ avgLatency' \in 0 .. MaxDuration /\ failureCount' \in Nat /\ successCount' \in Nat
        /\ tries' \in 0 .. Tries /\ wait' \in -1 .. MaxDuration
    BY <1>1 DEF BackoffTypeOK
  <2>2. step' \in {"idle", "check", "call", "judge", "sleep", "done"}
    BY <1>3 DEF BackoffTypeOK
  <2> QED
    BY <1>2, <2>1, <2>2 DEF BackoffTypeOK
<1>5. CallsCounted'
  <2>1. UsedUp(tries)' <=> UsedUp(tries)
    BY <1>1 DEF UsedUp
  <2> QED
    BY <1>1, <1>3, <2>1 DEF CallsCounted
<1>6. HistoryOK' /\ BackoffInRange' /\ CallbacksMatch'
  BY <1>1 DEF HistoryOK, BackoffInRange, CallbacksMatch
<1> QED
  BY <1>4, <1>5, <1>6

(* What others record or reset in a shared strategy changes its average    *)
(* and its counts, never the retrier.                                      *)
LEMMA OthersKeep == BackoffInv /\ OthersRecord => BackoffInv'
<1> SUFFICES ASSUME BackoffInv, OthersRecord PROVE BackoffInv'
  OBVIOUS
<1> USE DEF BackoffInv
<1>1. UNCHANGED <<method, strategy, shared, step, tries, ctxEnded, fnCalls, failures, before, after, wait>>
  BY DEF OthersRecord
<1>2. avgLatency' \in 0 .. MaxDuration /\ failureCount' \in Nat /\ successCount' \in Nat
  <2>1. avgLatency \in 0 .. MaxDuration /\ failureCount \in Nat /\ successCount \in Nat
    BY DEF BackoffTypeOK
  <2> QED
    BY <2>1, RecordsKeepTypes DEF OthersRecord
<1>3. BackoffTypeOK'
  <2>1. /\ method' \in Retriers /\ strategy' \in StrategiesOf(method') /\ shared' \in BOOLEAN
        /\ tries' \in 0 .. Tries /\ ctxEnded' \in BOOLEAN /\ wait' \in -1 .. MaxDuration
        /\ step' \in {"idle", "check", "call", "judge", "sleep", "done"}
    BY <1>1 DEF BackoffTypeOK
  <2> QED
    BY <1>2, <2>1 DEF BackoffTypeOK
<1>4. CallsCounted'
  BY <1>1 DEF CallsCounted, UsedUp
<1>5. HistoryOK' /\ BackoffInRange' /\ CallbacksMatch'
  BY <1>1 DEF HistoryOK, BackoffInRange, CallbacksMatch
<1> QED
  BY <1>3, <1>4, <1>5

(* The retriers of backoff.go and RetryInterceptor call the function a     *)
(* bounded number of times, wait within the bounds of the strategy         *)
(* whatever an adaptive one has been told, and tell their listeners of     *)
(* every attempt, for all delays, factors, latencies and attempts.         *)
THEOREM BackoffBounds == BackoffSpec => []BackoffRight
<1>1. BackoffInv /\ [BackoffNext]_backoffVars => BackoffInv'
  <2> SUFFICES ASSUME BackoffInv, [BackoffNext]_backoffVars PROVE BackoffInv'
    OBVIOUS
  <2>1. CASE BackoffNext
    BY <2>1, CallsKeep, JudgeKeeps, MovesKeep, OthersKeep DEF BackoffNext, Loop
  <2>2. CASE UNCHANGED backoffVars
    BY <2>2 DEF backoffVars, BackoffInv, BackoffTypeOK, HistoryOK, CallsCounted, UsedUp, BackoffInRange,
        CallbacksMatch
  <2> QED
    BY <2>1, <2>2
<1>2. BackoffInv => BackoffRight
  <2> SUFFICES ASSUME BackoffInv PROVE FnCallsBounded
    BY DEF BackoffInv, BackoffRight
  <2>1. tries \in 0 .. Tries /\ Tries \in Nat
    BY BackoffConstants DEF BackoffInv, BackoffTypeOK
  <2> QED
    BY <2>1 DEF BackoffInv, CallsCounted, UsedUp, FnCallsBounded, AtLeast
<1> QED
  BY <1>1, <1>2, BackoffStarts, PTL DEF BackoffSpec

-----------------------------------------------------------------------------
(* The pickers that decide in one step *)

(* Connections in order *)

Ascending(s) == \A i, j \in DOMAIN s : i < j => s[i] < s[j]

(* A set of connections that is not empty has a last one.                  *)
LEMMA LastOne ==
    ASSUME NEW N \in Nat, NEW S, S \subseteq 1 .. N, S # {}
    PROVE  \E x \in S : \A y \in S : y <= x
<1> DEFINE T == {N - y : y \in S}
<1>1. T \subseteq Nat /\ T # {}
  <2>1. \A y \in S : y \in Int /\ 1 <= y /\ y <= N
    OBVIOUS
  <2>2. \A y \in S : N - y \in Nat
    BY <2>1
  <2> QED
    BY <2>2
<1>2. PICK t \in T : \A u \in T : t <= u
  <2> HIDE DEF T
  <2> QED
    BY <1>1, LeastElement
<1>3. PICK x \in S : t = N - x
  OBVIOUS
<1>4. ASSUME NEW y \in S PROVE y <= x
  <2>1. N - y \in T
    OBVIOUS
  <2>2. N - x <= N - y
    BY <1>2, <1>3, <2>1
  <2>3. x \in Int /\ y \in Int
    OBVIOUS
  <2> HIDE DEF T
  <2> QED
    BY <2>2, <2>3
<1> QED
  BY <1>4

(* Every set of connections has an order.                                  *)
LEMMA OrderExists ==
    ASSUME NEW N \in Nat, NEW S, S \subseteq 1 .. N
    PROVE  \E s \in [1 .. Cardinality(S) -> S] : Ascending(s)
<1> DEFINE Ordered(X) == \E s \in [1 .. Cardinality(X) -> X] : Ascending(s)
           B == {X \in SUBSET (1 .. N) : ~Ordered(X)}
<1> SUFFICES ASSUME S \in B PROVE FALSE
  OBVIOUS
<1>1. IsFiniteSet(1 .. N)
  BY FS_Interval
<1>2. PICK X \in B : \A Y \in B : Cardinality(X) <= Cardinality(Y)
  <2>1. B \subseteq SUBSET (1 .. N) /\ B # {}
    OBVIOUS
  <2> HIDE DEF B
  <2>2. PICK D : D = 1 .. N
    OBVIOUS
  <2>3. \E X \in B : \A Y \in B : Cardinality(X) <= Cardinality(Y)
    BY <1>1, <2>1, <2>2, SmallestSubset
  <2> QED
    BY <2>3
<1>3. X \subseteq 1 .. N /\ ~Ordered(X)
  OBVIOUS
<1>4. IsFiniteSet(X) /\ Cardinality(X) \in Nat
  BY <1>1, <1>3, FS_Subset, FS_CardinalityType
<1>5. CASE X = {}
  <2>1. Cardinality(X) = 0
    BY <1>5, FS_EmptySet
  <2>2. PICK e : e = [i \in 1 .. 0 |-> 1]
    OBVIOUS
  <2>3. e \in [1 .. Cardinality(X) -> X] /\ Ascending(e)
    BY <2>1, <2>2 DEF Ascending
  <2> QED
    BY <1>3, <2>3
<1>6. CASE X # {}
  <2>1. PICK x \in X : \A y \in X : y <= x
    BY <1>3, <1>6, LastOne
  <2>2. PICK Y : Y = X \ {x}
    OBVIOUS
  <2>3. PICK n : n = Cardinality(X)
    OBVIOUS
  <2>4. Cardinality(Y) = n - 1 /\ n \in Nat /\ Y \subseteq 1 .. N
    BY <1>3, <1>4, <2>2, <2>3, FS_RemoveElement
  <2>5. ~(Cardinality(X) <= Cardinality(Y))
    BY <2>3, <2>4
  <2>6. Y \notin B
    <3> HIDE DEF B
    <3> QED
      BY <1>2, <2>5
  <2>7. Ordered(Y)
    BY <2>4, <2>6
  <2>8. PICK s \in [1 .. n - 1 -> Y] : Ascending(s)
    BY <2>4, <2>7
  <2>9. PICK e : e = [i \in 1 .. n |-> IF i = n THEN x ELSE s[i]]
    OBVIOUS
  <2>10. e \in [1 .. n -> X]
    BY <2>2, <2>4, <2>8, <2>9
  <2>11. Ascending(e)
    <3> SUFFICES ASSUME NEW i \in 1 .. n, NEW j \in 1 .. n, i < j PROVE e[i] < e[j]
      BY <2>10 DEF Ascending
    <3>1. i \in 1 .. n - 1 /\ i # n /\ e[i] = s[i]
      BY <2>4, <2>9
    <3>2. s[i] \in X /\ s[i] # x
      BY <2>2, <3>1
    <3>3. CASE j = n
      <4>1. e[j] = x
        BY <2>9, <3>3
      <4>2. s[i] <= x
        BY <2>1, <3>2
      <4>3. \A y \in X : y \in Int
        BY <1>3
      <4>4. s[i] \in Int /\ x \in Int
        BY <3>2, <4>3
      <4>5. s[i] < x
        BY <3>2, <4>2, <4>4
      <4> QED
        BY <3>1, <4>1, <4>5
    <3>4. CASE j # n
      <4>1. j \in 1 .. n - 1 /\ e[j] = s[j]
        BY <2>4, <2>9, <3>4
      <4> QED
        BY <2>8, <3>1, <4>1 DEF Ascending
    <3> QED
      BY <3>3, <3>4
  <2> QED
    BY <1>3, <2>3, <2>10, <2>11
<1> QED
  BY <1>5, <1>6

(* InOrder names every connection of a set once, in order.                 *)
LEMMA InOrderOf ==
    ASSUME NEW S, S \subseteq Conns
    PROVE  /\ IsFiniteSet(S) /\ Cardinality(S) \in Nat
           /\ InOrder(S) \in [1 .. Cardinality(S) -> S] /\ Len(InOrder(S)) = Cardinality(S)
           /\ \A i, j \in 1 .. Cardinality(S) : i # j => InOrder(S)[i] # InOrder(S)[j]
           /\ \A c \in S : \E i \in 1 .. Cardinality(S) : InOrder(S)[i] = c
<1>1. PICK N : N = Cardinality(Conns)
  OBVIOUS
<1>2. N \in Nat /\ Conns = 1 .. N
  BY <1>1, FS_CardinalityType, PickersAssumption
<1>3. IsFiniteSet(S) /\ Cardinality(S) \in Nat
  BY FS_Subset, FS_CardinalityType, PickersAssumption
<1>4. PICK n \in Nat : n = Cardinality(S)
  BY <1>3
<1>5. \E s \in [1 .. n -> S] : Ascending(s)
  BY <1>2, <1>4, OrderExists
<1>6. PICK s : s = InOrder(S)
  OBVIOUS
<1>7. s \in [1 .. n -> S] /\ Ascending(s)
  BY <1>4, <1>5, <1>6 DEF InOrder, Ascending
<1>8. Len(s) = n
  BY <1>7
<1>9. ASSUME NEW i \in 1 .. n, NEW j \in 1 .. n, i # j PROVE s[i] # s[j]
  <2>0. \A y \in S : y \in Int
    BY <1>2
  <2>1. s[i] \in Int /\ s[j] \in Int
    BY <1>7, <2>0
  <2>2. i < j \/ j < i
    BY <1>9
  <2>3. s[i] < s[j] \/ s[j] < s[i]
    BY <1>7, <2>2 DEF Ascending
  <2> QED
    BY <2>1, <2>3
<1>10. s \in Injection(1 .. n, S)
  BY <1>7, <1>9 DEF Injection, IsInjective
<1>11. Cardinality(1 .. n) = n
  BY FS_Interval
<1>12. s \in Surjection(1 .. n, S)
  BY <1>3, <1>4, <1>10, <1>11, FS_Injection
<1>13. \A c \in S : \E i \in 1 .. n : s[i] = c
  BY <1>12 DEF Surjection
<1> QED
  BY <1>3, <1>4, <1>6, <1>7, <1>8, <1>9, <1>13

(* Shares of the random numbers *)

(* What only grows from step to step grows.                                *)
LEMMA StepsGrow ==
    ASSUME NEW m \in Nat, NEW w \in [0 .. m -> Nat], \A n \in 1 .. m : w[n - 1] <= w[n],
           NEW j \in 0 .. m, NEW k \in 0 .. m, j <= k
    PROVE  w[j] <= w[k]
<1> DEFINE B == {i \in 0 .. m : j <= i /\ ~(w[j] <= w[i])}
<1> SUFFICES ASSUME k \in B PROVE FALSE
  OBVIOUS
<1>1. PICK i \in B : \A y \in B : i <= y
  <2>1. B \subseteq Nat
    <3>1. B \subseteq 0 .. m /\ 0 .. m \subseteq Nat
      OBVIOUS
    <3> HIDE DEF B
    <3> QED
      BY <3>1
  <2> HIDE DEF B
  <2>2. B # {}
    OBVIOUS
  <2> QED
    BY <2>1, <2>2, LeastElement
<1>2. i \in 0 .. m /\ j <= i /\ ~(w[j] <= w[i])
  OBVIOUS
<1>3. w[j] \in Nat /\ w[i] \in Nat
  BY <1>2
<1>4. i # j
  BY <1>2, <1>3
<1>5. i \in 1 .. m /\ i - 1 \in 0 .. m /\ j <= i - 1 /\ ~(i <= i - 1)
  BY <1>2, <1>4
<1>6. i - 1 \notin B
  <2> HIDE DEF B
  <2> QED
    BY <1>1, <1>5
<1>7. w[j] <= w[i - 1] /\ w[i - 1] <= w[i] /\ w[i - 1] \in Nat
  BY <1>5, <1>6
<1> QED
  BY <1>2, <1>3, <1>7

(* The weights of a list of connections, summed up to each of them.        *)
LEMMA WeightsUpTo ==
    ASSUME weightOf \in [Conns -> Nat], NEW m \in Nat, NEW cs \in [1 .. m -> Conns]
    PROVE  /\ WeightUpTo(cs, 0) = 0
           /\ \A n \in 0 .. m : WeightUpTo(cs, n) \in Nat
           /\ \A n \in 1 .. m : WeightUpTo(cs, n) = WeightUpTo(cs, n - 1) + weightOf[cs[n]]
<1>1. PICK f : f = [k \in 1 .. m |-> weightOf[cs[k]]]
  OBVIOUS
<1>2. f \in [1 .. m -> Nat]
  BY <1>1
<1>3. ASSUME NEW n \in 0 .. m PROVE WeightUpTo(cs, n) = SumFunction([k \in 1 .. n |-> f[k]])
  <2>1. [k \in 1 .. n |-> weightOf[cs[k]]] = [k \in 1 .. n |-> f[k]]
    BY <1>1
  <2> QED
    BY <2>1 DEF WeightUpTo
<1>4. WeightUpTo(cs, 0) = 0
  <2>1. PICK D : D = 1 .. 0
    OBVIOUS
  <2>2. IsFiniteSet(D)
    BY <2>1, FS_Interval
  <2>3. [k \in D |-> f[k]] = [k \in D |-> 0]
    BY <2>1
  <2>4. SumFunction([k \in D |-> 0]) = 0
    BY <2>2, SumOfZeros
  <2>5. SumFunction([k \in D |-> f[k]]) = 0
    BY <2>3, <2>4
  <2>6. WeightUpTo(cs, 0) = SumFunction([k \in 1 .. 0 |-> f[k]])
    <3>1. 0 \in 0 .. m
      OBVIOUS
    <3> QED
      BY <1>3, <3>1
  <2> QED
    BY <2>1, <2>5, <2>6
<1>5. ASSUME NEW n \in 0 .. m PROVE WeightUpTo(cs, n) \in Nat
  <2>1. PICK D : D = 1 .. n
    OBVIOUS
  <2>2. PICK h : h = [k \in D |-> f[k]]
    OBVIOUS
  <2>3. IsFiniteSet(D) /\ h \in [D -> Nat]
    <3>1. IsFiniteSet(D)
      BY <2>1, FS_Interval
    <3>2. h \in [D -> Nat]
      BY <1>2, <2>1, <2>2
    <3> QED
      BY <3>1, <3>2
  <2>4. SumFunction(h) \in Nat
    BY <2>3, TermsWithinSum
  <2> QED
    BY <1>3, <2>1, <2>2, <2>4
<1>6. ASSUME NEW n \in 1 .. m PROVE WeightUpTo(cs, n) = WeightUpTo(cs, n - 1) + weightOf[cs[n]]
  <2>1. SumFunction([k \in 1 .. n |-> f[k]]) = SumFunction([k \in 1 .. n - 1 |-> f[k]]) + f[n]
    BY <1>2, PrefixSums
  <2>2. n \in 0 .. m /\ n - 1 \in 0 .. m /\ f[n] = weightOf[cs[n]]
    BY <1>1
  <2> QED
    BY <1>3, <2>1, <2>2
<1> QED
  BY <1>4, <1>5, <1>6

(* A random number leads to the connection in whose share it is.           *)
LEMMA TargetIs ==
    ASSUME weightOf \in [Conns -> Nat], NEW m \in Nat, NEW cs \in [1 .. m -> Conns], Len(cs) = m,
           NEW t \in Draws(cs)
    PROVE  \E h \in 1 .. m : /\ Target(cs, t) = cs[h]
                             /\ WeightUpTo(cs, h - 1) <= t /\ t < WeightUpTo(cs, h)
<1> DEFINE W(n) == WeightUpTo(cs, n)
           hit == {n \in DOMAIN cs : t < WeightUpTo(cs, n)}
<1>1. W(0) = 0 /\ \A n \in 0 .. m : W(n) \in Nat
  BY WeightsUpTo
<1>2. m \in 0 .. m /\ W(m) \in Nat
  BY <1>1
<1>3. t \in Nat /\ t < W(m)
  BY <1>2 DEF Draws
<1>4. m # 0
  BY <1>1, <1>3
<1>5. DOMAIN cs = 1 .. m
  OBVIOUS
<1>6. hit \subseteq 1 .. m /\ hit \subseteq Nat /\ m \in hit
  BY <1>3, <1>4, <1>5
<1>7. \E h \in hit : \A k \in hit : h <= k
  <2> HIDE DEF hit
  <2> QED
    BY <1>6, LeastElement
<1>8. PICK h : h = CHOOSE n \in hit : \A k \in hit : n <= k
  OBVIOUS
<1>9. h \in hit /\ \A k \in hit : h <= k
  <2> HIDE DEF hit
  <2> QED
    BY <1>7, <1>8
<1>10. Target(cs, t) = cs[h]
  <2>1. hit # {}
    BY <1>6
  <2> QED
    BY <1>8, <2>1 DEF Target
<1>11. h \in 1 .. m /\ t < W(h)
  BY <1>5, <1>9
<1>12. W(h - 1) <= t
  <2>1. h - 1 \in 0 .. m /\ W(h - 1) \in Nat
    BY <1>1, <1>11
  <2>2. CASE h = 1
    BY <1>1, <1>3, <2>2
  <2>3. CASE h # 1
    <3>1. h - 1 \in 1 .. m /\ ~(h <= h - 1)
      BY <1>11, <2>3
    <3>2. h - 1 \notin hit
      <4> HIDE DEF hit
      <4> QED
        BY <1>9, <3>1
    <3>3. ~(t < W(h - 1))
      BY <1>5, <3>1, <3>2
    <3> HIDE DEF W
    <3> QED
      BY <1>3, <2>1, <3>3
  <2> QED
    BY <2>2, <2>3
<1> QED
  BY <1>10, <1>11, <1>12

(* As many random numbers lead to a connection as its weight says.         *)
LEMMA DrawsByWeight ==
    ASSUME weightOf \in [Conns -> Nat], NEW m \in Nat, NEW cs \in [1 .. m -> Conns], Len(cs) = m,
           \A i, j \in 1 .. m : i # j => cs[i] # cs[j], NEW n \in 1 .. m
    PROVE  Cardinality({t \in Draws(cs) : Target(cs, t) = cs[n]}) = weightOf[cs[n]]
<1>1. PICK w : w = [k \in 0 .. m |-> WeightUpTo(cs, k)]
  OBVIOUS
<1>2. /\ w \in [0 .. m -> Nat] /\ w[0] = 0
      /\ \A k \in 1 .. m : k - 1 \in 0 .. m /\ w[k - 1] \in Nat /\ w[k] = w[k - 1] + weightOf[cs[k]]
  <2>1. /\ WeightUpTo(cs, 0) = 0
        /\ \A k \in 0 .. m : WeightUpTo(cs, k) \in Nat
        /\ \A k \in 1 .. m : WeightUpTo(cs, k) = WeightUpTo(cs, k - 1) + weightOf[cs[k]]
    BY WeightsUpTo
  <2>2. w \in [0 .. m -> Nat] /\ w[0] = 0
    BY <1>1, <2>1
  <2>3. ASSUME NEW k \in 1 .. m
        PROVE  k - 1 \in 0 .. m /\ w[k - 1] \in Nat /\ w[k] = w[k - 1] + weightOf[cs[k]]
    <3>1. k - 1 \in 0 .. m /\ k \in 0 .. m
      OBVIOUS
    <3>2. w[k - 1] = WeightUpTo(cs, k - 1) /\ w[k] = WeightUpTo(cs, k)
      BY <1>1, <3>1
    <3> QED
      BY <2>1, <2>2, <3>1, <3>2
  <2> QED
    BY <2>2, <2>3
<1>3. \A k \in 1 .. m : w[k - 1] <= w[k]
  <2> SUFFICES ASSUME NEW k \in 1 .. m PROVE w[k - 1] <= w[k]
    OBVIOUS
  <2>1. weightOf[cs[k]] \in Nat /\ w[k - 1] \in Nat /\ w[k] = w[k - 1] + weightOf[cs[k]]
    BY <1>2
  <2> QED
    BY <2>1
<1>4. \A j, k \in 0 .. m : j <= k => w[j] <= w[k]
  BY <1>2, <1>3, StepsGrow
<1>5. m \in 0 .. m /\ n \in 0 .. m /\ n - 1 \in 0 .. m /\ n <= m
  OBVIOUS
<1>6. Draws(cs) = 0 .. w[m] - 1
  BY <1>1, <1>5 DEF Draws
<1>7. w[m] \in Nat /\ w[n] \in Nat /\ w[n - 1] \in Nat /\ w[n] <= w[m]
  BY <1>2, <1>4, <1>5
<1>8. ASSUME NEW t \in Draws(cs) PROVE Target(cs, t) = cs[n] <=> w[n - 1] <= t /\ t < w[n]
  <2>1. PICK h \in 1 .. m : Target(cs, t) = cs[h] /\ WeightUpTo(cs, h - 1) <= t /\ t < WeightUpTo(cs, h)
    BY TargetIs
  <2>2. h \in 0 .. m /\ h - 1 \in 0 .. m
    OBVIOUS
  <2>3. w[h - 1] <= t /\ t < w[h] /\ w[h - 1] \in Nat /\ w[h] \in Nat /\ t \in Int
    BY <1>1, <1>2, <1>6, <2>1, <2>2
  <2>4. CASE h = n
    BY <2>1, <2>3, <2>4
  <2>5. CASE h < n
    <3>1. h <= n - 1 /\ h # n
      BY <2>5
    <3>2. w[h] <= w[n - 1] /\ cs[h] # cs[n]
      BY <1>4, <1>5, <2>2, <3>1
    <3>3. ~(w[n - 1] <= t)
      BY <1>7, <2>3, <3>2
    <3> QED
      BY <2>1, <3>2, <3>3
  <2>6. CASE n < h
    <3>1. n <= h - 1 /\ h # n
      BY <2>6
    <3>2. w[n] <= w[h - 1] /\ cs[h] # cs[n]
      BY <1>4, <1>5, <2>2, <3>1
    <3>3. ~(t < w[n])
      BY <1>7, <2>3, <3>2
    <3> QED
      BY <2>1, <3>2, <3>3
  <2> QED
    BY <2>4, <2>5, <2>6
<1>9. {t \in Draws(cs) : Target(cs, t) = cs[n]} = w[n - 1] .. w[n] - 1
  <2>1. PICK a \in Nat : a = w[n - 1]
    BY <1>7
  <2>2. PICK b \in Nat : b = w[n]
    BY <1>7
  <2>3. PICK e \in Nat : e = w[m]
    BY <1>7
  <2>4. {t \in Draws(cs) : Target(cs, t) = cs[n]} = {t \in 0 .. e - 1 : a <= t /\ t < b}
    BY <1>6, <1>8, <2>1, <2>2, <2>3
  <2>5. {t \in 0 .. e - 1 : a <= t /\ t < b} = a .. b - 1
    <3>1. b <= e
      BY <1>7, <2>2, <2>3
    <3>2. \A t \in Int : (0 <= t /\ t <= e - 1 /\ a <= t /\ t < b) <=> (a <= t /\ t <= b - 1)
      BY <3>1
    <3> QED
      BY <3>2
  <2> QED
    BY <2>1, <2>2, <2>4, <2>5
<1>10. w[n] = w[n - 1] + weightOf[cs[n]] /\ weightOf[cs[n]] \in Nat
  BY <1>2
<1>11. PICK a \in Int : a = w[n - 1]
  BY <1>7
<1>12. PICK b \in Int : b = w[n] - 1
  BY <1>7
<1>13. Cardinality(a .. b) = IF a > b THEN 0 ELSE b - a + 1
  BY FS_Interval
<1>14. b - a + 1 = weightOf[cs[n]]
  <2>1. PICK v \in Nat : v = weightOf[cs[n]]
    BY <1>10
  <2>2. PICK u \in Nat : u = w[n]
    BY <1>7
  <2>3. u = a + v /\ b = u - 1
    BY <1>10, <1>11, <1>12, <2>1, <2>2
  <2>4. b - a + 1 = v
    BY <2>3
  <2> QED
    BY <2>1, <2>4
<1>15. Cardinality(a .. b) = weightOf[cs[n]]
  BY <1>10, <1>13, <1>14
<1> QED
  BY <1>9, <1>11, <1>12, <1>15

(* The invariant *)

(* The connections a call for a group may get, and the ring before and     *)
(* after UpdateState.                                                      *)
Fitting(g) == {c \in Conns : Passes(g, c)}
RingBuilt == ring = Conns \/ ready = {}

(* Until it wraps, the index of round_robin is one less than its picks.    *)
IndexCounts ==
    (picker = "round_robin" /\ SumFunction(picks) < IndexLimit) => index = SumFunction(picks) - 1

(* The turns of round_robin: in lap q + 1 the candidates up to position r  *)
(* have had theirs.  After a pick at index i, r is i's remainder; or i is  *)
(* the first index after the wrap and the wrap ended a lap; or there is    *)
(* one candidate only.                                                     *)
NoTurns == index = FirstIndex /\ picks = [c \in Conns |-> 0]
Lap(cs, q, r) == \A k \in DOMAIN cs : picks[cs[k]] = IF k - 1 <= r THEN q + 1 ELSE q
LastTurn(i, n, r) ==
    n = 1 \/ (i >= 0 /\ r = i % n) \/ (i = -IndexLimit /\ r = 0 /\ IndexLimit % n = 0)

(* The position whose turn comes after that of r.                          *)
Follows(s, r, n) == s = IF r = n - 1 THEN 0 ELSE r + 1

(* The calls for a group, if any, have taken turns.                        *)
Turns(g) ==
    IF Fitting(g) = {} THEN NoTurns
    ELSE LET n == Len(Candidates(g))
         IN  \E q \in Nat, r \in 0 .. n - 1 :
                Lap(Candidates(g), q, r) /\ (lastPick.conn = Panics \/ LastTurn(index, n, r))

(* As long as all calls have chosen among the same connections, the laps   *)
(* account for every pick.                                                 *)
TurnsTaken ==
    (picker = "round_robin" /\ (~filtered \/ Cardinality(asked) <= 1)) =>
        (asked = {} => NoTurns) /\ \A g \in asked : Turns(g)

PickersInv ==
    /\ PickersTypeOK /\ IsFiniteSet(asked) /\ RingBuilt /\ PickFollowsFilter
    /\ IndexCounts /\ PanicsOnlyAtEdge /\ TurnsTaken

(* A list of the m elements of a set, once each.                           *)
Lists(cs, S, m) ==
    /\ cs \in [1 .. m -> S] /\ Len(cs) = m
    /\ cs = <<>> <=> m = 0
    /\ S = {} <=> m = 0
    /\ \A i, j \in 1 .. m : i # j => cs[i] # cs[j]
    /\ \A c \in S : \E i \in 1 .. m : cs[i] = c

(* What a picker chooses among: the connections that fit, once each.       *)
LEMMA CandidatesAre == ASSUME NEW g PROVE \E m \in Nat : Lists(Candidates(g), Fitting(g), m)
<1>1. PICK S : S = Fitting(g)
  OBVIOUS
<1>2. S \subseteq Conns
  BY <1>1 DEF Fitting
<1>3. PICK cs : cs = InOrder(S)
  OBVIOUS
<1>4. Candidates(g) = cs
  BY <1>1, <1>3 DEF Candidates, Fitting
<1>5. PICK m : m = Cardinality(S)
  OBVIOUS
<1>6. /\ IsFiniteSet(S) /\ m \in Nat /\ cs \in [1 .. m -> S] /\ Len(cs) = m
      /\ \A i, j \in 1 .. m : i # j => cs[i] # cs[j]
      /\ \A c \in S : \E i \in 1 .. m : cs[i] = c
  BY <1>2, <1>3, <1>5, InOrderOf
<1>7. S = {} <=> m = 0
  BY <1>5, <1>6, FS_EmptySet
<1>8. cs = <<>> <=> m = 0
  BY <1>6
<1> QED
  BY <1>1, <1>4, <1>6, <1>7, <1>8 DEF Lists

LEMMA PickersConstants ==
    /\ Conns # {} /\ IsFiniteSet(Conns) /\ Conns \subseteq Nat \ {0}
    /\ NoConn \notin Conns /\ Panics \notin Conns /\ NilConn \notin Conns
    /\ NoConn # Panics /\ NoConn # NilConn /\ Panics # NilConn
    /\ IndexLimit \in Nat /\ IndexLimit > 0 /\ Weights # {} /\ Weights \subseteq Nat
    /\ Times \subseteq Nat /\ Hashes \subseteq Nat
<1>1. Cardinality(Conns) \in Nat
  BY FS_CardinalityType, PickersAssumption
<1>2. Conns \subseteq Nat \ {0}
  BY <1>1, PickersAssumption
<1>3. NoConn \notin Conns /\ Panics \notin Conns /\ NilConn \notin Conns
  BY <1>2 DEF NoConn, Panics, NilConn
<1> QED
  BY <1>2, <1>3, PickersAssumption DEF NoConn, Panics, NilConn

LEMMA PickersStart == PickersInit => PickersInv
<1> SUFFICES ASSUME PickersInit PROVE PickersInv
  OBVIOUS
<1>1. PICK k \in PickerKinds, f \in BOOLEAN, g \in [Conns -> Groups] : \E w \in SomeWeights(k) : Build(k, f, g, w)
  BY DEF PickersInit
<1>2. PICK w \in SomeWeights(k) : Build(k, f, g, w)
  BY <1>1
<1>3. w \in [Conns -> Weights]
  <2>1. CASE k = "weight_random"
    BY <2>1 DEF SomeWeights
  <2>2. CASE k # "weight_random"
    BY <2>2, PickersConstants DEF SomeWeights
  <2> QED
    BY <2>1, <2>2
<1>4. /\ picker = k /\ filtered = f /\ groupOf = g /\ weightOf = w /\ index = -1
      /\ response = [c \in Conns |-> 100] /\ ring = Conns /\ ready = Conns
      /\ lastPick.conn = NoConn /\ asked = {} /\ picks = [c \in Conns |-> 0]
  BY <1>2 DEF Build, FirstIndex, DefaultResponse
<1>5. PickersTypeOK
  <2>1. index \in -IndexLimit .. IndexLimit - 1
    BY <1>4, PickersConstants
  <2>2. response \in [Conns -> Nat] /\ picks \in [Conns -> Nat]
    BY <1>4
  <2> QED
    BY <1>3, <1>4, <2>1, <2>2 DEF PickersTypeOK
<1>6. SumFunction(picks) = 0
  BY <1>4, SumOfZeros, PickersConstants
<1>7. IsFiniteSet(asked)
  BY <1>4, FS_EmptySet
<1>8. RingBuilt /\ PickFollowsFilter
  BY <1>4 DEF RingBuilt, PickFollowsFilter
<1>9. IndexCounts /\ PanicsOnlyAtEdge
  BY <1>4, <1>6, PickersConstants DEF IndexCounts, PanicsOnlyAtEdge
<1>10. TurnsTaken
  BY <1>4 DEF TurnsTaken, NoTurns, FirstIndex
<1> QED
  BY <1>5, <1>7, <1>8, <1>9, <1>10 DEF PickersInv

(* A pick of a connection that fits, or of none, keeps what does not       *)
(* depend on turns.                                                        *)
LEMMA PickedKeeps ==
    ASSUME PickersInv, NEW g \in Groups, NEW c \in Fitting(g) \cup {NoConn, Panics, NilConn}, Picked(g, c),
           index' \in -IndexLimit .. IndexLimit - 1,
           c = NoConn => \/ Fitting(g) = {}
                         \/ picker \in {"hash", "consistent"} /\ Fitting(g) # Conns
                         \/ picker = "consistent" /\ ready # Conns,
           c = Panics => \/ picker = "round_robin" /\ SumFunction(picks) >= IndexLimit
                         \/ picker = "weight_random" /\ \A d \in Fitting(g) : weightOf[d] = 0
    PROVE  /\ PickersTypeOK' /\ IsFiniteSet(asked)' /\ RingBuilt' /\ PickFollowsFilter' /\ PanicsOnlyAtEdge'
           /\ c \in Conns /\ picker = "round_robin" =>
                SumFunction(picks') = SumFunction(picks) + 1
<1>1. /\ picker' = picker /\ filtered' = filtered /\ groupOf' = groupOf /\ weightOf' = weightOf
      /\ response' = response /\ ring' = ring /\ ready' = ready
      /\ lastPick' = [group |-> g, conn |-> c] /\ asked' = asked \cup {g}
      /\ picks' = IF picker = "round_robin" /\ c \in Conns THEN [picks EXCEPT ![c] = @ + 1] ELSE picks
  BY DEF Picked
<1>2. /\ picker \in PickerKinds /\ filtered \in BOOLEAN
      /\ groupOf \in [Conns -> Groups] /\ weightOf \in [Conns -> Weights]
      /\ response \in [Conns -> Nat] /\ ring \subseteq Conns /\ ready \subseteq Conns
      /\ asked \subseteq Groups /\ picks \in [Conns -> Nat]
  BY DEF PickersInv, PickersTypeOK
<1>3. lastPick'.conn = c /\ lastPick'.group = g
  BY <1>1
<1>4. picks' \in [Conns -> Nat]
  BY <1>1, <1>2
<1>5. PickersTypeOK'
  <2>1. c \in Conns \cup {NoConn, Panics, NilConn}
    BY DEF Fitting
  <2> QED
    BY <1>1, <1>2, <1>3, <1>4, <2>1 DEF PickersTypeOK
<1>6. IsFiniteSet(asked')
  BY <1>1, FS_AddElement DEF PickersInv
<1>7. RingBuilt'
  BY <1>1 DEF PickersInv, RingBuilt
<1>8. {d \in Conns : ~filtered' \/ groupOf'[d] = lastPick'.group} = Fitting(g)
  BY <1>1, <1>3 DEF Fitting, Passes, Filter
<1>9. PickFollowsFilter'
  <2>1. c \in Conns => c \in Fitting(g)
    BY PickersConstants
  <2> QED
    BY <1>1, <1>3, <1>8, <2>1 DEF PickFollowsFilter
<1>10. c \in Conns /\ picker = "round_robin" => SumFunction(picks') = SumFunction(picks) + 1
  <2> SUFFICES ASSUME c \in Conns, picker = "round_robin" PROVE SumFunction(picks') = SumFunction(picks) + 1
    OBVIOUS
  <2>1. PICK p \in [Conns -> Int] : p = picks
    BY <1>2
  <2>2. PICK h \in [Conns -> Int] : h = picks'
    BY <1>4
  <2>3. PICK x \in Conns : x = c
    OBVIOUS
  <2>4. (\A d \in Conns : d # x => h[d] = p[d]) /\ h[x] = p[x] + 1 /\ p[x] \in Int
    BY <1>1, <1>2, <2>1, <2>2, <2>3
  <2>5. IsFiniteSet(Conns)
    BY PickersConstants
  <2>6. SumFunction(p) \in Int /\ SumFunction(h) = SumFunction(p) + h[x] - p[x]
    BY <2>4, <2>5, SumChanges
  <2> QED
    BY <2>1, <2>2, <2>4, <2>6
<1>11. PanicsOnlyAtEdge'
  <2> SUFFICES ASSUME c = Panics
               PROVE  \/ picker' = "round_robin" /\ SumFunction(picks') >= IndexLimit
                      \/ picker' = "weight_random"
                         /\ \A d \in Conns : Passes(g, d)' => weightOf'[d] = 0
    BY <1>3 DEF PanicsOnlyAtEdge, Passes, Filter
  <2>1. picks' = picks
    BY <1>1, PickersConstants
  <2> QED
    BY <1>1, <2>1 DEF Fitting, Passes, Filter
<1> QED
  BY <1>5, <1>6, <1>7, <1>9, <1>10, <1>11

LEMMA OtherPickKeeps ==
    ASSUME PickersInv, NEW g \in Groups, NEW c \in Fitting(g) \cup {NoConn, Panics, NilConn}, Picked(g, c),
           UNCHANGED index, picker # "round_robin",
           c = NoConn => \/ Fitting(g) = {}
                         \/ picker \in {"hash", "consistent"} /\ Fitting(g) # Conns
                         \/ picker = "consistent" /\ ready # Conns,
           c = Panics => picker = "weight_random" /\ \A d \in Fitting(g) : weightOf[d] = 0
    PROVE  PickersInv'
<1>1. index' \in -IndexLimit .. IndexLimit - 1
  BY DEF PickersInv, PickersTypeOK
<1>2. PickersTypeOK' /\ IsFiniteSet(asked)' /\ RingBuilt' /\ PickFollowsFilter' /\ PanicsOnlyAtEdge'
  BY <1>1, PickedKeeps
<1>3. picker' # "round_robin"
  BY DEF Picked
<1> QED
  BY <1>2, <1>3 DEF PickersInv, IndexCounts, TurnsTaken

(* Every element a picker takes of its candidates fits.                    *)
LEMMA CandidateFits ==
    ASSUME NEW g, Candidates(g) # <<>>
    PROVE  \E m \in Nat : /\ m > 0 /\ Len(Candidates(g)) = m /\ DOMAIN Candidates(g) = 1 .. m
                          /\ Candidates(g) \in [1 .. m -> Conns]
                          /\ \A k \in 1 .. m : Candidates(g)[k] \in Fitting(g)
                          /\ Range(Candidates(g)) \subseteq Fitting(g) /\ Range(Candidates(g)) # {}
<1>1. PICK m \in Nat : Lists(Candidates(g), Fitting(g), m)
  BY CandidatesAre
<1>2. PICK cs : cs = Candidates(g) /\ Lists(cs, Fitting(g), m)
  BY <1>1
<1>3. m > 0 /\ Len(cs) = m /\ DOMAIN cs = 1 .. m /\ \A k \in 1 .. m : cs[k] \in Fitting(g)
  BY <1>2 DEF Lists
<1>4. cs \in [1 .. m -> Conns]
  BY <1>2 DEF Lists, Fitting
<1>5. Range(cs) \subseteq Fitting(g) /\ Range(cs) # {}
  <2>1. 1 \in 1 .. m
    BY <1>3
  <2> QED
    BY <1>3, <2>1 DEF Range
<1> QED
  BY <1>2, <1>3, <1>4, <1>5

LEMMA NoneFit == ASSUME NEW g, Candidates(g) = <<>> PROVE Fitting(g) = {}
<1>1. PICK m \in Nat : Lists(Candidates(g), Fitting(g), m)
  BY CandidatesAre
<1> QED
  BY <1>1 DEF Lists

LEMMA PickNone ==
    ASSUME PickersInv, NEW g \in Groups, picker # "round_robin", Candidates(g) = <<>>, Picked(g, NoConn),
           UNCHANGED index
    PROVE  PickersInv'
<1>1. Fitting(g) = {} /\ NoConn # Panics
  BY NoneFit, PickersConstants
<1>2. PICK c \in Fitting(g) \cup {NoConn, Panics, NilConn} : c = NoConn
  OBVIOUS
<1> QED
  BY <1>1, <1>2, OtherPickKeeps

LEMMA PickOne ==
    ASSUME PickersInv, NEW g \in Groups, picker # "round_robin", NEW c \in Fitting(g), Picked(g, c),
           UNCHANGED index
    PROVE  PickersInv'
<1>1. c # NoConn /\ c # Panics
  BY PickersConstants DEF Fitting
<1>2. c \in Fitting(g) \cup {NoConn, Panics, NilConn}
  OBVIOUS
<1> QED
  BY <1>1, <1>2, OtherPickKeeps

LEMMA RandomKeeps == ASSUME PickersInv, NEW g \in Groups, PickRandom(g) PROVE PickersInv'
<1>1. picker # "round_robin" /\ UNCHANGED index
  BY DEF PickRandom
<1>2. CASE Candidates(g) = <<>>
  <2>1. Picked(g, NoConn)
    BY <1>2 DEF PickRandom
  <2> QED
    BY <1>1, <1>2, <2>1, PickNone
<1>3. CASE Candidates(g) # <<>>
  <2>1. PICK c \in Range(Candidates(g)) : Picked(g, c)
    BY <1>3 DEF PickRandom
  <2>2. c \in Fitting(g)
    BY <1>3, <2>1, CandidateFits
  <2> QED
    BY <1>1, <2>1, <2>2, PickOne
<1> QED
  BY <1>2, <1>3

LEMMA WeightedKeeps == ASSUME PickersInv, NEW g \in Groups, PickWeighted(g) PROVE PickersInv'
<1>1. picker = "weight_random" /\ UNCHANGED index
  BY DEF PickWeighted
<1>2. CASE Candidates(g) = <<>>
  <2>1. Picked(g, NoConn)
    BY <1>2 DEF PickWeighted
  <2> QED
    BY <1>1, <1>2, <2>1, PickNone
<1>3. CASE Candidates(g) # <<>>
  <2>1. PICK cs : cs = Candidates(g)
    OBVIOUS
  <2>2. PICK m \in Nat : /\ m > 0 /\ Len(cs) = m /\ DOMAIN cs = 1 .. m /\ cs \in [1 .. m -> Conns]
                         /\ \A k \in 1 .. m : cs[k] \in Fitting(g)
    BY <1>3, <2>1, CandidateFits
  <2>3. weightOf \in [Conns -> Nat]
    BY PickersConstants DEF PickersInv, PickersTypeOK
  <2>4. IF Draws(cs) = {} THEN Picked(g, Panics) ELSE \E tgt \in Draws(cs) : Picked(g, Target(cs, tgt))
    BY <1>3, <2>1 DEF PickWeighted
  <2>5. CASE Draws(cs) = {}
    <3>1. PICK f : f = [k \in 1 .. m |-> weightOf[cs[k]]]
      OBVIOUS
    <3>2. f \in [1 .. m -> Nat] /\ \A k \in 1 .. m : f[k] = weightOf[cs[k]]
      BY <2>2, <2>3, <3>1
    <3>3. PICK D : D = 1 .. m
      OBVIOUS
    <3>4. IsFiniteSet(D)
      BY <3>3, FS_Interval
    <3>5. SumFunction(f) \in Nat /\ \A k \in D : f[k] <= SumFunction(f)
      BY <3>2, <3>3, <3>4, TermsWithinSum
    <3>6. WeightUpTo(cs, m) = SumFunction(f)
      BY <3>1 DEF WeightUpTo
    <3>7. SumFunction(f) = 0
      <4>1. 0 .. SumFunction(f) - 1 = {}
        BY <2>2, <2>5, <3>6 DEF Draws
      <4>2. 0 \notin 0 .. SumFunction(f) - 1
        BY <4>1
      <4> QED
        BY <3>5, <4>2
    <3>8. \A k \in 1 .. m : weightOf[cs[k]] = 0
      <4> SUFFICES ASSUME NEW k \in 1 .. m PROVE weightOf[cs[k]] = 0
        OBVIOUS
      <4>1. f[k] \in Nat /\ f[k] <= 0
        BY <3>2, <3>3, <3>5, <3>7
      <4> QED
        BY <3>2, <4>1
    <3>9. \A d \in Fitting(g) : weightOf[d] = 0
      <4>1. \A d \in Fitting(g) : \E i \in 1 .. Len(cs) : cs[i] = d
        <5>1. PICK n \in Nat : Lists(cs, Fitting(g), n)
          BY <2>1, CandidatesAre
        <5> QED
          BY <5>1 DEF Lists
      <4> QED
        BY <2>2, <3>8, <4>1
    <3>10. Picked(g, Panics) /\ Panics # NoConn
      BY <2>4, <2>5, PickersConstants
    <3>11. PICK c \in Fitting(g) \cup {NoConn, Panics, NilConn} : c = Panics
      OBVIOUS
    <3> QED
      BY <1>1, <3>9, <3>10, <3>11, OtherPickKeeps
  <2>6. CASE Draws(cs) # {}
    <3>1. PICK tgt \in Draws(cs) : Picked(g, Target(cs, tgt))
      BY <2>4, <2>6
    <3>2. PICK h \in 1 .. m : Target(cs, tgt) = cs[h]
      BY <2>2, <2>3, <3>1, TargetIs
    <3>3. PICK c \in Fitting(g) : c = Target(cs, tgt)
      BY <2>2, <3>2
    <3> QED
      BY <1>1, <3>1, <3>3, PickOne
  <2> QED
    BY <2>5, <2>6
<1> QED
  BY <1>2, <1>3

(* The first of the fastest exists.                                        *)
LEMMA FastestExists ==
    ASSUME NEW m \in Nat, m > 0, NEW t \in [1 .. m -> Nat]
    PROVE  \E n \in 1 .. m : (\A k \in 1 .. m : t[n] <= t[k]) /\ (\A k \in 1 .. n - 1 : t[n] < t[k])
<1> DEFINE T == {t[k] : k \in 1 .. m}
<1>1. T \subseteq Nat /\ T # {}
  <2>1. 1 \in 1 .. m
    OBVIOUS
  <2> QED
    BY <2>1
<1>2. PICK v \in T : \A u \in T : v <= u
  <2> HIDE DEF T
  <2> QED
    BY <1>1, LeastElement
<1> DEFINE K == {k \in 1 .. m : t[k] = v}
<1>3. K \subseteq Nat
  <2>1. K \subseteq 1 .. m /\ 1 .. m \subseteq Nat
    OBVIOUS
  <2> HIDE DEF K
  <2> QED
    BY <2>1
<1>4. K # {}
  BY <1>2
<1>5. PICK n \in K : \A k \in K : n <= k
  <2> HIDE DEF K, T
  <2> QED
    BY <1>3, <1>4, LeastElement
<1>6. n \in 1 .. m /\ t[n] = v
  OBVIOUS
<1>7. \A k \in 1 .. m : t[n] <= t[k]
  BY <1>2, <1>6
<1>8. ASSUME NEW k \in 1 .. n - 1 PROVE t[n] < t[k]
  <2>1. k \in 1 .. m /\ ~(n <= k)
    BY <1>6
  <2>2. k \notin K
    <3> HIDE DEF K
    <3> QED
      BY <1>5, <2>1
  <2>3. t[k] # v
    BY <2>1, <2>2
  <2>4. t[n] <= t[k] /\ t[n] \in Nat /\ t[k] \in Nat
    BY <1>6, <1>7, <2>1
  <2> QED
    BY <1>6, <2>3, <2>4
<1> QED
  BY <1>6, <1>7, <1>8

LEMMA FastestKeeps == ASSUME PickersInv, NEW g \in Groups, PickFastest(g) PROVE PickersInv'
<1>1. picker # "round_robin" /\ UNCHANGED index
  BY DEF PickFastest
<1>2. CASE Candidates(g) = <<>>
  <2>1. Picked(g, NoConn)
    BY <1>2 DEF PickFastest
  <2> QED
    BY <1>1, <1>2, <2>1, PickNone
<1>3. CASE Candidates(g) # <<>>
  <2>1. PICK cs : cs = Candidates(g)
    OBVIOUS
  <2>2. PICK m \in Nat : /\ m > 0 /\ Len(cs) = m /\ DOMAIN cs = 1 .. m /\ cs \in [1 .. m -> Conns]
                         /\ \A k \in 1 .. m : cs[k] \in Fitting(g)
    BY <1>3, <2>1, CandidateFits
  <2> DEFINE First(n) == /\ \A k \in DOMAIN cs : response[cs[n]] <= response[cs[k]]
                         /\ \A k \in 1 .. n - 1 : response[cs[n]] < response[cs[k]]
  <2>3. Picked(g, cs[CHOOSE n \in DOMAIN cs : First(n)])
    BY <1>3, <2>1 DEF PickFastest
  <2>4. response \in [Conns -> Nat]
    BY DEF PickersInv, PickersTypeOK
  <2>5. PICK t : t = [k \in 1 .. m |-> response[cs[k]]]
    OBVIOUS
  <2>6. t \in [1 .. m -> Nat]
    BY <2>2, <2>4, <2>5
  <2>7. PICK n \in 1 .. m : (\A k \in 1 .. m : t[n] <= t[k]) /\ (\A k \in 1 .. n - 1 : t[n] < t[k])
    BY <2>2, <2>6, FastestExists
  <2>8. \A k \in 1 .. n - 1 : k \in 1 .. m
    OBVIOUS
  <2>9. First(n)
    BY <2>2, <2>5, <2>7, <2>8
  <2>10. PICK b : b = CHOOSE x \in DOMAIN cs : First(x)
    OBVIOUS
  <2>11. b \in DOMAIN cs
    <3> HIDE DEF First
    <3> QED
      BY <2>2, <2>9, <2>10
  <2>12. PICK c \in Fitting(g) : c = cs[b]
    BY <2>2, <2>11
  <2>13. Picked(g, c)
    BY <2>3, <2>10, <2>12
  <2> QED
    BY <1>1, <2>13, PickOne
<1> QED
  BY <1>2, <1>3

LEMMA RemainderBelow == ASSUME NEW h \in Nat, NEW n \in Nat, n > 0 PROVE h % n \in 0 .. n - 1
OBVIOUS

LEMMA AtMember ==
    ASSUME NEW S, S \subseteq Conns, S # {}, NEW h \in Nat
    PROVE  At(S, h) \in S
<1>1. PICK n : n = Cardinality(S)
  OBVIOUS
<1>2. IsFiniteSet(S) /\ n \in Nat /\ InOrder(S) \in [1 .. n -> S]
  BY <1>1, InOrderOf
<1>3. n > 0
  BY <1>1, <1>2, FS_EmptySet
<1>4. h % n \in 0 .. n - 1
  BY <1>2, <1>3, RemainderBelow
<1>5. (h % n) + 1 \in 1 .. n
  BY <1>2, <1>4
<1> QED
  BY <1>1, <1>2, <1>5 DEF At

(* A connection chosen before the filter is asked.                         *)
LEMMA LateFilter ==
    ASSUME NEW g, NEW c \in Conns
    PROVE  \/ IfPasses(g, c) = c /\ c \in Fitting(g)
           \/ IfPasses(g, c) = NoConn /\ Fitting(g) # Conns
BY DEF IfPasses, Fitting

LEMMA HashKeeps == ASSUME PickersInv, NEW g \in Groups, NEW h \in Hashes, PickHash(g, h) PROVE PickersInv'
<1>1. picker = "hash" /\ UNCHANGED index /\ Picked(g, IfPasses(g, At(Conns, h)))
  BY DEF PickHash
<1>2. PICK d \in Conns : d = At(Conns, h)
  <2>1. Conns \subseteq Conns /\ Conns # {} /\ h \in Nat
    BY PickersConstants
  <2> QED
    BY <2>1, AtMember
<1>3. CASE IfPasses(g, d) = d /\ d \in Fitting(g)
  BY <1>1, <1>2, <1>3, PickOne
<1>4. CASE IfPasses(g, d) = NoConn /\ Fitting(g) # Conns
  <2>1. PICK c \in Fitting(g) \cup {NoConn, Panics, NilConn} : c = NoConn
    OBVIOUS
  <2>2. c # Panics /\ Picked(g, c)
    BY <1>1, <1>2, <1>4, <2>1, PickersConstants
  <2> QED
    BY <1>1, <1>4, <2>1, <2>2, OtherPickKeeps
<1> QED
  BY <1>3, <1>4, LateFilter

LEMMA ConsistentKeeps ==
    ASSUME PickersInv, NEW g \in Groups, NEW h \in Hashes, PickConsistent(g, h) PROVE PickersInv'
<1> DEFINE c == IF ring = {} THEN NoConn ELSE IfPasses(g, At(ring, h))
           e == IF c \in Conns \ ready THEN NilConn ELSE c
<1>1. picker = "consistent" /\ UNCHANGED index /\ Picked(g, e)
  BY DEF PickConsistent
<1>2. ring \subseteq Conns /\ RingBuilt /\ Conns # {} /\ h \in Nat
  BY PickersConstants DEF PickersInv, PickersTypeOK
<1>3. /\ c \in Fitting(g) \cup {NoConn}
      /\ c = NoConn => Fitting(g) # Conns \/ ready # Conns
  <2>1. CASE ring = {}
    BY <1>2, <2>1 DEF RingBuilt
  <2>2. CASE ring # {}
    <3>1. PICK d \in Conns : d = At(ring, h)
      BY <1>2, <2>2, AtMember
    <3>2. c = IfPasses(g, d)
      BY <2>2, <3>1
    <3>3. d # NoConn
      BY PickersConstants
    <3> QED
      BY <3>2, <3>3, LateFilter
  <2> QED
    BY <2>1, <2>2
<1>4. PICK x : x = e
  OBVIOUS
<1>5. /\ x \in Fitting(g) \cup {NoConn, Panics, NilConn} /\ x # Panics
      /\ x = NoConn => Fitting(g) # Conns \/ ready # Conns
  <2> HIDE DEF c
  <2>1. Panics \notin Fitting(g)
    BY PickersConstants DEF Fitting
  <2> QED
    BY <1>3, <1>4, <2>1, PickersConstants
<1>6. Picked(g, x)
  BY <1>1, <1>4
<1> HIDE DEF c, e
<1> QED
  BY <1>1, <1>5, <1>6, OtherPickKeeps

LEMMA RefreshKeeps == ASSUME PickersInv, updateRespTime PROVE PickersInv'
<1>1. /\ UNCHANGED <<picker, filtered, groupOf, weightOf, index, ring, ready, lastPick, asked, picks>>
      /\ picker = "fastest"
  BY DEF updateRespTime
<1>2. response' \in [Conns -> Nat]
  <2>1. PICK known \in SUBSET Conns : \E t \in [known -> Times] :
          response' = [c \in Conns |-> IF c \in known THEN t[c] ELSE response[c]]
    BY DEF updateRespTime
  <2>2. PICK t \in [known -> Times] :
          response' = [c \in Conns |-> IF c \in known THEN t[c] ELSE response[c]]
    BY <2>1
  <2>3. response \in [Conns -> Nat] /\ \A c \in known : t[c] \in Nat
    BY PickersConstants DEF PickersInv, PickersTypeOK
  <2> QED
    BY <2>2, <2>3
<1>3. PickersTypeOK' /\ IsFiniteSet(asked')
  BY <1>1, <1>2 DEF PickersInv, PickersTypeOK
<1>4. RingBuilt' /\ PickFollowsFilter' /\ PanicsOnlyAtEdge'
  BY <1>1 DEF PickersInv, RingBuilt, PickFollowsFilter, PanicsOnlyAtEdge, Passes, Filter
<1> QED
  BY <1>1, <1>3, <1>4 DEF PickersInv, IndexCounts, TurnsTaken

LEMMA UpdateKeeps == ASSUME PickersInv, NEW addrs \in SUBSET Conns, UpdateState(addrs) PROVE PickersInv'
<1>1. /\ UNCHANGED <<picker, filtered, groupOf, weightOf, index, response, lastPick, asked, picks>>
      /\ picker = "consistent" /\ ring' = addrs /\ ready' = {}
  BY DEF UpdateState
<1>2. PickersTypeOK' /\ IsFiniteSet(asked') /\ RingBuilt'
  BY <1>1 DEF PickersInv, PickersTypeOK, RingBuilt
<1>3. PanicsOnlyAtEdge'
  BY <1>1 DEF PickersInv, PanicsOnlyAtEdge, Passes, Filter
<1>4. PickFollowsFilter'
  BY <1>1, PickersConstants DEF PickersInv, PickFollowsFilter
<1> QED
  BY <1>1, <1>2, <1>3, <1>4 DEF PickersInv, IndexCounts, TurnsTaken

(* The remainder of the next number.                                       *)
LEMMA NextRemainder ==
    ASSUME NEW a \in Nat, NEW n \in Nat, n > 0
    PROVE  /\ a % n \in 0 .. n - 1
           /\ (a + 1) % n = IF a % n = n - 1 THEN 0 ELSE (a % n) + 1
<1>1. a % n \in 0 .. n - 1 /\ (a + 1) % n \in 0 .. n - 1
  OBVIOUS
<1>2. PICK d \in Int : a = n * d + (a % n)
  <2>1. a \div n \in Int
    OBVIOUS
  <2>2. a = n * (a \div n) + (a % n)
    OBVIOUS
  <2> QED
    BY <2>1, <2>2
<1>3. PICK e \in Int : a + 1 = n * e + ((a + 1) % n)
  <2>1. (a + 1) \div n \in Int
    OBVIOUS
  <2>2. a + 1 = n * ((a + 1) \div n) + ((a + 1) % n)
    OBVIOUS
  <2> QED
    BY <2>1, <2>2
<1>4. PICK r \in Int : r = a % n
  BY <1>1
<1>5. PICK s \in Int : s = (a + 1) % n
  BY <1>1
<1>6. n * e + s = n * d + r + 1 /\ 0 <= r /\ r < n /\ 0 <= s /\ s < n
  BY <1>1, <1>2, <1>3, <1>4, <1>5
<1>7. CASE e <= d - 1
  <2>1. n * e <= n * (d - 1)
    BY <1>7
  <2>2. n * (d - 1) = n * d - n
    OBVIOUS
  <2> QED
    BY <1>6, <2>1, <2>2
<1>8. CASE e >= d + 2
  <2>1. n * e >= n * (d + 2)
    BY <1>8
  <2>2. n * (d + 2) = n * d + 2 * n
    OBVIOUS
  <2> QED
    BY <1>6, <2>1, <2>2
<1>9. CASE e = d
  <2>1. s = r + 1
    BY <1>6, <1>9
  <2> QED
    BY <1>4, <1>5, <1>6, <2>1, <1>1
<1>10. CASE e = d + 1
  <2>1. n * e = n * d + n
    BY <1>10
  <2>2. s + n = r + 1
    BY <1>6, <2>1
  <2> QED
    BY <1>4, <1>5, <1>6, <2>2, <1>1
<1> QED
  BY <1>7, <1>8, <1>9, <1>10

(* The turn after one is the next connection's, or the first one's after   *)
(* the last; where the index has wrapped, a pick that does not panic is    *)
(* the first one's turn as well.                                           *)
LEMMA NextTurn ==
    ASSUME NEW n \in Nat, n > 0, NEW i \in -IndexLimit .. IndexLimit - 1, NEW r \in 0 .. n - 1, LastTurn(i, n, r),
           NextIndex(i) >= 0 \/ (-NextIndex(i)) % n = 0
    PROVE  \E s \in 0 .. n - 1 : /\ Follows(s, r, n)
                                 /\ NextIndex(i) >= 0 => NextIndex(i) % n = s
                                 /\ NextIndex(i) < 0 => s = 0
                                 /\ LastTurn(NextIndex(i), n, s)
<1>1. IndexLimit \in Nat /\ IndexLimit > 0 /\ i \in Int
  BY PickersConstants
<1>2. PICK x \in Int : x = NextIndex(i)
  BY <1>1 DEF NextIndex
<1>3. PICK s \in 0 .. n - 1 : s = IF r = n - 1 THEN 0 ELSE r + 1
  OBVIOUS
<1>4. Follows(s, r, n)
  BY <1>3 DEF Follows
<1>5. CASE n = 1
  <2>1. x >= 0 => x % n = s
    BY <1>3, <1>5, RemainderBelow
  <2>2. s = 0 /\ LastTurn(x, n, s)
    BY <1>3, <1>5 DEF LastTurn
  <2> QED
    BY <1>4, <1>2, <2>1, <2>2
<1>6. CASE i >= 0 /\ r = i % n
  <2>1. (i + 1) % n = s
    <3>1. PICK a \in Nat : a = i
      BY <1>6
    <3>2. (a + 1) % n = IF a % n = n - 1 THEN 0 ELSE (a % n) + 1
      BY NextRemainder
    <3> QED
      BY <1>3, <1>6, <3>1, <3>2
  <2>2. CASE i # IndexLimit - 1
    <3>1. x = i + 1 /\ x >= 0
      BY <1>1, <1>2, <1>6, <2>2 DEF NextIndex
    <3> QED
      BY <1>4, <1>2, <2>1, <3>1 DEF LastTurn
  <2>3. CASE i = IndexLimit - 1
    <3>1. x = -IndexLimit /\ x < 0 /\ -x = IndexLimit /\ i + 1 = IndexLimit
      BY <1>1, <1>2, <2>3 DEF NextIndex
    <3>2. IndexLimit % n = 0
      BY <1>1, <1>2, <3>1
    <3>3. s = 0
      BY <2>1, <3>1, <3>2
    <3> QED
      BY <1>4, <1>2, <3>1, <3>2, <3>3 DEF LastTurn
  <2> QED
    BY <2>2, <2>3
<1>7. CASE i = -IndexLimit /\ r = 0 /\ IndexLimit % n = 0 /\ n # 1
  <2>1. PICK a \in Nat : a = IndexLimit - 1
    BY <1>1
  <2>2. (a + 1) % n = 0
    BY <1>1, <1>7, <2>1
  <2>3. a % n = n - 1
    <3>1. a % n \in 0 .. n - 1 /\ (a + 1) % n = IF a % n = n - 1 THEN 0 ELSE (a % n) + 1
      BY NextRemainder
    <3> QED
      BY <2>2, <3>1
  <2>4. x = -a
    BY <1>1, <1>2, <1>7, <2>1 DEF NextIndex
  <2>5. a # 0
    <3> SUFFICES ASSUME a = 0 PROVE FALSE
      OBVIOUS
    <3>1. 0 % n = 0
      OBVIOUS
    <3> QED
      BY <1>7, <2>3, <3>1
  <2>6. x < 0 /\ -x = a
    BY <2>4, <2>5
  <2> QED
    BY <1>2, <1>7, <2>3, <2>6
<1> QED
  BY <1>5, <1>6, <1>7 DEF LastTurn

(* Turns follow from one another.                                          *)
LEMMA LapGoesOn ==
    ASSUME picks \in [Conns -> Nat], NEW n \in Nat, NEW cs \in [1 .. n -> Conns],
           \A i, j \in 1 .. n : i # j => cs[i] # cs[j],
           NEW q \in Nat, NEW r \in 0 .. n - 1, Lap(cs, q, r),
           NEW s \in 0 .. n - 1, Follows(s, r, n),
           picks' = [picks EXCEPT ![cs[s + 1]] = @ + 1]
    PROVE  \E p \in Nat : Lap(cs, p, s)'
<1>1. \A k \in 1 .. n : picks[cs[k]] = IF k - 1 <= r THEN q + 1 ELSE q
  BY DEF Lap
<1>2. s + 1 \in 1 .. n /\ DOMAIN cs = 1 .. n
  OBVIOUS
<1>3. \A k \in 1 .. n : picks'[cs[k]] = IF k = s + 1 THEN picks[cs[k]] + 1 ELSE picks[cs[k]]
  BY <1>2
<1>4. CASE r = n - 1
  <2>1. s = 0 /\ q + 1 \in Nat
    BY <1>4 DEF Follows
  <2>2. ASSUME NEW k \in 1 .. n PROVE picks'[cs[k]] = IF k - 1 <= s THEN (q + 1) + 1 ELSE q + 1
    <3>1. picks[cs[k]] = q + 1
      BY <1>1, <1>4
    <3> QED
      BY <1>3, <2>1, <3>1
  <2>3. Lap(cs, q + 1, s)'
    BY <1>2, <2>2 DEF Lap
  <2> QED
    BY <2>1, <2>3
<1>5. CASE r # n - 1
  <2>1. s = r + 1
    BY <1>5 DEF Follows
  <2>2. ASSUME NEW k \in 1 .. n PROVE picks'[cs[k]] = IF k - 1 <= s THEN q + 1 ELSE q
    <3>1. picks[cs[k]] = IF k - 1 <= r THEN q + 1 ELSE q
      BY <1>1
    <3>2. CASE k = s + 1
      BY <1>3, <2>1, <3>1, <3>2
    <3>3. CASE k # s + 1
      BY <1>3, <2>1, <3>1, <3>3
    <3> QED
      BY <3>2, <3>3
  <2>3. Lap(cs, q, s)'
    BY <1>2, <2>2 DEF Lap
  <2> QED
    BY <2>3
<1> QED
  BY <1>4, <1>5

LEMMA SameCandidates ==
    ASSUME NEW g, filtered' = filtered, groupOf' = groupOf
    PROVE  Fitting(g)' = Fitting(g) /\ Candidates(g)' = Candidates(g)
BY DEF Fitting, Candidates, Passes, Filter

(* With one group asked for, or without a filter, all calls so far chose   *)
(* among the same connections as this one.                                 *)
LEMMA OneGroup ==
    ASSUME IsFiniteSet(asked), NEW g, ~filtered \/ Cardinality(asked \cup {g}) <= 1
    PROVE  /\ ~filtered \/ Cardinality(asked) <= 1
           /\ \A f \in asked : Fitting(f) = Fitting(g) /\ Candidates(f) = Candidates(g)
<1>1. CASE ~filtered
  BY <1>1 DEF Fitting, Candidates, Passes
<1>2. CASE filtered
  <2>1. PICK A : A = asked \cup {g}
    OBVIOUS
  <2>2. IsFiniteSet(A) /\ Cardinality(A) \in Nat /\ Cardinality(A) <= 1 /\ A # {}
    BY <1>2, <2>1, FS_AddElement, FS_CardinalityType
  <2>3. Cardinality(A) = 1
    BY <2>2, FS_EmptySet
  <2>4. PICK x : A = {x}
    BY <2>2, <2>3, FS_Singleton
  <2>5. asked \subseteq {g}
    BY <2>1, <2>4
  <2>6. Cardinality(asked) <= 1
    <3>1. asked \in SUBSET A
      BY <2>1
    <3>2. Cardinality(asked) <= Cardinality(A)
      BY <2>2, <3>1, FS_Subset
    <3> QED
      BY <2>3, <3>2
  <2> QED
    BY <2>5, <2>6
<1> QED
  BY <1>1, <1>2

(* What the calls so far, if there were any, have left to the next one.    *)
LEMMA TurnsSoFar ==
    ASSUME PickersInv, picker = "round_robin", NEW g, ~filtered \/ Cardinality(asked \cup {g}) <= 1
    PROVE  NoTurns \/ (Fitting(g) # {} /\ Turns(g))
<1>1. /\ ~filtered \/ Cardinality(asked) <= 1
      /\ \A f \in asked : Fitting(f) = Fitting(g) /\ Candidates(f) = Candidates(g)
  BY OneGroup DEF PickersInv
<1>2. (asked = {} => NoTurns) /\ \A f \in asked : Turns(f)
  BY <1>1 DEF PickersInv, TurnsTaken
<1>3. CASE asked = {}
  BY <1>2, <1>3
<1>4. CASE asked # {}
  <2>1. PICK f \in asked : Turns(f)
    BY <1>2, <1>4
  <2>2. Turns(g)
    BY <1>1, <2>1 DEF Turns
  <2> QED
    BY <2>2 DEF Turns
<1> QED
  BY <1>3, <1>4

LEMMA TurnsNext ==
    ASSUME PickersInv, picker = "round_robin", NEW g, asked' = asked \cup {g}, UNCHANGED <<picker, filtered,
    groupOf>>,
           (~filtered \/ Cardinality(asked \cup {g}) <= 1) => Turns(g)'
    PROVE  TurnsTaken'
<1> SUFFICES ASSUME ~filtered \/ Cardinality(asked \cup {g}) <= 1
             PROVE  \A f \in asked \cup {g} : Turns(f)'
  BY DEF TurnsTaken
<1>1. \A f \in asked : Fitting(f) = Fitting(g) /\ Candidates(f) = Candidates(g)
  BY OneGroup DEF PickersInv
<1>2. Turns(g)'
  OBVIOUS
<1>3. ASSUME NEW f \in asked PROVE Turns(f)'
  <2>1. Fitting(f)' = Fitting(g)' /\ Candidates(f)' = Candidates(g)'
    BY <1>1, <1>3, SameCandidates
  <2> QED
    BY <1>2, <2>1 DEF Turns
<1> QED
  BY <1>2, <1>3

LEMMA RefusalKeeps ==
    ASSUME PickersInv, NEW g \in Groups, picker = "round_robin", Candidates(g) = <<>>, Picked(g, NoConn),
           UNCHANGED index
    PROVE  PickersInv'
<1>1. Fitting(g) = {} /\ NoConn # Panics /\ NoConn \notin Conns
  BY NoneFit, PickersConstants
<1>2. index' \in -IndexLimit .. IndexLimit - 1
  BY DEF PickersInv, PickersTypeOK
<1>3. PICK c \in Fitting(g) \cup {NoConn, Panics, NilConn} : c = NoConn
  OBVIOUS
<1>4. PickersTypeOK' /\ IsFiniteSet(asked)' /\ RingBuilt' /\ PickFollowsFilter' /\ PanicsOnlyAtEdge'
  BY <1>1, <1>2, <1>3, PickedKeeps
<1>5. picks' = picks /\ UNCHANGED <<picker, filtered, groupOf>> /\ asked' = asked \cup {g}
  BY <1>1 DEF Picked
<1>6. IndexCounts'
  BY <1>5 DEF PickersInv, IndexCounts
<1>7. (~filtered \/ Cardinality(asked \cup {g}) <= 1) => Turns(g)'
  <2> SUFFICES ASSUME ~filtered \/ Cardinality(asked \cup {g}) <= 1 PROVE Turns(g)'
    OBVIOUS
  <2>1. NoTurns
    BY <1>1, TurnsSoFar
  <2>2. NoTurns'
    BY <1>5, <2>1 DEF NoTurns
  <2>3. Fitting(g)' = {}
    BY <1>1, <1>5, SameCandidates
  <2> QED
    BY <2>2, <2>3 DEF Turns
<1>8. TurnsTaken'
  BY <1>5, <1>7, TurnsNext
<1> QED
  BY <1>4, <1>6, <1>8 DEF PickersInv

LEMMA TurnKeeps ==
    ASSUME PickersInv, NEW g \in Groups, picker = "round_robin", MayPick, Candidates(g) # <<>>,
           index' = NextIndex(index), Picked(g, AtIndex(Candidates(g), index'))
    PROVE  PickersInv'
<1>1. PICK cs : cs = Candidates(g)
  OBVIOUS
<1>2. PICK n \in Nat : /\ n > 0 /\ Len(cs) = n /\ DOMAIN cs = 1 .. n /\ cs \in [1 .. n -> Conns]
                       /\ \A k \in 1 .. n : cs[k] \in Fitting(g)
  BY <1>1, CandidateFits
<1>3. (\A i, j \in 1 .. n : i # j => cs[i] # cs[j]) /\ Fitting(g) # {}
  <2>1. \A i, j \in 1 .. Len(cs) : i # j => cs[i] # cs[j]
    <3>1. PICK m \in Nat : Lists(cs, Fitting(g), m)
      BY <1>1, CandidatesAre
    <3> QED
      BY <3>1 DEF Lists
  <2>2. 1 \in 1 .. n
    BY <1>2
  <2> QED
    BY <1>2, <2>1, <2>2
<1>4. IndexLimit \in Nat /\ IndexLimit > 0 /\ index \in -IndexLimit .. IndexLimit - 1 /\ picks \in [Conns -> Nat]
  BY PickersConstants DEF PickersInv, PickersTypeOK
<1>5. index' \in -IndexLimit .. IndexLimit - 1
  BY <1>4 DEF NextIndex
<1>6. SumFunction(picks) \in Nat
  <2>1. IsFiniteSet(Conns)
    BY PickersConstants
  <2> QED
    BY <1>4, <2>1, TermsWithinSum
<1>7. PICK c : c = AtIndex(cs, index')
  OBVIOUS
<1>8. Picked(g, c)
  BY <1>1, <1>7
<1>9. \/ index' >= 0 /\ c = cs[(index' % n) + 1] /\ (index' % n) + 1 \in 1 .. n
      \/ index' < 0 /\ (-index') % n = 0 /\ c = cs[1]
      \/ index' < 0 /\ (-index') % n # 0 /\ c = Panics
  <2>1. index' >= 0 => (index' % n) + 1 \in 1 .. n
    <3> SUFFICES ASSUME index' >= 0 PROVE (index' % n) + 1 \in 1 .. n
      OBVIOUS
    <3>1. PICK a \in Nat : a = index'
      BY <1>5
    <3>2. a % n \in 0 .. n - 1
      BY <1>2, RemainderBelow
    <3> QED
      BY <3>1, <3>2
  <2>2. index' \in Int
    BY <1>5
  <2> QED
    BY <1>2, <1>7, <2>1, <2>2 DEF AtIndex
<1>10. c \in Fitting(g) \/ (c = Panics /\ index' < 0)
  <2>1. 1 \in 1 .. n
    BY <1>2
  <2> QED
    BY <1>2, <1>9, <2>1
<1>11. Panics \notin Fitting(g) /\ NoConn \notin Fitting(g) /\ NoConn # Panics /\ Fitting(g) \subseteq Conns
  BY PickersConstants DEF Fitting
<1>12. SumFunction(picks) < IndexLimit => index = SumFunction(picks) - 1 /\ index' = SumFunction(picks)
  <2> SUFFICES ASSUME SumFunction(picks) < IndexLimit
               PROVE  index = SumFunction(picks) - 1 /\ index' = SumFunction(picks)
    OBVIOUS
  <2>1. index = SumFunction(picks) - 1
    BY DEF PickersInv, IndexCounts
  <2> QED
    BY <1>4, <1>6, <2>1 DEF NextIndex
<1>13. c = Panics => SumFunction(picks) >= IndexLimit
  BY <1>4, <1>6, <1>10, <1>11, <1>12
<1>14. c \in Fitting(g) \cup {NoConn, Panics, NilConn} /\ c # NoConn
  BY <1>10, <1>11
<1>15. /\ PickersTypeOK' /\ IsFiniteSet(asked)' /\ RingBuilt' /\ PickFollowsFilter' /\ PanicsOnlyAtEdge'
       /\ c \in Conns => SumFunction(picks') = SumFunction(picks) + 1
  BY <1>5, <1>8, <1>13, <1>14, PickedKeeps
<1>16. /\ UNCHANGED <<picker, filtered, groupOf>> /\ asked' = asked \cup {g} /\ lastPick'.conn = c
       /\ c \in Conns => picks' = [picks EXCEPT ![c] = @ + 1]
       /\ c \notin Conns => picks' = picks
  <2>1. lastPick' = [group |-> g, conn |-> c] /\ UNCHANGED <<picker, filtered, groupOf>> /\ asked' = asked \cup {g}
    BY <1>8 DEF Picked
  <2>2. picks' = IF picker = "round_robin" /\ c \in Conns THEN [picks EXCEPT ![c] = @ + 1] ELSE picks
    BY <1>8 DEF Picked
  <2> QED
    BY <2>1, <2>2
<1>17. IndexCounts'
  <2>1. CASE c \in Conns
    BY <1>4, <1>6, <1>12, <1>15, <1>16, <2>1 DEF IndexCounts
  <2>2. CASE c \notin Conns
    BY <1>4, <1>6, <1>10, <1>11, <1>13, <1>16, <2>2 DEF IndexCounts
  <2> QED
    BY <2>1, <2>2
<1>18. (~filtered \/ Cardinality(asked \cup {g}) <= 1) => Turns(g)'
  <2> SUFFICES ASSUME ~filtered \/ Cardinality(asked \cup {g}) <= 1 PROVE Turns(g)'
    OBVIOUS
  <2>1. Fitting(g)' # {} /\ Candidates(g)' = cs
    BY <1>1, <1>3, <1>16, SameCandidates
  <2>2. ASSUME NEW q \in Nat, NEW r \in 0 .. n - 1, Lap(cs, q, r)', c = Panics \/ LastTurn(index', n, r)
        PROVE  Turns(g)'
    <3>1. Lap(Candidates(g), q, r)'
      BY <2>1, <2>2 DEF Lap
    <3>2. (lastPick.conn = Panics \/ LastTurn(index, Len(Candidates(g)), r))' /\ Len(Candidates(g)') = n
      BY <1>2, <1>16, <2>1, <2>2 DEF LastTurn
    <3> QED
      BY <2>1, <3>1, <3>2 DEF Turns
  <2>3. CASE NoTurns
    <3>1. index = -1 /\ picks = [d \in Conns |-> 0]
      BY <2>3 DEF NoTurns, FirstIndex
    <3>2. index' = 0
      BY <1>4, <3>1 DEF NextIndex
    <3>3. 0 % n = 0 /\ 1 \in 1 .. n /\ 0 \in 0 .. n - 1
      BY <1>2
    <3>4. c = cs[1] /\ c \in Conns
      BY <1>2, <1>9, <3>2, <3>3
    <3>5. ASSUME NEW k \in 1 .. n PROVE picks'[cs[k]] = IF k - 1 <= 0 THEN 0 + 1 ELSE 0
      <4>1. cs[k] \in Conns /\ (k # 1 => cs[k] # cs[1])
        BY <1>2, <1>3, <3>3
      <4>2. picks'[cs[k]] = IF k = 1 THEN 1 ELSE 0
        BY <1>16, <3>1, <3>4, <4>1
      <4> QED
        BY <4>2
    <3>6. Lap(cs, 0, 0)'
      BY <1>2, <3>5 DEF Lap
    <3>7. LastTurn(index', n, 0)
      BY <3>2, <3>3 DEF LastTurn
    <3> QED
      BY <2>2, <3>3, <3>6, <3>7
  <2>4. CASE ~NoTurns
    <3>1. Turns(g)
      BY <2>4, TurnsSoFar
    <3>2. lastPick.conn # Panics
      BY DEF MayPick
    <3>3. PICK q \in Nat, r \in 0 .. n - 1 : Lap(cs, q, r) /\ LastTurn(index, n, r)
      BY <1>1, <1>2, <1>3, <3>1, <3>2 DEF Turns
    <3>4. CASE c \notin Conns
      <4>1. c = Panics /\ picks' = picks
        BY <1>10, <1>11, <1>16, <3>4
      <4>2. Lap(cs, q, r)'
        BY <3>3, <4>1 DEF Lap
      <4> QED
        BY <2>2, <4>1, <4>2
    <3>5. CASE c \in Conns
      <4>1. c # Panics
        BY <3>5, PickersConstants
      <4>2. index' >= 0 \/ (-index') % n = 0
        BY <1>9, <4>1
      <4>3. PICK s \in 0 .. n - 1 : /\ Follows(s, r, n)
                                    /\ index' >= 0 => index' % n = s
                                    /\ index' < 0 => s = 0
                                    /\ LastTurn(index', n, s)
        BY <1>2, <1>4, <3>3, <4>2, NextTurn
      <4>4. c = cs[s + 1]
        BY <1>9, <4>1, <4>3
      <4>5. picks' = [picks EXCEPT ![cs[s + 1]] = @ + 1]
        BY <1>16, <3>5, <4>4
      <4>6. PICK p \in Nat : Lap(cs, p, s)'
        BY <1>2, <1>3, <1>4, <3>3, <4>3, <4>5, LapGoesOn
      <4> QED
        BY <2>2, <4>3, <4>6
    <3> QED
      BY <3>4, <3>5
  <2> QED
    BY <2>3, <2>4
<1>19. TurnsTaken'
  BY <1>16, <1>18, TurnsNext
<1> QED
  BY <1>15, <1>17, <1>19 DEF PickersInv

LEMMA RoundRobinKeeps == ASSUME PickersInv, NEW g \in Groups, PickRoundRobin(g) PROVE PickersInv'
<1>1. CASE Candidates(g) = <<>>
  <2>1. Picked(g, NoConn) /\ UNCHANGED index /\ picker = "round_robin"
    BY <1>1 DEF PickRoundRobin
  <2> QED
    BY <1>1, <2>1, RefusalKeeps
<1>2. CASE Candidates(g) # <<>>
  <2>1. /\ index' = NextIndex(index) /\ Picked(g, AtIndex(Candidates(g), index'))
        /\ picker = "round_robin" /\ MayPick
    BY <1>2 DEF PickRoundRobin
  <2> QED
    BY <1>2, <2>1, TurnKeeps
<1> QED
  BY <1>1, <1>2

(* The turns taken are even.                                               *)
LEMMA EvenTurns == ASSUME PickersInv PROVE RoundRobinEven
<1> SUFFICES ASSUME picker = "round_robin", ~filtered \/ Cardinality(asked) = 1, NEW g \in asked,
                    NEW c \in Fitting(g), NEW d \in Fitting(g)
             PROVE  picks[c] <= picks[d] + 1
  BY DEF RoundRobinEven, Fitting
<1>1. Turns(g) /\ Fitting(g) # {}
  BY DEF PickersInv, TurnsTaken
<1>2. PICK cs : cs = Candidates(g)
  OBVIOUS
<1>3. PICK n \in Nat : Lists(cs, Fitting(g), n)
  BY <1>2, CandidatesAre
<1>4. PICK q \in Nat, r \in 0 .. n - 1 : Lap(cs, q, r)
  <2>1. Len(cs) = n
    BY <1>3 DEF Lists
  <2> QED
    BY <1>1, <1>2, <2>1 DEF Turns
<1>5. \A x \in Fitting(g) : picks[x] = q + 1 \/ picks[x] = q
  BY <1>3, <1>4 DEF Lists, Lap
<1>6. (picks[c] = q + 1 \/ picks[c] = q) /\ (picks[d] = q + 1 \/ picks[d] = q)
  BY <1>5
<1> QED
  BY <1>6

(* The shares of the random numbers are the weights.                       *)
LEMMA SharesRight == ASSUME PickersInv PROVE WeightShares
<1> SUFFICES ASSUME NEW g \in Groups, NEW c \in Range(Candidates(g))
             PROVE  Cardinality({t \in Draws(Candidates(g)) : Target(Candidates(g), t) = c}) = weightOf[c]
  BY DEF WeightShares
<1>1. PICK cs : cs = Candidates(g)
  OBVIOUS
<1>2. PICK m \in Nat : Lists(cs, Fitting(g), m)
  BY <1>1, CandidatesAre
<1>3. cs \in [1 .. m -> Conns] /\ Len(cs) = m /\ \A i, j \in 1 .. m : i # j => cs[i] # cs[j]
  BY <1>2 DEF Lists, Fitting
<1>4. PICK n \in 1 .. m : c = cs[n]
  BY <1>1, <1>3 DEF Range
<1>5. weightOf \in [Conns -> Nat]
  BY PickersConstants DEF PickersInv, PickersTypeOK
<1>6. Cardinality({t \in Draws(cs) : Target(cs, t) = cs[n]}) = weightOf[cs[n]]
  BY <1>3, <1>5, DrawsByWeight
<1> QED
  BY <1>1, <1>4, <1>6

(* Whatever the connections, their groups and weights, and in whatever     *)
(* order calls and updates come: picks pass the filter and calls are       *)
(* refused only for want of a connection, round_robin shares its calls     *)
(* evenly, the random numbers are shared as the weights say, and a picker  *)
(* panics only where its index has wrapped or no weight is left.           *)
THEOREM PicksAreRight == PickersSpec => []PicksRight
<1>1. PickersInit => PickersInv
  BY PickersStart
<1>2. PickersInv /\ [PickersNext]_pickerVars => PickersInv'
  <2> SUFFICES ASSUME PickersInv, [PickersNext]_pickerVars PROVE PickersInv'
    OBVIOUS
  <2>1. CASE UNCHANGED pickerVars
    <3>1. UNCHANGED <<picker, filtered, groupOf, weightOf, index, response, ring, ready, lastPick, asked, picks>>
      BY <2>1 DEF pickerVars
    <3>2. \A g : Fitting(g)' = Fitting(g) /\ Candidates(g)' = Candidates(g)
      BY <3>1, SameCandidates
    <3>3. PickersTypeOK' /\ IsFiniteSet(asked') /\ RingBuilt' /\ PickFollowsFilter'
      BY <3>1 DEF PickersInv, PickersTypeOK, RingBuilt, PickFollowsFilter
    <3>4. IndexCounts' /\ PanicsOnlyAtEdge'
      BY <3>1 DEF PickersInv, IndexCounts, PanicsOnlyAtEdge, Passes, Filter
    <3>5. TurnsTaken'
      <4>1. NoTurns' <=> NoTurns
        BY <3>1 DEF NoTurns
      <4>2. ASSUME NEW g, Turns(g) PROVE Turns(g)'
        <5>1. \A cs, q, r : Lap(cs, q, r)' <=> Lap(cs, q, r)
          BY <3>1 DEF Lap
        <5>2. \A n, r : LastTurn(index, n, r)' <=> LastTurn(index, n, r)
          BY <3>1 DEF LastTurn
        <5> QED
          BY <3>1, <3>2, <4>1, <4>2, <5>1, <5>2 DEF Turns
      <4> QED
        BY <3>1, <4>1, <4>2 DEF PickersInv, TurnsTaken
    <3> QED
      BY <3>3, <3>4, <3>5 DEF PickersInv
  <2>2. ASSUME NEW g \in Groups, PickRoundRobin(g) PROVE PickersInv'
    BY <2>2, RoundRobinKeeps
  <2>3. ASSUME NEW g \in Groups, PickRandom(g) PROVE PickersInv'
    BY <2>3, RandomKeeps
  <2>4. ASSUME NEW g \in Groups, PickWeighted(g) PROVE PickersInv'
    BY <2>4, WeightedKeeps
  <2>5. ASSUME NEW g \in Groups, PickFastest(g) PROVE PickersInv'
    BY <2>5, FastestKeeps
  <2>6. ASSUME NEW g \in Groups, NEW h \in Hashes, PickHash(g, h) PROVE PickersInv'
    BY <2>6, HashKeeps
  <2>7. ASSUME NEW g \in Groups, NEW h \in Hashes, PickConsistent(g, h) PROVE PickersInv'
    BY <2>7, ConsistentKeeps
  <2>8. CASE updateRespTime
    BY <2>8, RefreshKeeps
  <2>9. ASSUME NEW addrs \in SUBSET Conns, UpdateState(addrs) PROVE PickersInv'
    BY <2>9, UpdateKeeps
  <2> QED
    BY <2>1, <2>2, <2>3, <2>4, <2>5, <2>6, <2>7, <2>8, <2>9 DEF PickersNext
<1>3. PickersInv => PicksRight
  <2> SUFFICES ASSUME PickersInv PROVE PicksRight
    OBVIOUS
  <2>1. PickersTypeOK /\ PickFollowsFilter /\ PanicsOnlyAtEdge
    BY DEF PickersInv
  <2> QED
    BY <2>1, EvenTurns, SharesRight DEF PicksRight
<1> QED
  BY <1>1, <1>2, <1>3, PTL DEF PickersSpec

=============================================================================
