-------------------------- MODULE ComponentsProofs --------------------------
(***************************************************************************)
(* Proofs about MessagePool, Plugins, Compressor and BatchProcessor for    *)
(* any set of borrowers, objects, plugins, payloads and callers and any    *)
(* limits: the message pool accounts for its objects, a plugin left open   *)
(* is remembered until it is closed, what the compressor wrote is what the *)
(* reader reads, and the batch processor hands out every item once.        *)
(***************************************************************************)
EXTENDS MessagePool, Plugins, Compressor, BatchProcessor, FiniteSetTheorems, TLAPS

-----------------------------------------------------------------------------
(* The message pool.                                                       *)

Pc(b) == borrower[b].pc
Obj(b) == borrower[b].obj

(* An object in hand was made and is not idle, and no two borrowers have   *)
(* the same one: what Put adds to the pool nobody else can have.           *)
InHand(b) == Pc(b) # "free" => Obj(b) \in made /\ Obj(b) \notin idle
Apart == \A b, c \in Borrowers : (b # c /\ Pc(b) # "free" /\ Pc(c) # "free") => Obj(b) # Obj(c)
(* Get has counted the object of "using" and not yet that of "taken".      *)
CountOf(b) ==
    (useRefCount /\ Pc(b) # "free" /\ objects[Obj(b)] # Unknown) =>
        objects[Obj(b)] \in (IF Pc(b) = "taken" THEN {0, 1} ELSE {1, 2})
IdleCount == useRefCount => \A o \in idle : objects[o] \in {Unknown, 0}
PoolInv ==
    /\ MessagePoolTypeOK /\ Apart /\ IdleCount /\ IdleWithinMax
    /\ \A b \in Borrowers : InHand(b)
    /\ \A b \in Borrowers : CountOf(b)

(* The constants: finitely many objects, numbered from 1.                  *)
LEMMA PoolConstants ==
    /\ IsFiniteSet(Messages) /\ Messages = 1 .. Cardinality(Messages) /\ Cardinality(Messages) \in Nat
    /\ MaxPoolSize \in Nat /\ LastTick \in Nat /\ 0 \notin Messages
<1>1. /\ IsFiniteSet(Messages) /\ Messages = 1 .. Cardinality(Messages)
      /\ MaxPoolSize \in Nat /\ LastTick \in Nat
  BY MessagePoolAssumption
<1>2. Cardinality(Messages) \in Nat
  BY <1>1, FS_CardinalityType
<1>3. 0 \notin Messages
  BY <1>1, <1>2
<1> QED
  BY <1>1, <1>2, <1>3

(* A part of a set that is within a bound is within it.                    *)
LEMMA PartWithin ==
    ASSUME NEW A, NEW B, IsFiniteSet(A), B \subseteq A, NEW n \in Nat, Cardinality(A) <= n
    PROVE  Cardinality(B) <= n
<1>1. IsFiniteSet(B) /\ Cardinality(B) <= Cardinality(A)
  BY FS_Subset
<1>2. Cardinality(A) \in Nat /\ Cardinality(B) \in Nat
  BY <1>1, FS_CardinalityType
<1> QED
  BY <1>1, <1>2

(* One more element than a set below the bound is within it.               *)
LEMMA OneMoreWithin ==
    ASSUME NEW A, NEW B, IsFiniteSet(A), NEW x, B \subseteq A \cup {x},
           NEW n \in Nat, ~(Cardinality(A) >= n)
    PROVE  Cardinality(B) <= n
<1>1. IsFiniteSet(A \cup {x}) /\ Cardinality(A \cup {x}) <= Cardinality(A) + 1
  <2>1. CASE x \in A
    <3>1. A \cup {x} = A
      BY <2>1
    <3>2. Cardinality(A) \in Nat
      BY FS_CardinalityType
    <3> QED
      BY <3>1, <3>2
  <2>2. CASE x \notin A
    <3>1. IsFiniteSet(A \cup {x}) /\ Cardinality(A \cup {x}) = Cardinality(A) + 1
      BY <2>2, FS_AddElement
    <3>2. Cardinality(A) \in Nat
      BY FS_CardinalityType
    <3> QED
      BY <3>1, <3>2
  <2> QED
    BY <2>1, <2>2
<1>2. Cardinality(A) \in Nat /\ Cardinality(A \cup {x}) \in Nat
  BY <1>1, FS_CardinalityType
<1>3. Cardinality(A \cup {x}) <= n
  BY <1>1, <1>2
<1> QED
  BY <1>1, <1>3, PartWithin

(* Steps after which fewer of the objects in the map are idle keep within  *)
(* the bound.                                                              *)
LEMMA FewerIdle ==
    ASSUME PoolInv, MessagePoolTypeOK',
           \A o \in idle' : objects'[o] # Unknown => o \in idle /\ objects[o] # Unknown
    PROVE  IdleWithinMax'
<1>1. Cardinality(idle \cap Known) <= MaxPoolSize /\ IsFiniteSet(Messages) /\ MaxPoolSize \in Nat
  BY PoolConstants DEF PoolInv, IdleWithinMax
<1>2. idle \cap Known \subseteq Messages
  BY DEF Known
<1>3. IsFiniteSet(idle \cap Known)
  BY <1>1, <1>2, FS_Subset
<1>4. (idle \cap Known)' \subseteq idle \cap Known
  BY DEF Known
<1>5. Cardinality((idle \cap Known)') <= MaxPoolSize
  BY <1>1, <1>3, <1>4, PartWithin
<1> QED
  BY <1>5 DEF IdleWithinMax

(* The objects Put keeps idle when the map is not full are within it.      *)
LEMMA PutWithin ==
    ASSUME PoolInv, ~PoolFull, NEW x,
           \A o \in Messages : objects'[o] # Unknown => o = x \/ objects[o] # Unknown
    PROVE  IdleWithinMax'
<1>1. IsFiniteSet(Messages) /\ MaxPoolSize \in Nat /\ Known \subseteq Messages
  BY PoolConstants DEF Known
<1>2. IsFiniteSet(Known)
  BY <1>1, FS_Subset
<1>3. (idle \cap Known)' \subseteq Known \cup {x}
  BY DEF Known
<1>4. ~(Cardinality(Known) >= MaxPoolSize)
  BY DEF PoolFull
<1>5. Cardinality((idle \cap Known)') <= MaxPoolSize
  BY <1>1, <1>2, <1>3, <1>4, OneMoreWithin
<1> QED
  BY <1>5 DEF IdleWithinMax

(* Prewarming keeps one object fewer than MaxPoolSize.                     *)
LEMMA PoolInitInv == MessagePoolInit => PoolInv
<1> SUFFICES ASSUME NEW refs \in BOOLEAN, NEW n \in 0 .. Cardinality(Messages), NewMessagePool(refs, 1 .. n)
             PROVE  PoolInv
  BY DEF MessagePoolInit
<1> DEFINE warm == {o \in 1 .. n : Cardinality({p \in 1 .. n : p <= o}) < MaxPoolSize}
<1>1. n \in Nat /\ 1 .. n \subseteq Messages /\ warm \subseteq 1 .. n
  BY PoolConstants
<1>2. /\ useRefCount = refs /\ made = 1 .. n /\ idle = warm
      /\ objects = [o \in Messages |-> IF refs /\ o \in warm THEN 0
                                       ELSE IF ~refs /\ o \in 1 .. n THEN 1 ELSE Unknown]
      /\ lastUsed = [o \in Messages |-> 0]
      /\ borrower = [b \in Borrowers |-> [pc |-> "free", obj |-> Nothing]]
      /\ tick = 0 /\ poolState = "open"
  BY DEF NewMessagePool
<1>3. warm \subseteq 1 .. MaxPoolSize
  <2> SUFFICES ASSUME NEW o \in warm PROVE o \in 1 .. MaxPoolSize
    OBVIOUS
  <2>1. {p \in 1 .. n : p <= o} = 1 .. o /\ o \in Nat
    BY <1>1
  <2>2. Cardinality(1 .. o) = o
    BY <2>1, FS_Interval
  <2>3. Cardinality({p \in 1 .. n : p <= o}) < MaxPoolSize /\ o \in 1 .. n
    OBVIOUS
  <2>4. o < MaxPoolSize
    BY <2>1, <2>2, <2>3
  <2> QED
    BY <1>1, <2>3, <2>4, PoolConstants
<1> HIDE DEF warm
<1>4. MessagePoolTypeOK
  BY <1>1, <1>2, PoolConstants DEF MessagePoolTypeOK, Unknown, Nothing
<1>5. Apart /\ \A b \in Borrowers : InHand(b) /\ CountOf(b)
  BY <1>2 DEF Apart, InHand, CountOf, Pc
<1>6. IdleCount
  BY <1>1, <1>2 DEF IdleCount
<1>7. IdleWithinMax
  <2>1. IsFiniteSet(1 .. MaxPoolSize) /\ Cardinality(1 .. MaxPoolSize) = MaxPoolSize /\ MaxPoolSize \in Nat
    <3>1. MaxPoolSize \in Nat /\ 1 \in Int /\ MaxPoolSize \in Int
      BY PoolConstants
    <3>2. /\ IsFiniteSet(1 .. MaxPoolSize)
          /\ Cardinality(1 .. MaxPoolSize) = IF 1 > MaxPoolSize THEN 0 ELSE MaxPoolSize - 1 + 1
      BY <3>1, FS_Interval
    <3> QED
      BY <3>1, <3>2
  <2>2. idle \cap Known \subseteq 1 .. MaxPoolSize
    BY <1>2, <1>3
  <2>3. Cardinality(1 .. MaxPoolSize) <= MaxPoolSize
    BY <2>1
  <2> QED
    BY <2>1, <2>2, <2>3, PartWithin DEF IdleWithinMax
<1> QED
  BY <1>4, <1>5, <1>6, <1>7 DEF PoolInv

(* No step of a borrower, of the cleanup, of Close or of the garbage       *)
(* collector breaks it.                                                    *)
LEMMA PoolStepInv ==
    ASSUME PoolInv, [MessagePoolNext]_messagePoolVars
    PROVE  PoolInv'
<1>0. 0 \notin Messages /\ LastTick \in Nat
  BY PoolConstants
<1>1. ASSUME NEW b \in Borrowers, TakeIdle(b) PROVE PoolInv'
  <2>1. MessagePoolTypeOK'
    BY <1>0, <1>1 DEF PoolInv, MessagePoolTypeOK, TakeIdle, Unknown, Nothing
  <2>2. Apart'
    BY <1>1 DEF PoolInv, MessagePoolTypeOK, Apart, TakeIdle, Pc, Obj, InHand
  <2>3. IdleCount'
    BY <1>1 DEF PoolInv, MessagePoolTypeOK, IdleCount, TakeIdle, Unknown
  <2>4. IdleWithinMax'
    <3>1. \A o \in idle' : objects'[o] # Unknown => o \in idle /\ objects[o] # Unknown
      BY <1>1 DEF PoolInv, MessagePoolTypeOK, TakeIdle, Unknown
    <3> QED
      BY <2>1, <3>1, FewerIdle
  <2>5. ASSUME NEW c \in Borrowers PROVE InHand(c)'
    BY <1>1 DEF PoolInv, MessagePoolTypeOK, InHand, Apart, TakeIdle, Pc, Obj
  <2>6. ASSUME NEW c \in Borrowers PROVE CountOf(c)'
    BY <1>1 DEF PoolInv, MessagePoolTypeOK, CountOf, InHand, Apart, IdleCount, TakeIdle, Pc, Obj, Unknown
  <2> QED
    BY <2>1, <2>2, <2>3, <2>4, <2>5, <2>6 DEF PoolInv
<1>2. ASSUME NEW b \in Borrowers, MakeObject(b) PROVE PoolInv'
  <2>1. MessagePoolTypeOK'
    BY <1>0, <1>2 DEF PoolInv, MessagePoolTypeOK, MakeObject, Unknown, Nothing
  <2>2. Apart'
    BY <1>2 DEF PoolInv, MessagePoolTypeOK, Apart, MakeObject, Pc, Obj, InHand
  <2>3. IdleCount'
    BY <1>2 DEF PoolInv, MessagePoolTypeOK, IdleCount, MakeObject, Unknown
  <2>4. IdleWithinMax'
    <3>1. \A o \in idle' : objects'[o] # Unknown => o \in idle /\ objects[o] # Unknown
      BY <1>2 DEF PoolInv, MessagePoolTypeOK, MakeObject, Unknown
    <3> QED
      BY <2>1, <3>1, FewerIdle
  <2>5. ASSUME NEW c \in Borrowers PROVE InHand(c)'
    BY <1>2 DEF PoolInv, MessagePoolTypeOK, InHand, Apart, MakeObject, Pc, Obj
  <2>6. ASSUME NEW c \in Borrowers PROVE CountOf(c)'
    BY <1>2 DEF PoolInv, MessagePoolTypeOK, CountOf, InHand, Apart, IdleCount, MakeObject, Pc, Obj, Unknown
  <2> QED
    BY <2>1, <2>2, <2>3, <2>4, <2>5, <2>6 DEF PoolInv
<1>3. ASSUME NEW b \in Borrowers, GetObject(b) PROVE PoolInv'
  <2>1. MessagePoolTypeOK'
    BY <1>0, <1>3 DEF PoolInv, MessagePoolTypeOK, GetObject, Known, Unknown, Nothing, CountOf, InHand, Pc, Obj
  <2>2. Apart'
    BY <1>3 DEF PoolInv, MessagePoolTypeOK, Apart, GetObject, Pc, Obj
  <2>3. IdleCount'
    BY <1>3 DEF PoolInv, MessagePoolTypeOK, IdleCount, GetObject, Known, Unknown, CountOf, InHand, Pc, Obj
  <2>4. IdleWithinMax'
    <3>1. \A o \in idle' : objects'[o] # Unknown => o \in idle /\ objects[o] # Unknown
      BY <1>3 DEF PoolInv, MessagePoolTypeOK, GetObject, Known, Unknown
    <3> QED
      BY <2>1, <3>1, FewerIdle
  <2>5. ASSUME NEW c \in Borrowers PROVE InHand(c)'
    BY <1>3 DEF PoolInv, MessagePoolTypeOK, InHand, Apart, GetObject, Pc, Obj
  <2>6. ASSUME NEW c \in Borrowers PROVE CountOf(c)'
    BY <1>3 DEF PoolInv, MessagePoolTypeOK, CountOf, InHand, Apart, IdleCount, GetObject, Known, Pc, Obj, Unknown
  <2> QED
    BY <2>1, <2>2, <2>3, <2>4, <2>5, <2>6 DEF PoolInv
<1>4. ASSUME NEW b \in Borrowers, PutObject(b) PROVE PoolInv'
  <2>1. MessagePoolTypeOK'
    BY <1>0, <1>4 DEF PoolInv, MessagePoolTypeOK, PutObject, PutCounted, PutUncounted, Unreferenced, Known,
       Unknown, Nothing, CountOf, InHand, Pc, Obj
  <2>2. Apart'
    BY <1>4 DEF PoolInv, MessagePoolTypeOK, Apart, PutObject, Pc, Obj
  <2>3. IdleCount'
    BY <1>4 DEF PoolInv, MessagePoolTypeOK, IdleCount, PutObject, PutCounted, PutUncounted, Unreferenced, Known,
       Unknown, CountOf, InHand, Pc, Obj
  <2>4. IdleWithinMax'
    <3>1. Obj(b) \in Messages
      BY <1>4 DEF PoolInv, MessagePoolTypeOK, InHand, Pc, Obj, PutObject
    <3>2. CASE PoolFull
      <4>1. \A o \in idle' : objects'[o] # Unknown => o \in idle /\ objects[o] # Unknown
        BY <1>4, <3>1, <3>2 DEF PoolInv, MessagePoolTypeOK, PutObject, PutCounted, PutUncounted, Unreferenced,
           Known, Obj
      <4> QED
        BY <2>1, <4>1, FewerIdle
    <3>3. CASE ~PoolFull
      <4>1. \A o \in Messages : objects'[o] # Unknown => o = Obj(b) \/ objects[o] # Unknown
        BY <1>4, <3>1, <3>3 DEF PoolInv, MessagePoolTypeOK, PutObject, PutCounted, PutUncounted, Unreferenced,
           Known, Obj
      <4> QED
        BY <3>3, <4>1, PutWithin
    <3> QED
      BY <3>2, <3>3
  <2>5. ASSUME NEW c \in Borrowers PROVE InHand(c)'
    BY <1>4 DEF PoolInv, MessagePoolTypeOK, InHand, Apart, PutObject, PutCounted, PutUncounted, Unreferenced,
       Known, Pc, Obj
  <2>6. ASSUME NEW c \in Borrowers PROVE CountOf(c)'
    BY <1>4 DEF PoolInv, MessagePoolTypeOK, CountOf, InHand, Apart, IdleCount, PutObject, PutCounted, PutUncounted,
       Unreferenced, Known, Pc, Obj, Unknown
  <2> QED
    BY <2>1, <2>2, <2>3, <2>4, <2>5, <2>6 DEF PoolInv
<1>5. CASE CleanupPool
  <2>1. MessagePoolTypeOK'
    BY <1>0, <1>5 DEF PoolInv, MessagePoolTypeOK, CleanupPool, Forgettable, Unknown, Nothing
  <2>2. Apart'
    BY <1>5 DEF PoolInv, MessagePoolTypeOK, Apart, CleanupPool, Pc, Obj
  <2>3. IdleCount'
    BY <1>5 DEF PoolInv, MessagePoolTypeOK, IdleCount, CleanupPool, Forgettable, Unknown
  <2>4. IdleWithinMax'
    <3>1. \A o \in idle' : objects'[o] # Unknown => o \in idle /\ objects[o] # Unknown
      BY <1>5 DEF PoolInv, MessagePoolTypeOK, CleanupPool, Forgettable, Unknown
    <3> QED
      BY <2>1, <3>1, FewerIdle
  <2>5. ASSUME NEW c \in Borrowers PROVE InHand(c)'
    BY <1>5 DEF PoolInv, MessagePoolTypeOK, InHand, Apart, CleanupPool, Pc, Obj
  <2>6. ASSUME NEW c \in Borrowers PROVE CountOf(c)'
    BY <1>5 DEF PoolInv, MessagePoolTypeOK, CountOf, InHand, Apart, IdleCount, CleanupPool, Forgettable, Pc, Obj,
       Unknown
  <2> QED
    BY <2>1, <2>2, <2>3, <2>4, <2>5, <2>6 DEF PoolInv
<1>6. CASE StopLoop
  <2>1. MessagePoolTypeOK'
    BY <1>0, <1>6 DEF PoolInv, MessagePoolTypeOK, StopLoop, Unknown, Nothing
  <2>2. Apart'
    BY <1>6 DEF PoolInv, MessagePoolTypeOK, Apart, StopLoop, Pc, Obj
  <2>3. IdleCount'
    BY <1>6 DEF PoolInv, MessagePoolTypeOK, IdleCount, StopLoop, Unknown
  <2>4. IdleWithinMax'
    <3>1. \A o \in idle' : objects'[o] # Unknown => o \in idle /\ objects[o] # Unknown
      BY <1>6 DEF PoolInv, MessagePoolTypeOK, StopLoop, Unknown
    <3> QED
      BY <2>1, <3>1, FewerIdle
  <2>5. ASSUME NEW c \in Borrowers PROVE InHand(c)'
    BY <1>6 DEF PoolInv, MessagePoolTypeOK, InHand, Apart, StopLoop, Pc, Obj
  <2>6. ASSUME NEW c \in Borrowers PROVE CountOf(c)'
    BY <1>6 DEF PoolInv, MessagePoolTypeOK, CountOf, InHand, Apart, IdleCount, StopLoop, Pc, Obj, Unknown
  <2> QED
    BY <2>1, <2>2, <2>3, <2>4, <2>5, <2>6 DEF PoolInv
<1>7. CASE ClosePool
  <2>1. MessagePoolTypeOK'
    BY <1>0, <1>7 DEF PoolInv, MessagePoolTypeOK, ClosePool, Unknown, Nothing
  <2>2. Apart'
    BY <1>7 DEF PoolInv, MessagePoolTypeOK, Apart, ClosePool, Pc, Obj
  <2>3. IdleCount'
    BY <1>7 DEF PoolInv, MessagePoolTypeOK, IdleCount, ClosePool, Unknown
  <2>4. IdleWithinMax'
    <3>1. \A o \in idle' : objects'[o] # Unknown => o \in idle /\ objects[o] # Unknown
      BY <1>7 DEF PoolInv, MessagePoolTypeOK, ClosePool, Unknown
    <3> QED
      BY <2>1, <3>1, FewerIdle
  <2>5. ASSUME NEW c \in Borrowers PROVE InHand(c)'
    BY <1>7 DEF PoolInv, MessagePoolTypeOK, InHand, Apart, ClosePool, Pc, Obj
  <2>6. ASSUME NEW c \in Borrowers PROVE CountOf(c)'
    BY <1>7 DEF PoolInv, MessagePoolTypeOK, CountOf, InHand, Apart, IdleCount, ClosePool, Pc, Obj, Unknown
  <2> QED
    BY <2>1, <2>2, <2>3, <2>4, <2>5, <2>6 DEF PoolInv
<1>8. CASE Collect
  <2>1. MessagePoolTypeOK'
    BY <1>0, <1>8 DEF PoolInv, MessagePoolTypeOK, Collect, Unknown, Nothing
  <2>2. Apart'
    BY <1>8 DEF PoolInv, MessagePoolTypeOK, Apart, Collect, Pc, Obj
  <2>3. IdleCount'
    BY <1>8 DEF PoolInv, MessagePoolTypeOK, IdleCount, Collect, Unknown
  <2>4. IdleWithinMax'
    <3>1. \A o \in idle' : objects'[o] # Unknown => o \in idle /\ objects[o] # Unknown
      BY <1>8 DEF PoolInv, MessagePoolTypeOK, Collect, Unknown
    <3> QED
      BY <2>1, <3>1, FewerIdle
  <2>5. ASSUME NEW c \in Borrowers PROVE InHand(c)'
    BY <1>8 DEF PoolInv, MessagePoolTypeOK, InHand, Apart, Collect, Pc, Obj
  <2>6. ASSUME NEW c \in Borrowers PROVE CountOf(c)'
    BY <1>8 DEF PoolInv, MessagePoolTypeOK, CountOf, InHand, Apart, IdleCount, Collect, Pc, Obj, Unknown
  <2> QED
    BY <2>1, <2>2, <2>3, <2>4, <2>5, <2>6 DEF PoolInv
<1>9. CASE TickPasses
  <2>1. MessagePoolTypeOK'
    BY <1>0, <1>9 DEF PoolInv, MessagePoolTypeOK, TickPasses, Unknown, Nothing
  <2>2. Apart'
    BY <1>9 DEF PoolInv, MessagePoolTypeOK, Apart, TickPasses, Pc, Obj
  <2>3. IdleCount'
    BY <1>9 DEF PoolInv, MessagePoolTypeOK, IdleCount, TickPasses, Unknown
  <2>4. IdleWithinMax'
    <3>1. \A o \in idle' : objects'[o] # Unknown => o \in idle /\ objects[o] # Unknown
      BY <1>9 DEF PoolInv, MessagePoolTypeOK, TickPasses, Unknown
    <3> QED
      BY <2>1, <3>1, FewerIdle
  <2>5. ASSUME NEW c \in Borrowers PROVE InHand(c)'
    BY <1>9 DEF PoolInv, MessagePoolTypeOK, InHand, Apart, TickPasses, Pc, Obj
  <2>6. ASSUME NEW c \in Borrowers PROVE CountOf(c)'
    BY <1>9 DEF PoolInv, MessagePoolTypeOK, CountOf, InHand, Apart, IdleCount, TickPasses, Pc, Obj, Unknown
  <2> QED
    BY <2>1, <2>2, <2>3, <2>4, <2>5, <2>6 DEF PoolInv
<1>10. CASE UNCHANGED messagePoolVars
  BY <1>10 DEF messagePoolVars, PoolInv, MessagePoolTypeOK, Apart, IdleCount, IdleWithinMax, InHand, CountOf, Pc,
     Obj,
                Known
<1> QED
  BY <1>1, <1>2, <1>3, <1>4, <1>5, <1>6, <1>7, <1>8, <1>9, <1>10 DEF MessagePoolNext

(* For every number of objects and borrowers and every MaxPoolSize: no     *)
(* count falls below zero or above its users, an idle object counts none,  *)
(* one in use that the map knows at least one, and no more than            *)
(* MaxPoolSize known objects lie idle, although Get takes and counts in    *)
(* two steps (Get, Put, cleanup, Close).                                   *)
THEOREM PoolKeepsAccounts == MessagePoolSpec => []PoolAccounts
<1>1. PoolInv => PoolAccounts
  <2> SUFFICES ASSUME PoolInv PROVE ReferencesMatch
    BY DEF PoolInv, PoolAccounts
  <2> QED
    BY DEF PoolInv, IdleCount, CountOf, ReferencesMatch, Known, Pc, Obj
<1> QED
  BY <1>1, PoolInitInv, PoolStepInv, PTL DEF MessagePoolSpec

-----------------------------------------------------------------------------
(* The plugin manager.                                                     *)

(* A sequence of plugins, index by index.                                  *)
Places(p, order) == {i \in DOMAIN order : order[i] = p}

(* Occurrences are counted by finite sets of places.                       *)
LEMMA PlacesFinite ==
    ASSUME NEW S, NEW s \in Seq(S), NEW p
    PROVE  /\ IsFiniteSet(Places(p, s)) /\ Cardinality(Places(p, s)) \in Nat
           /\ Occurrences(p, s) = Cardinality(Places(p, s))
<1>1. DOMAIN s = 1 .. Len(s) /\ Len(s) \in Int /\ 1 \in Int
  OBVIOUS
<1>2. IsFiniteSet(1 .. Len(s))
  BY <1>1, FS_Interval
<1>3. Places(p, s) \subseteq 1 .. Len(s)
  BY <1>1 DEF Places
<1>4. IsFiniteSet(Places(p, s))
  BY <1>2, <1>3, FS_Subset
<1>5. Cardinality(Places(p, s)) \in Nat
  BY <1>4, FS_CardinalityType
<1>6. Occurrences(p, s) = Cardinality(Places(p, s))
  BY DEF Occurrences, Places
<1> QED
  BY <1>4, <1>5, <1>6

(* Close goes through initOrder backwards: it meets each plugin as often.  *)
LEMMA OccurrencesReverse ==
    ASSUME NEW S, NEW s \in Seq(S), NEW p
    PROVE  Occurrences(p, Reverse(s)) = Occurrences(p, s)
<1> DEFINE r == Reverse(s)
           f == [i \in Places(p, s) |-> Len(s) - i + 1]
<1>1. /\ DOMAIN s = 1 .. Len(s) /\ Len(s) \in Nat
      /\ DOMAIN r = 1 .. Len(s) /\ \A i \in 1 .. Len(s) : r[i] = s[Len(s) - i + 1]
  BY DEF Reverse
<1>2. f \in Bijection(Places(p, s), Places(p, r))
  <2>1. \A i \in Places(p, s) : f[i] \in Places(p, r)
    BY <1>1 DEF Places
  <2>2. \A i, j \in Places(p, s) : f[i] = f[j] => i = j
    BY <1>1 DEF Places
  <2>3. \A k \in Places(p, r) : Len(s) - k + 1 \in Places(p, s) /\ f[Len(s) - k + 1] = k
    BY <1>1 DEF Places
  <2>4. f \in [Places(p, s) -> Places(p, r)]
    BY <2>1
  <2> QED
    BY <2>2, <2>3, <2>4 DEF Bijection, Injection, Surjection, IsInjective
<1>3. ExistsBijection(Places(p, s), Places(p, r))
  BY <1>2 DEF ExistsBijection
<1>4. Cardinality(Places(p, r)) = Cardinality(Places(p, s))
  BY <1>3, PlacesFinite, FS_Bijection
<1> QED
  BY <1>4 DEF Occurrences, Places

(* Init appends to initOrder: the occurrences add up.                      *)
LEMMA OccurrencesConcat ==
    ASSUME NEW S, NEW s \in Seq(S), NEW t \in Seq(S), NEW p
    PROVE  Occurrences(p, s \o t) = Occurrences(p, s) + Occurrences(p, t)
<1> DEFINE u == s \o t
           late == {i \in Len(s) + 1 .. Len(s) + Len(t) : t[i - Len(s)] = p}
           f == [i \in Places(p, t) |-> Len(s) + i]
<1>1. /\ DOMAIN s = 1 .. Len(s) /\ Len(s) \in Nat /\ DOMAIN t = 1 .. Len(t) /\ Len(t) \in Nat
      /\ DOMAIN u = 1 .. Len(s) + Len(t)
      /\ \A i \in 1 .. Len(s) + Len(t) : u[i] = IF i <= Len(s) THEN s[i] ELSE t[i - Len(s)]
  OBVIOUS
<1>2. f \in Bijection(Places(p, t), late)
  <2>1. \A i \in Places(p, t) : f[i] \in late
    BY <1>1 DEF Places
  <2>2. \A i, j \in Places(p, t) : f[i] = f[j] => i = j
    BY <1>1 DEF Places
  <2>3. \A k \in late : k - Len(s) \in Places(p, t) /\ f[k - Len(s)] = k
    BY <1>1 DEF Places
  <2>4. f \in [Places(p, t) -> late]
    BY <2>1
  <2> QED
    BY <2>2, <2>3, <2>4 DEF Bijection, Injection, Surjection, IsInjective
<1>3. IsFiniteSet(late) /\ Cardinality(late) = Cardinality(Places(p, t))
  <2>1. ExistsBijection(Places(p, t), late)
    BY <1>2 DEF ExistsBijection
  <2>2. IsFiniteSet(Places(p, t))
    BY PlacesFinite
  <2> HIDE DEF late
  <2> QED
    BY <2>1, <2>2, FS_Bijection
<1>4. Places(p, u) = Places(p, s) \cup late /\ Places(p, s) \cap late = {}
  <2>1. ASSUME NEW i PROVE i \in Places(p, u) <=> i \in Places(p, s) \cup late
    BY <1>1 DEF Places
  <2>2. Places(p, s) \cap late = {}
    BY <1>1 DEF Places
  <2> QED
    BY <2>1, <2>2
<1> HIDE DEF late, u
<1>5. Cardinality(Places(p, u)) = Cardinality(Places(p, s)) + Cardinality(Places(p, t))
  <2>1. /\ IsFiniteSet(Places(p, s)) /\ Cardinality(Places(p, s)) \in Nat
        /\ Cardinality(Places(p, t)) \in Nat
    BY PlacesFinite
  <2>2. Cardinality(Places(p, s) \cup late)
            = Cardinality(Places(p, s)) + Cardinality(late) - Cardinality(Places(p, s) \cap late)
    BY <1>3, <2>1, FS_Union
  <2>3. Cardinality(Places(p, s) \cap late) = 0
    BY <1>4, FS_EmptySet
  <2> QED
    BY <1>3, <1>4, <2>1, <2>2, <2>3
<1> QED
  BY <1>5 DEF Occurrences, Places, u

(* A successful or interrupted Init adds each plugin it reached once.      *)
LEMMA OccurrencesOrder ==
    ASSUME NEW inited, IsFiniteSet(inited), NEW order \in SetToSeqs(inited), NEW p
    PROVE  order \in Seq(inited) /\ Occurrences(p, order) = IF p \in inited THEN 1 ELSE 0
<1> DEFINE n == Cardinality(inited)
<1>1. n \in Nat
  BY FS_CardinalityType
<1>2. /\ order \in [1 .. n -> inited]
      /\ \A i, j \in 1 .. n : i # j => order[i] # order[j]
  <2>1. order \in {f \in [1 .. n -> inited] : \A i, j \in 1 .. n : i # j => f[i] # f[j]}
    BY DEF SetToSeqs
  <2> QED
    BY <2>1
<1>3. order \in Surjection(1 .. n, inited)
  <2>1. order \in Injection(1 .. n, inited)
    BY <1>2 DEF Injection, IsInjective
  <2>2. Cardinality(1 .. n) = n
    BY <1>1, FS_Interval
  <2>3. Cardinality(1 .. n) = Cardinality(inited) <=> order \in Surjection(1 .. n, inited)
    BY <2>1, FS_Injection
  <2> QED
    BY <2>2, <2>3
<1>4. order \in Seq(inited)
  BY <1>1, <1>2
<1>5. CASE p \in inited
  <2>1. PICK i \in 1 .. n : order[i] = p
    BY <1>3, <1>5 DEF Surjection
  <2>2. Places(p, order) = {i}
    BY <1>2, <2>1 DEF Places
  <2> QED
    BY <1>4, <1>5, <2>2, FS_Singleton DEF Occurrences, Places
<1>6. CASE p \notin inited
  <2>1. Places(p, order) = {}
    BY <1>2, <1>6 DEF Places
  <2> QED
    BY <1>4, <1>6, <2>1, FS_EmptySet DEF Occurrences, Places
<1> QED
  BY <1>5, <1>6

(* A new manager has initialised nothing.                                  *)
LEMMA PluginsInitInv == NewManager => OpenWillBeClosed
<1> SUFFICES ASSUME NewManager PROVE OpenWillBeClosed
  OBVIOUS
<1>1. PluginsTypeOK
  <2>1. plugins = {} /\ initOrder = <<>> /\ <<>> \in Seq({})
    BY DEF NewManager
  <2> QED
    BY <2>1 DEF NewManager, PluginsTypeOK
<1>2. \A p : Occurrences(p, <<>>) = 0
  <2>1. \A p : {i \in DOMAIN <<>> : <<>>[i] = p} = {}
    OBVIOUS
  <2> QED
    BY <2>1, FS_EmptySet DEF Occurrences
<1>3. OpenIsRemembered
  BY <1>2 DEF NewManager, OpenIsRemembered
<1> QED
  BY <1>1, <1>3 DEF OpenWillBeClosed

(* No call of the manager, however far it gets, forgets an open plugin.    *)
LEMMA PluginsStepInv ==
    ASSUME OpenWillBeClosed, [PluginsNext]_pluginVars
    PROVE  OpenWillBeClosed'
<1>0. /\ plugins \subseteq PluginNames /\ initOrder \in Seq(plugins) /\ initComplete \in BOOLEAN
      /\ attached \subseteq plugins /\ inits \in [PluginNames -> Nat] /\ closes \in [PluginNames -> Nat]
      /\ \A p \in PluginNames : inits[p] - closes[p] = Occurrences(p, initOrder)
  BY DEF OpenWillBeClosed, PluginsTypeOK, OpenIsRemembered
<1>1. ASSUME NEW p \in PluginNames, RegisterPlugin(p) PROVE OpenWillBeClosed'
  <2>1. plugins' = plugins \cup {p} /\ initOrder' = initOrder
    BY <1>1 DEF RegisterPlugin
  <2>2. initOrder' \in Seq(plugins')
    BY <1>0, <2>1
  <2> QED
    BY <1>0, <1>1, <2>2 DEF RegisterPlugin, OpenWillBeClosed, PluginsTypeOK, OpenIsRemembered
<1>2. CASE InitPlugins
  <2>1. PICK inited \in SUBSET plugins :
            /\ \E order \in SetToSeqs(inited) : initOrder' = initOrder \o order
            /\ inits' = [p \in PluginNames |-> inits[p] + (IF p \in inited THEN 1 ELSE 0)]
            /\ initComplete' = (inited = plugins)
    BY <1>2 DEF InitPlugins
  <2>2. PICK order \in SetToSeqs(inited) : initOrder' = initOrder \o order
    BY <2>1
  <2>3. IsFiniteSet(inited)
    <3>1. IsFiniteSet(PluginNames) /\ inited \subseteq PluginNames
      BY <1>0, PluginsAssumption
    <3> QED
      BY <3>1, FS_Subset
  <2>4. order \in Seq(inited) /\ \A p : Occurrences(p, order) = IF p \in inited THEN 1 ELSE 0
    BY <2>3, OccurrencesOrder
  <2>5. order \in Seq(plugins)
    BY <2>4
  <2>6. \A p : Occurrences(p, initOrder') = Occurrences(p, initOrder) + Occurrences(p, order)
    BY <1>0, <2>2, <2>5, OccurrencesConcat
  <2>7. plugins' = plugins /\ attached' = attached /\ closes' = closes
    BY <1>2 DEF InitPlugins
  <2>8. PluginsTypeOK'
    <3>1. inits' \in [PluginNames -> Nat]
      BY <1>0, <2>1
    <3>2. initOrder' \in Seq(plugins) /\ initComplete' \in BOOLEAN
      BY <1>0, <2>1, <2>2, <2>5
    <3> QED
      BY <1>0, <2>7, <3>1, <3>2 DEF PluginsTypeOK
  <2>9. ASSUME NEW p \in PluginNames PROVE inits'[p] - closes'[p] = Occurrences(p, initOrder')
    <3>1. /\ inits'[p] = inits[p] + (IF p \in inited THEN 1 ELSE 0)
          /\ inits[p] \in Nat /\ closes[p] \in Nat /\ closes'[p] = closes[p]
          /\ Occurrences(p, initOrder') = Occurrences(p, initOrder) + (IF p \in inited THEN 1 ELSE 0)
          /\ inits[p] - closes[p] = Occurrences(p, initOrder)
      BY <1>0, <2>1, <2>4, <2>6, <2>7
    <3> QED
      BY <3>1
  <2> QED
    BY <2>8, <2>9 DEF OpenWillBeClosed, OpenIsRemembered
<1>3. CASE ClosePlugins
  <2>1. /\ closes' = [p \in PluginNames |-> closes[p] + ToClose(p)]
        /\ initComplete' = FALSE /\ initOrder' = <<>>
        /\ plugins' = plugins /\ attached' = attached /\ inits' = inits
    BY <1>3 DEF ClosePlugins, ResetOrder
  <2>2. \A p : ToClose(p) = Occurrences(p, initOrder) /\ ToClose(p) \in Nat
    <3>1. ASSUME NEW p PROVE ToClose(p) = Occurrences(p, initOrder)
      BY <1>0, OccurrencesReverse DEF ToClose
    <3>2. ASSUME NEW p PROVE Occurrences(p, initOrder) \in Nat
      BY <1>0, PlacesFinite
    <3> QED
      BY <3>1, <3>2
  <2>3. PluginsTypeOK'
    <3>1. closes' \in [PluginNames -> Nat]
      BY <1>0, <2>1, <2>2
    <3>2. initOrder' \in Seq(plugins')
      <4>1. <<>> \in Seq(plugins)
        OBVIOUS
      <4> QED
        BY <2>1, <4>1
    <3> QED
      BY <1>0, <2>1, <3>1, <3>2 DEF PluginsTypeOK
  <2>4. ASSUME NEW p \in PluginNames PROVE inits'[p] - closes'[p] = Occurrences(p, initOrder')
    <3>1. Occurrences(p, <<>>) = 0
      <4>1. {i \in DOMAIN <<>> : <<>>[i] = p} = {}
        OBVIOUS
      <4> QED
        BY <4>1, FS_EmptySet DEF Occurrences
    <3>2. /\ closes'[p] = closes[p] + ToClose(p) /\ inits'[p] = inits[p]
          /\ inits[p] \in Nat /\ closes[p] \in Nat /\ ToClose(p) \in Nat
          /\ inits[p] - closes[p] = ToClose(p)
      BY <1>0, <2>1, <2>2
    <3> QED
      BY <2>1, <3>1, <3>2
  <2> QED
    BY <2>3, <2>4 DEF OpenWillBeClosed, OpenIsRemembered
<1>4. CASE ApplyServerPlugins
  BY <1>0, <1>4 DEF ApplyServerPlugins, OpenWillBeClosed, PluginsTypeOK, OpenIsRemembered
<1>5. CASE UNCHANGED pluginVars
  BY <1>5 DEF pluginVars, OpenWillBeClosed, PluginsTypeOK, OpenIsRemembered
<1> QED
  BY <1>1, <1>2, <1>3, <1>4, <1>5 DEF PluginsNext

(* For every set of plugins and number of calls of Init: each opening of a *)
(* plugin that was not closed is in the order by which Close closes, those *)
(* of an Init that failed half-way too (plugin.go Init, Close).            *)
THEOREM PluginsRemembered == PluginsSpec => []OpenWillBeClosed
  BY PluginsInitInv, PluginsStepInv, PTL DEF PluginsSpec

-----------------------------------------------------------------------------
(* The adaptive compressor.                                                *)

(* A writer holds back everything below the threshold, or has written it   *)
(* all; closed, it has written what it held back with its size.            *)
WriterState ==
    /\ compressing => body = message /\ header = <<1, 0, 0, 0>> /\ threshold <= message
    /\ ~compressing => buffer = message /\ (buffer < threshold \/ buffer = 0)
    /\ (~compressing /\ ~closed) => body = 0 /\ header = <<>>
    /\ (~compressing /\ closed) => body = message /\ header = [Digits(message) EXCEPT ![1] = 0]
CompressorInv == CompressorTypeOK /\ WriterState

(* Quotient and remainder are unique.                                      *)
LEMMA Quotient ==
    ASSUME NEW m \in Nat \ {0}, NEW q \in Nat, NEW e \in Nat, e < m, NEW n \in Nat, n = m * q + e
    PROVE  n \div m = q /\ n % m = e
<1> DEFINE k == n \div m
           r == n % m
<1>1. k \in Nat /\ r \in Nat /\ r < m /\ n = m * k + r
  OBVIOUS
<1> HIDE DEF k, r
<1>2. k <= q
  <2>1. CASE k >= q + 1
    <3>1. PICK d \in Nat : k = q + 1 + d
      <4>1. k - q - 1 \in Nat /\ k = q + 1 + (k - q - 1)
        BY <1>1, <2>1
      <4> QED
        BY <4>1
    <3>2. m * k = m * q + m + m * d /\ m * d \in Nat /\ m * q \in Nat
      BY <3>1
    <3> QED
      BY <1>1, <3>2
  <2> QED
    BY <1>1, <2>1
<1>3. q <= k
  <2>1. CASE q >= k + 1
    <3>1. PICK d \in Nat : q = k + 1 + d
      <4>1. q - k - 1 \in Nat /\ q = k + 1 + (q - k - 1)
        BY <1>1, <2>1
      <4> QED
        BY <4>1
    <3>2. m * q = m * k + m + m * d /\ m * d \in Nat /\ m * k \in Nat
      BY <1>1, <3>1
    <3> QED
      BY <1>1, <3>2
  <2> QED
    BY <1>1, <2>1
<1>4. k = q
  BY <1>1, <1>2, <1>3
<1>5. r = e
  <2>1. m * k = m * q /\ m * q \in Nat
    BY <1>4
  <2> QED
    BY <1>1, <2>1
<1> QED
  BY <1>4, <1>5 DEF k, r

(* Three digits of a number below Base^3 give the number again.            *)
LEMMA DigitsValue ==
    ASSUME NEW n \in Nat, n < ThreeDigits,
           NEW b, b = (n \div TwoDigits) % Base, NEW c, c = (n \div Base) % Base, NEW d, d = n % Base
    PROVE  b * TwoDigits + c * Base + d = n
<1> DEFINE q == n \div Base
           r == n % Base
           s == q \div Base
           t == q % Base
<1>0. Base \in Nat \ {0} /\ Base > 1
  BY CompressorAssumption
<1>1. q \in Nat /\ r \in Nat /\ r < Base /\ n = Base * q + r
  BY <1>0
<1>2. s \in Nat /\ t \in Nat /\ t < Base /\ q = Base * s + t
  BY <1>0, <1>1
<1> HIDE DEF q, r, s, t
<1>3. TwoDigits \in Nat \ {0} /\ TwoDigits = Base * Base
  BY <1>0 DEF TwoDigits
<1>4. Base * t + r \in Nat /\ Base * t + r < TwoDigits
  <2>1. PICK x \in Nat : Base = t + 1 + x
    <3>1. Base - t - 1 \in Nat /\ Base = t + 1 + (Base - t - 1)
      BY <1>0, <1>2
    <3> QED
      BY <3>1
  <2>2. Base * Base = Base * t + Base + Base * x /\ Base * t \in Nat /\ Base * x \in Nat
    BY <1>0, <1>2, <2>1
  <2> QED
    BY <1>0, <1>1, <1>3, <2>2
<1>5. n = TwoDigits * s + (Base * t + r)
  <2>1. Base * q = Base * (Base * s) + Base * t /\ Base * (Base * s) = TwoDigits * s
    BY <1>0, <1>2, <1>3
  <2>2. Base * t \in Nat /\ TwoDigits * s \in Nat
    BY <1>0, <1>2, <1>3
  <2> QED
    BY <1>1, <2>1, <2>2
<1>6. n \div TwoDigits = s
  BY <1>2, <1>3, <1>4, <1>5, Quotient
<1>7. s < Base
  <2>1. CASE s >= Base
    <3>1. PICK x \in Nat : s = Base + x
      <4>1. s - Base \in Nat /\ s = Base + (s - Base)
        BY <1>0, <1>2, <2>1
      <4> QED
        BY <4>1
    <3>2. TwoDigits * s = TwoDigits * Base + TwoDigits * x /\ TwoDigits * x \in Nat /\ TwoDigits * Base \in Nat
      BY <1>0, <1>3, <3>1
    <3>3. ThreeDigits = TwoDigits * Base
      BY <1>0, <1>3 DEF ThreeDigits
    <3> QED
      BY <1>4, <1>5, <3>2, <3>3
  <2> QED
    BY <1>0, <1>2, <2>1
<1>8. s % Base = s
  BY <1>0, <1>2, <1>7
<1>9. s * TwoDigits + t * Base + r = n
  <2>1. s * TwoDigits = TwoDigits * s /\ t * Base = Base * t /\ TwoDigits * s \in Nat /\ Base * t \in Nat
    BY <1>0, <1>2, <1>3
  <2> QED
    BY <1>1, <1>5, <2>1
<1>10. (n \div TwoDigits) % Base = s
  BY <1>6, <1>8
<1>11. (n \div Base) % Base = t /\ n % Base = r
  BY DEF q, r, t
<1>12. b = s /\ c = t /\ d = r
  BY <1>10, <1>11
<1> QED
  BY <1>9, <1>12

(* The header of a message that was not compressed: its size, the first    *)
(* digit overwritten.                                                      *)
LEMMA SizeHeader ==
    ASSUME NEW n \in Nat
    PROVE  LET h == [Digits(n) EXCEPT ![1] = 0]
           IN  /\ h \in Seq(0 .. Base - 1) /\ Len(h) = 4 /\ h[1] = 0
               /\ n < ThreeDigits => Value(h) = n
<1> DEFINE a == n \div ThreeDigits
           b == (n \div TwoDigits) % Base
           c == (n \div Base) % Base
           d == n % Base
<1>0. Base \in Nat \ {0, 1} /\ TwoDigits \in Nat \ {0} /\ ThreeDigits \in Nat \ {0}
  BY CompressorAssumption DEF TwoDigits, ThreeDigits
<1>1. b \in 0 .. Base - 1 /\ c \in 0 .. Base - 1 /\ d \in 0 .. Base - 1 /\ 0 \in 0 .. Base - 1
  <2>1. n \div TwoDigits \in Nat /\ n \div Base \in Nat
    BY <1>0
  <2>2. \A m \in Nat : m % Base \in 0 .. Base - 1
    BY <1>0
  <2> QED
    BY <1>0, <2>1, <2>2
<1>2. Digits(n) = <<a, b, c, d>>
  BY DEF Digits
<1>3. n < ThreeDigits => b * TwoDigits + c * Base + d = n
  BY DigitsValue
<1> HIDE DEF a, b, c, d
<1>4. [Digits(n) EXCEPT ![1] = 0] = <<0, b, c, d>>
  BY <1>2
<1>5. Value(<<0, b, c, d>>) = b * TwoDigits + c * Base + d
  <2>1. Value(<<0, b, c, d>>) = 0 * ThreeDigits + b * TwoDigits + c * Base + d
    BY DEF Value
  <2>2. 0 * ThreeDigits = 0 /\ b * TwoDigits \in Nat /\ c * Base \in Nat /\ d \in Nat
    BY <1>0, <1>1
  <2> QED
    BY <2>1, <2>2
<1>6. <<0, b, c, d>> \in Seq(0 .. Base - 1)
  BY <1>1
<1> QED
  BY <1>3, <1>4, <1>5, <1>6

(* A new writer has written nothing.                                       *)
LEMMA CompressorInitInv == CompressorInit => CompressorInv
<1> SUFFICES ASSUME NEW t \in Thresholds, Compress(t) PROVE CompressorInv
  BY DEF CompressorInit
<1>1. CompressorTypeOK
  <2>1. <<>> \in Seq(0 .. Base - 1) /\ Len(<<>>) = 0
    OBVIOUS
  <2>2. buffer \in 0 .. MaxMessage /\ body \in 0 .. MaxMessage /\ message \in 0 .. MaxMessage
    BY CompressorAssumption DEF Compress
  <2> QED
    BY <2>1, <2>2 DEF Compress, CompressorTypeOK, Algorithms
<1>2. WriterState
  BY DEF Compress, WriterState
<1> QED
  BY <1>1, <1>2 DEF CompressorInv

(* No write, however it is cut, no Close and no change of the algorithm    *)
(* breaks it.                                                              *)
LEMMA CompressorStepInv ==
    ASSUME CompressorInv, [CompressorNext]_compressorVars
    PROVE  CompressorInv'
<1>0. /\ threshold \in Thresholds /\ threshold \in Nat /\ Base \in Nat \ {0, 1} /\ MaxMessage \in Nat
      /\ message \in 0 .. MaxMessage /\ buffer \in 0 .. MaxMessage /\ body \in 0 .. MaxMessage
  BY CompressorAssumption DEF CompressorInv, CompressorTypeOK
<1>1. ASSUME NEW n \in Writes, Write(n) PROVE CompressorInv'
  <2>1. n \in Nat /\ message + n <= MaxMessage /\ message' = message + n /\ ~closed /\ closed' = closed
        /\ threshold' = threshold /\ algorithm' = algorithm /\ setting' = setting
    BY <1>1, CompressorAssumption DEF Write
  <2>2. CASE compressing
    <3>1. body' = body + n /\ buffer' = buffer /\ header' = header /\ compressing' = compressing /\ body = message
      BY <1>1, <2>2 DEF Write, CompressorInv, WriterState
    <3>2. body' \in 0 .. MaxMessage /\ message' \in 0 .. MaxMessage /\ body' = message'
      BY <1>0, <2>1, <3>1
    <3>3. threshold <= message => threshold <= message'
      BY <1>0, <2>1
    <3>4. CompressorTypeOK'
      BY <2>1, <3>1, <3>2 DEF CompressorInv, CompressorTypeOK
    <3>5. WriterState'
      BY <2>1, <2>2, <3>1, <3>2, <3>3 DEF CompressorInv, WriterState
    <3> QED
      BY <3>4, <3>5 DEF CompressorInv
  <2>3. CASE ~compressing /\ Fits(n)
    <3>1. /\ buffer' = buffer + n /\ body' = body /\ header' = header /\ compressing' = compressing
          /\ buffer = message /\ buffer + n < threshold
      BY <1>1, <2>3 DEF Write, Fits, CompressorInv, WriterState
    <3>2. buffer' \in 0 .. MaxMessage /\ message' \in 0 .. MaxMessage /\ buffer' = message' /\ buffer' < threshold
      BY <1>0, <2>1, <3>1
    <3>4. CompressorTypeOK'
      BY <2>1, <3>1, <3>2 DEF CompressorInv, CompressorTypeOK
    <3>5. WriterState'
      BY <2>1, <2>3, <3>1, <3>2 DEF CompressorInv, WriterState
    <3> QED
      BY <3>4, <3>5 DEF CompressorInv
  <2>4. CASE ~compressing /\ ~Fits(n)
    <3>1. /\ body' = buffer + n /\ buffer' = buffer /\ header' = <<1, 0, 0, 0>> /\ compressing' = TRUE
          /\ buffer = message /\ ~(buffer + n < threshold)
      BY <1>1, <2>4 DEF Write, Fits, CompressorInv, WriterState
    <3>2. body' \in 0 .. MaxMessage /\ message' \in 0 .. MaxMessage /\ body' = message' /\ threshold <= message'
      BY <1>0, <2>1, <3>1
    <3>3. header' \in Seq(0 .. Base - 1) /\ Len(header') = 4
      <4>1. 0 \in 0 .. Base - 1 /\ 1 \in 0 .. Base - 1
        BY <1>0
      <4> QED
        BY <3>1, <4>1
    <3>4. CompressorTypeOK'
      BY <2>1, <3>1, <3>2, <3>3 DEF CompressorInv, CompressorTypeOK
    <3>5. WriterState'
      BY <2>1, <2>4, <3>1, <3>2 DEF CompressorInv, WriterState
    <3> QED
      BY <3>4, <3>5 DEF CompressorInv
  <2> QED
    BY <2>2, <2>3, <2>4
<1>2. CASE CloseWriter
  <2>1. CASE compressing
    BY <1>2, <2>1 DEF CloseWriter, CompressorInv, CompressorTypeOK, WriterState
  <2>2. CASE ~compressing
    <3>1. /\ header' = [Digits(buffer) EXCEPT ![1] = 0] /\ body' = buffer /\ closed' = TRUE
          /\ buffer = message /\ buffer' = buffer /\ message' = message /\ compressing' = compressing
          /\ threshold' = threshold /\ algorithm' = algorithm /\ setting' = setting
      BY <1>2, <2>2 DEF CloseWriter, CompressorInv, WriterState
    <3>2. header' \in Seq(0 .. Base - 1) /\ Len(header') = 4
      <4>1. buffer \in Nat
        BY <1>0
      <4> QED
        BY <3>1, <4>1, SizeHeader
    <3>3. CompressorTypeOK'
      BY <1>0, <3>1, <3>2 DEF CompressorInv, CompressorTypeOK
    <3>4. WriterState'
      BY <2>2, <3>1 DEF CompressorInv, WriterState
    <3> QED
      BY <3>3, <3>4 DEF CompressorInv
  <2> QED
    BY <2>1, <2>2
<1>3. ASSUME NEW a \in Algorithms, SetUnderlyingAlgorithm(a) PROVE CompressorInv'
  BY <1>3 DEF SetUnderlyingAlgorithm, CompressorInv, CompressorTypeOK, WriterState
<1>4. CASE UNCHANGED compressorVars
  BY <1>4 DEF compressorVars, CompressorInv, CompressorTypeOK, WriterState
<1> QED
  BY <1>1, <1>2, <1>3, <1>4 DEF CompressorNext

(* For every base, threshold and cut into writes: what a closed writer     *)
(* wrote is read back whole, as long as the threshold fits the three       *)
(* digits the header leaves for the size, and a message below the          *)
(* threshold survives a change of the algorithm (Write, Close,             *)
(* Decompress).                                                            *)
THEOREM WrittenRead == CompressorSpec => []WrittenIsRead
<1>1. CompressorInv => WrittenIsRead
  <2> SUFFICES ASSUME CompressorInv, closed, message \in Nat, threshold \in Nat, ThreeDigits \in Nat
               PROVE  /\ threshold <= ThreeDigits /\ setting = algorithm => Decompress = message
                      /\ message < threshold /\ message < ThreeDigits => Decompress = message
    <3>1. ThreeDigits \in Nat
      BY CompressorAssumption DEF ThreeDigits, TwoDigits
    <3>2. CompressorInv => message \in Nat /\ threshold \in Nat
      BY CompressorAssumption DEF CompressorInv, CompressorTypeOK
    <3> QED
      BY <3>1, <3>2 DEF CompressorInv, WrittenIsRead, RoundTrip, SmallSurvives
  <2>1. CASE compressing
    <3>1. body = message /\ header[1] = 1 /\ threshold <= message
      BY <2>1 DEF CompressorInv, WriterState
    <3>2. ~(message < threshold)
      BY <3>1
    <3> QED
      BY <3>1, <3>2 DEF Decompress
  <2>2. CASE ~compressing
    <3>1. /\ body = message /\ header = [Digits(message) EXCEPT ![1] = 0] /\ buffer = message
          /\ (message < threshold \/ message = 0)
      BY <2>2 DEF CompressorInv, WriterState
    <3>2. header[1] = 0 /\ (message < ThreeDigits => Value(header) = message)
      BY <3>1, SizeHeader
    <3>3. ThreeDigits > 0
      BY CompressorAssumption DEF ThreeDigits, TwoDigits
    <3>4. threshold <= ThreeDigits => message < ThreeDigits
      BY <3>1, <3>3
    <3>5. message < ThreeDigits => Decompress = message
      BY <3>1, <3>2 DEF Decompress, Lesser
    <3> QED
      BY <3>4, <3>5
  <2> QED
    BY <2>1, <2>2
<1> QED
  BY <1>1, CompressorInitInv, CompressorStepInv, PTL DEF CompressorSpec

-----------------------------------------------------------------------------
(* The batch processor: Process, the workers and Close. *)

(* Item i occurs at most once in q.                                        *)
Once(q, i) == \A m, n \in 1 .. Len(q) : q[m] = i /\ q[n] = i => m = n

(* The empty sequence.                                                     *)
LEMMA EmptyHasNone == \A i : ~Contains(<<>>, i) /\ Once(<<>>, i)
  BY DEF Contains, Once

(* Append adds what it is given.                                           *)
LEMMA AppendHas ==
    ASSUME NEW S, NEW q \in Seq(S), NEW x \in S, NEW i
    PROVE  /\ Contains(Append(q, x), i) <=> Contains(q, i) \/ i = x
           /\ Once(q, i) /\ (i = x => ~Contains(q, i)) => Once(Append(q, x), i)
<1>1. Len(Append(q, x)) = Len(q) + 1 /\ Len(q) \in Nat
  OBVIOUS
<1>2. \A k \in 1 .. Len(q) + 1 : Append(q, x)[k] = IF k = Len(q) + 1 THEN x ELSE q[k]
  OBVIOUS
<1>3. Contains(Append(q, x), i) <=> Contains(q, i) \/ i = x
  BY <1>1, <1>2 DEF Contains
<1>4. ASSUME Once(q, i), i = x => ~Contains(q, i) PROVE Once(Append(q, x), i)
  BY <1>1, <1>2, <1>4 DEF Contains, Once
<1> QED
  BY <1>3, <1>4

(* Head and Tail take a sequence apart.                                    *)
LEMMA TailHas ==
    ASSUME NEW S, NEW q \in Seq(S), q # <<>>, NEW i
    PROVE  /\ Head(q) \in S /\ Tail(q) \in Seq(S) /\ Len(Tail(q)) = Len(q) - 1
           /\ Contains(q, i) <=> Contains(Tail(q), i) \/ i = Head(q)
           /\ Once(q, i) => Once(Tail(q), i) /\ (i = Head(q) => ~Contains(Tail(q), i))
<1>1. Len(q) \in Nat \ {0} /\ Head(q) = q[1] /\ Head(q) \in S
  OBVIOUS
<1>2. Tail(q) \in Seq(S) /\ Len(Tail(q)) = Len(q) - 1 /\ \A k \in 1 .. Len(q) - 1 : Tail(q)[k] = q[k + 1]
  OBVIOUS
<1>3. ASSUME Contains(q, i), i # Head(q) PROVE Contains(Tail(q), i)
  <2>1. PICK k \in 1 .. Len(q) : q[k] = i
    BY <1>3 DEF Contains
  <2>2. k - 1 \in 1 .. Len(q) - 1 /\ Tail(q)[k - 1] = q[k]
    BY <1>1, <1>2, <1>3, <2>1
  <2> QED
    BY <1>2, <2>1, <2>2 DEF Contains
<1>4. ASSUME Contains(Tail(q), i) PROVE \E k \in 2 .. Len(q) : q[k] = i
  <2>1. PICK k \in 1 .. Len(q) - 1 : Tail(q)[k] = i
    BY <1>2, <1>4 DEF Contains
  <2>2. k + 1 \in 2 .. Len(q) /\ q[k + 1] = i
    BY <1>1, <1>2, <2>1
  <2> QED
    BY <2>2
<1>5. ASSUME Once(q, i) PROVE Once(Tail(q), i)
  BY <1>1, <1>2, <1>5 DEF Once
<1>6. ASSUME Once(q, i), i = Head(q) PROVE ~Contains(Tail(q), i)
  BY <1>1, <1>4, <1>6 DEF Once
<1>7. Contains(Tail(q), i) \/ i = Head(q) => Contains(q, i)
  BY <1>1, <1>4 DEF Contains
<1> QED
  BY <1>1, <1>2, <1>3, <1>5, <1>6, <1>7

(* And \o puts two together.                                               *)
LEMMA ConcatHas ==
    ASSUME NEW S, NEW p \in Seq(S), NEW q \in Seq(S), NEW i
    PROVE  /\ Contains(p \o q, i) <=> Contains(p, i) \/ Contains(q, i)
           /\ Once(p, i) /\ Once(q, i) /\ ~(Contains(p, i) /\ Contains(q, i)) => Once(p \o q, i)
<1>1. /\ Len(p) \in Nat /\ Len(q) \in Nat /\ Len(p \o q) = Len(p) + Len(q)
      /\ \A k \in 1 .. Len(p) + Len(q) : (p \o q)[k] = IF k <= Len(p) THEN p[k] ELSE q[k - Len(p)]
  OBVIOUS
<1>2. ASSUME NEW k \in 1 .. Len(q) PROVE Len(p) + k \in 1 .. Len(p \o q) /\ (p \o q)[Len(p) + k] = q[k]
  BY <1>1
<1>3. ASSUME NEW k \in 1 .. Len(p) PROVE k \in 1 .. Len(p \o q) /\ (p \o q)[k] = p[k]
  BY <1>1
<1>4. ASSUME NEW k \in 1 .. Len(p \o q)
      PROVE  \/ k \in 1 .. Len(p) /\ (p \o q)[k] = p[k]
             \/ k - Len(p) \in 1 .. Len(q) /\ (p \o q)[k] = q[k - Len(p)]
  BY <1>1
<1>5. Contains(p \o q, i) <=> Contains(p, i) \/ Contains(q, i)
  BY <1>2, <1>3, <1>4 DEF Contains
<1>6. ASSUME Once(p, i), Once(q, i), ~(Contains(p, i) /\ Contains(q, i)) PROVE Once(p \o q, i)
  <2> SUFFICES ASSUME NEW m \in 1 .. Len(p \o q), NEW n \in 1 .. Len(p \o q), (p \o q)[m] = i, (p \o q)[n] = i
               PROVE  m = n
    BY DEF Once
  <2>1. CASE m \in 1 .. Len(p) /\ p[m] = i
    BY <1>1, <1>4, <1>6, <2>1 DEF Once, Contains
  <2>2. CASE m - Len(p) \in 1 .. Len(q) /\ q[m - Len(p)] = i
    <3>1. n - Len(p) \in 1 .. Len(q) /\ q[n - Len(p)] = i
      BY <1>4, <1>6, <2>2 DEF Contains
    <3>2. m - Len(p) = n - Len(p)
      BY <1>6, <2>2, <3>1 DEF Once
    <3> QED
      BY <1>1, <3>2
  <2> QED
    BY <1>4, <2>1, <2>2
<1> QED
  BY <1>5, <1>6
Batching == {"batch", "send"}
Steps == {"select", "lock", "batch", "send", "gone"}
CallSteps == {"new", "sending", "queued"} \cup Returned
Taken == {"queued", "accepted", "answered"}

BatchType ==
    /\ WaitForBatch \in WaitOptions
    /\ reqChan \in Seq(Requests) /\ Len(reqChan) <= QueueSize
    /\ items \in Seq(Items) /\ processed \in Seq(Items)
    /\ held \in BOOLEAN /\ quit \in BOOLEAN /\ crashed \in BOOLEAN
    /\ timer \in {"off", "armed", "fired"} /\ toSend \in 0 .. BatchSize
    /\ call \in [Items -> CallSteps] /\ done \subseteq Items /\ answered \subseteq Items
    /\ worker \in [Workers -> Steps] /\ req \in [Workers -> Requests]
    /\ closer \in {"no", "batch", "send", "quit", "wait", "returned"}

(* One goroutine at a time is between taking and leaving p.mu with a batch *)
(* in its hands.                                                           *)
OneHolder ==
    /\ \A w \in Workers : worker[w] \in Batching => held /\ closer = "no"
    /\ \A v, w \in Workers : worker[v] \in Batching /\ worker[w] \in Batching => v = w
    /\ closer \in {"batch", "send", "quit", "wait"} => held
    /\ closer = "returned" => \A w \in Workers : worker[w] = "gone"

(* The batch that nobody is processing has room for an item, and Close     *)
(* leaves it empty.                                                        *)
BatchFits ==
    /\ Len(items) <= BatchSize /\ (~held => Len(items) < BatchSize)
    /\ closer \in {"quit", "wait", "returned"} => items = <<>>

(* The results of the batch are being sent.                                *)
AtSend == closer = "send" \/ \E w \in Workers : worker[w] = "send"

Holds(w, i) == worker[w] = "lock" /\ req[w] = i

(* An item is at most once in one place; while the results of a batch are  *)
(* sent, its items are in the batch and processed.                         *)
OnePlaceOf(i) ==
    /\ Once(reqChan, i) /\ Once(items, i) /\ Once(processed, i)
    /\ \A v, w \in Workers : Holds(v, i) /\ Holds(w, i) => v = w
    /\ Contains(reqChan, i) => ~Received(i) /\ ~Contains(items, i) /\ ~Contains(processed, i)
    /\ Received(i) => ~Contains(items, i) /\ ~Contains(processed, i)
    /\ Contains(items, i) => (Contains(processed, i) <=> AtSend)

(* An item is nowhere before it is taken and somewhere afterwards, unless  *)
(* its context ended.                                                      *)
Somewhere(i) == Contains(reqChan, i) \/ Received(i) \/ Contains(items, i) \/ Contains(processed, i)
KeptOf(i) ==
    /\ call[i] \in {"new", "sending"} => ~Somewhere(i)
    /\ call[i] \in Taken /\ i \notin done => Somewhere(i)

BatchInv == BatchType /\ OneHolder /\ BatchFits /\ \A i \in Items : OnePlaceOf(i) /\ KeptOf(i)

-----------------------------------------------------------------------------
(* A step that moves no item: the callers go on, the goroutines change     *)
(* hands, results are put on reqChan.                                      *)
LEMMA StaysPut ==
    ASSUME \A i \in Items : OnePlaceOf(i) /\ KeptOf(i),
           UNCHANGED <<items, processed, req>>,
           \A i \in Items : (Contains(reqChan', i) <=> Contains(reqChan, i)) /\ (Once(reqChan, i) => Once(reqChan',
           i)),
           \A w \in Workers : worker'[w] = "lock" <=> worker[w] = "lock",
           AtSend' <=> AtSend,
           \A i \in Items : /\ call'[i] \in {"new", "sending"} => call[i] \in {"new", "sending"}
                            /\ call'[i] \in Taken /\ i \notin done' => call[i] \in Taken /\ i \notin done
    PROVE  \A i \in Items : OnePlaceOf(i)' /\ KeptOf(i)'
<1> SUFFICES ASSUME NEW i \in Items PROVE OnePlaceOf(i)' /\ KeptOf(i)'
  OBVIOUS
<1>1. /\ \A w \in Workers : Holds(w, i)' <=> Holds(w, i)
      /\ Received(i)' <=> Received(i)
  BY DEF Holds, Received
<1>2. OnePlaceOf(i)'
  BY <1>1 DEF OnePlaceOf
<1>3. KeptOf(i)'
  BY <1>1 DEF KeptOf, Somewhere
<1> QED
  BY <1>2, <1>3

(* A Process call puts its item on reqChan.                                *)
LEMMA EnqueuePlaces ==
    ASSUME BatchInv, NEW j \in Items, Enqueue(j)
    PROVE  \A i \in Items : OnePlaceOf(i)' /\ KeptOf(i)'
<1> SUFFICES ASSUME NEW i \in Items PROVE OnePlaceOf(i)' /\ KeptOf(i)'
  OBVIOUS
<1>1. /\ reqChan' = Append(reqChan, j) /\ call[j] = "sending" /\ call'[j] = "queued"
      /\ \A x \in Items : x # j => call'[x] = call[x]
      /\ UNCHANGED <<items, done, worker, req, closer, processed>>
  BY DEF Enqueue, BatchInv, BatchType
<1>2. /\ Contains(reqChan', i) <=> Contains(reqChan, i) \/ i = j
      /\ Once(reqChan, i) /\ (i = j => ~Contains(reqChan, i)) => Once(reqChan', i)
  BY <1>1, AppendHas DEF BatchInv, BatchType, Requests
<1>3. i = j => ~Somewhere(i)
  BY <1>1 DEF BatchInv, KeptOf
<1>4. /\ \A w \in Workers : Holds(w, i)' <=> Holds(w, i)
      /\ (Received(i)' <=> Received(i)) /\ (AtSend' <=> AtSend)
  BY <1>1 DEF Holds, Received, AtSend
<1>5. OnePlaceOf(i) /\ KeptOf(i)
  BY DEF BatchInv
<1>6. OnePlaceOf(i)'
  BY <1>1, <1>2, <1>3, <1>4, <1>5 DEF OnePlaceOf, Somewhere
<1>7. KeptOf(i)'
  BY <1>1, <1>2, <1>3, <1>4, <1>5 DEF KeptOf, Somewhere, Taken
<1> QED
  BY <1>6, <1>7

(* A worker takes the first request from reqChan.                          *)
LEMMA ReceivePlaces ==
    ASSUME BatchInv, NEW w \in Workers, Receive(w)
    PROVE  \A i \in Items : OnePlaceOf(i)' /\ KeptOf(i)'
<1> SUFFICES ASSUME NEW i \in Items PROVE OnePlaceOf(i)' /\ KeptOf(i)'
  OBVIOUS
<1>1. /\ worker[w] = "select" /\ worker'[w] = "lock" /\ req'[w] = Head(reqChan)
      /\ \A x \in Workers : x # w => worker'[x] = worker[x] /\ req'[x] = req[x]
      /\ reqChan' = Tail(reqChan) /\ reqChan # <<>> /\ UNCHANGED <<items, done, call, closer, processed>>
  BY DEF Receive, BatchInv, BatchType
<1>2. /\ Contains(reqChan, i) <=> Contains(reqChan', i) \/ i = Head(reqChan)
      /\ Once(reqChan, i) => Once(reqChan', i) /\ (i = Head(reqChan) => ~Contains(reqChan', i))
  BY <1>1, TailHas DEF BatchInv, BatchType
<1>3. /\ \A x \in Workers : Holds(x, i)' <=> Holds(x, i) \/ (x = w /\ i = Head(reqChan))
      /\ Received(i)' <=> Received(i) \/ i = Head(reqChan)
  BY <1>1 DEF Holds, Received
<1>4. AtSend' <=> AtSend
  BY <1>1 DEF AtSend
<1>5. OnePlaceOf(i) /\ KeptOf(i) /\ (\A x \in Workers : Holds(x, i) => Received(i))
  BY DEF BatchInv, Holds, Received
<1>6. OnePlaceOf(i)'
  BY <1>1, <1>2, <1>3, <1>4, <1>5 DEF OnePlaceOf
<1>7. KeptOf(i)'
  BY <1>1, <1>2, <1>3, <1>4, <1>5 DEF KeptOf, Somewhere
<1> QED
  BY <1>6, <1>7

(* A worker lets go of the item it holds: one whose context is done, or    *)
(* one that it adds to the batch.                                          *)
LEMMA HandlePlaces ==
    ASSUME BatchInv, NEW w \in Workers, HandleCancelled(w) \/ HandleAdd(w)
    PROVE  \A i \in Items : OnePlaceOf(i)' /\ KeptOf(i)'
<1> SUFFICES ASSUME NEW i \in Items PROVE OnePlaceOf(i)' /\ KeptOf(i)'
  OBVIOUS
<1>1. /\ Locks(w) /\ worker'[w] \in {"select", "batch"} /\ \A x \in Workers : x # w => worker'[x] = worker[x]
      /\ UNCHANGED <<reqChan, done, call, closer, processed, req>>
  BY DEF HandleCancelled, HandleAdd, BatchInv, BatchType
<1>2. /\ \A x \in Workers : Holds(x, i)' <=> Holds(x, i) /\ x # w
      /\ Received(i)' => Received(i)
  BY <1>1 DEF Holds, Received, Locks
<1>3. ~AtSend /\ ~AtSend'
  BY <1>1 DEF AtSend, Locks, BatchInv, OneHolder, Batching
<1>4. OnePlaceOf(i) /\ KeptOf(i)
  BY DEF BatchInv
<1>5. req[w] = i => Received(i) /\ ~Received(i)'
  <2> SUFFICES ASSUME req[w] = i PROVE Received(i) /\ ~Received(i)'
    OBVIOUS
  <2>1. Holds(w, i)
    BY <1>1 DEF Holds, Locks
  <2>2. \A x \in Workers : ~Holds(x, i)'
    BY <1>2, <1>4, <2>1 DEF OnePlaceOf
  <2> QED
    BY <2>1, <2>2 DEF Holds, Received
<1>6. req[w] # i => (Received(i)' <=> Received(i))
  BY <1>1, <1>2 DEF Holds, Received
<1>7. CASE HandleCancelled(w)
  <2>1. items' = items /\ req[w] \in done
    BY <1>7 DEF HandleCancelled
  <2>2. OnePlaceOf(i)'
    BY <1>1, <1>2, <1>3, <1>4, <2>1 DEF OnePlaceOf
  <2>3. KeptOf(i)'
    BY <1>1, <1>2, <1>4, <1>6, <2>1 DEF KeptOf, Somewhere
  <2> QED
    BY <2>2, <2>3
<1>8. CASE HandleAdd(w)
  <2>1. items' = Append(items, req[w]) /\ req[w] \in Items
    BY <1>8 DEF HandleAdd
  <2>2. /\ Contains(items', i) <=> Contains(items, i) \/ i = req[w]
        /\ Once(items, i) /\ (i = req[w] => ~Contains(items, i)) => Once(items', i)
    BY <2>1, AppendHas DEF BatchInv, BatchType
  <2>3. OnePlaceOf(i)'
    BY <1>1, <1>2, <1>3, <1>4, <1>5, <2>2 DEF OnePlaceOf
  <2>4. KeptOf(i)'
    BY <1>1, <1>2, <1>4, <1>5, <1>6, <2>2 DEF KeptOf, Somewhere
  <2> QED
    BY <2>3, <2>4
<1> QED
  BY <1>7, <1>8

(* processBatch gives the batch to the process function ...                *)
LEMMA RunPlaces ==
    ASSUME BatchInv, ~AtSend, AtSend', processed' = processed \o items,
           UNCHANGED <<reqChan, items, call, done, req>>,
           \A w \in Workers : worker'[w] = "lock" <=> worker[w] = "lock"
    PROVE  \A i \in Items : OnePlaceOf(i)' /\ KeptOf(i)'
<1> SUFFICES ASSUME NEW i \in Items PROVE OnePlaceOf(i)' /\ KeptOf(i)'
  OBVIOUS
<1>1. /\ Contains(processed', i) <=> Contains(processed, i) \/ Contains(items, i)
      /\ Once(processed, i) /\ Once(items, i) /\ ~(Contains(processed, i) /\ Contains(items,
         i)) => Once(processed', i)
  BY ConcatHas DEF BatchInv, BatchType
<1>2. /\ \A x \in Workers : Holds(x, i)' <=> Holds(x, i)
      /\ Received(i)' <=> Received(i)
  BY DEF Holds, Received
<1>3. OnePlaceOf(i) /\ KeptOf(i)
  BY DEF BatchInv
<1>4. OnePlaceOf(i)'
  BY <1>1, <1>2, <1>3 DEF OnePlaceOf
<1>5. KeptOf(i)'
  BY <1>1, <1>2, <1>3 DEF KeptOf, Somewhere
<1> QED
  BY <1>4, <1>5

(* ... and empties it when the results are sent.                           *)
LEMMA ClearPlaces ==
    ASSUME BatchInv, AtSend, ~AtSend', items' = <<>>,
           UNCHANGED <<reqChan, processed, call, done, req>>,
           \A w \in Workers : worker'[w] = "lock" <=> worker[w] = "lock"
    PROVE  \A i \in Items : OnePlaceOf(i)' /\ KeptOf(i)'
<1> SUFFICES ASSUME NEW i \in Items PROVE OnePlaceOf(i)' /\ KeptOf(i)'
  OBVIOUS
<1>1. ~Contains(items', i) /\ Once(items', i)
  BY EmptyHasNone
<1>2. /\ \A x \in Workers : Holds(x, i)' <=> Holds(x, i)
      /\ Received(i)' <=> Received(i)
  BY DEF Holds, Received
<1>3. OnePlaceOf(i) /\ KeptOf(i)
  BY DEF BatchInv
<1>4. OnePlaceOf(i)'
  BY <1>1, <1>2, <1>3 DEF OnePlaceOf
<1>5. KeptOf(i)'
  BY <1>1, <1>2, <1>3 DEF KeptOf, Somewhere, OnePlaceOf
<1> QED
  BY <1>4, <1>5

-----------------------------------------------------------------------------
(* The steps of a call of Process.                                         *)
LEMMA CallKeeps ==
    ASSUME BatchInv, NEW j \in Items, Process(j) \/ CallStep(j) \/ CtxDone(j), UNCHANGED <<crashed, WaitForBatch>>
    PROVE  BatchInv'
<1>0. BatchType /\ OneHolder /\ BatchFits /\ \A i \in Items : OnePlaceOf(i) /\ KeptOf(i)
  BY DEF BatchInv
<1>1. UNCHANGED <<items, held, timer, quit, toSend, answered, worker, req, closer, processed>>
  BY DEF Process, CallStep, Enqueue, ReturnAccepted, ReturnDone, ReturnClosed, ReturnAnswer, CtxDone
<1>2. done' \subseteq Items /\ done \subseteq done'
  BY <1>0 DEF BatchType, Process, CallStep, Enqueue, ReturnAccepted, ReturnDone, ReturnClosed, ReturnAnswer,
     CtxDone,
     Return
<1>3. /\ call' \in [Items -> CallSteps] /\ \A i \in Items : i # j => call'[i] = call[i]
      /\ ~Enqueue(j) => /\ call'[j] \in {"new", "sending"} => call[j] \in {"new", "sending"}
                        /\ call'[j] \in Taken => call[j] \in Taken
  <2>1. call \in [Items -> CallSteps]
    BY <1>0 DEF BatchType
  <2>2. CASE Process(j)
    BY <2>1, <2>2 DEF Process, CallSteps, Taken
  <2>3. CASE Enqueue(j)
    BY <2>1, <2>3 DEF Enqueue, CallSteps
  <2>4. ASSUME NEW how \in Returned, Return(j, how), how \in Taken => call[j] \in Taken
        PROVE  /\ call' \in [Items -> CallSteps] /\ \A i \in Items : i # j => call'[i] = call[i]
               /\ call'[j] \in {"new", "sending"} => call[j] \in {"new", "sending"}
               /\ call'[j] \in Taken => call[j] \in Taken
    BY <2>1, <2>4 DEF Return, Returned, CallSteps
  <2>5. CASE ReturnAccepted(j)
    BY <2>4, <2>5 DEF ReturnAccepted, Returned, Taken
  <2>6. CASE ReturnDone(j)
    BY <2>4, <2>6 DEF ReturnDone, Returned, Taken
  <2>7. CASE ReturnClosed(j)
    BY <2>4, <2>7 DEF ReturnClosed, Returned, Taken
  <2>8. CASE ReturnAnswer(j)
    BY <2>4, <2>8 DEF ReturnAnswer, Returned, Taken
  <2>9. CASE CtxDone(j)
    BY <2>1, <2>9 DEF CtxDone
  <2> QED
    BY <2>2, <2>3, <2>5, <2>6, <2>7, <2>8, <2>9 DEF CallStep
<1>4. reqChan' \in Seq(Requests) /\ Len(reqChan') <= QueueSize /\ (~Enqueue(j) => reqChan' = reqChan)
  <2>1. CASE Enqueue(j)
    <3>1. reqChan' = Append(reqChan, j) /\ Len(reqChan) < QueueSize /\ reqChan \in Seq(Requests) /\ j \in Requests
      BY <1>0, <2>1 DEF Enqueue, Room, BatchType, Requests
    <3> QED
      BY <2>1, <3>1, ProcessorAssumption
  <2>2. CASE ~Enqueue(j)
    <3>1. reqChan' = reqChan
      BY <2>2 DEF Process, CallStep, ReturnAccepted, ReturnDone, ReturnClosed, ReturnAnswer, CtxDone
    <3> QED
      BY <1>0, <3>1 DEF BatchType
  <2> QED
    BY <2>1, <2>2
<1>5. BatchType'
  BY <1>0, <1>1, <1>2, <1>3, <1>4 DEF BatchType
<1>6. OneHolder' /\ BatchFits'
  BY <1>0, <1>1 DEF OneHolder, BatchFits
<1>7. \A i \in Items : OnePlaceOf(i)' /\ KeptOf(i)'
  <2>1. CASE Enqueue(j)
    BY <2>1, EnqueuePlaces
  <2>2. CASE ~Enqueue(j)
    <3>1. AtSend' <=> AtSend
      BY <1>1 DEF AtSend
    <3> QED
      BY <1>0, <1>1, <1>2, <1>3, <1>4, <2>2, <3>1, StaysPut
  <2> QED
    BY <2>1, <2>2
<1> QED
  BY <1>5, <1>6, <1>7 DEF BatchInv

(* A worker takes a request, or handles it, or leaves.                     *)
LEMMA WorkerKeeps ==
    ASSUME BatchInv, NEW w \in Workers, Receive(w) \/ WorkerQuits(w) \/ HandleCancelled(w) \/ HandleAdd(w),
           UNCHANGED <<crashed, WaitForBatch>>
    PROVE  BatchInv'
<1>0. /\ BatchType /\ OneHolder /\ BatchFits /\ (\A i \in Items : OnePlaceOf(i) /\ KeptOf(i))
      /\ worker \in [Workers -> Steps]
  BY DEF BatchInv, BatchType
<1>1. CASE Receive(w)
  <2>1. /\ worker[w] = "select" /\ reqChan # <<>> /\ req' = [req EXCEPT ![w] = Head(reqChan)]
        /\ reqChan' = Tail(reqChan) /\ worker' = [worker EXCEPT ![w] = "lock"]
        /\ UNCHANGED <<items, held, timer, quit, toSend, call, done, answered, closer, processed>>
    BY <1>1 DEF Receive
  <2>2. /\ reqChan' \in Seq(Requests) /\ Len(reqChan') <= QueueSize /\ req' \in [Workers -> Requests]
    <3>1. reqChan \in Seq(Requests) /\ Len(reqChan) <= QueueSize /\ req \in [Workers -> Requests]
      BY <1>0 DEF BatchType
    <3>2. Head(reqChan) \in Requests /\ Tail(reqChan) \in Seq(Requests) /\ Len(Tail(reqChan)) = Len(reqChan) - 1
      BY <2>1, <3>1, TailHas
    <3>3. Len(reqChan) \in Nat
      BY <3>1
    <3> QED
      BY <2>1, <3>1, <3>2, <3>3, ProcessorAssumption
  <2>3. /\ worker' \in [Workers -> Steps] /\ worker'[w] = "lock"
        /\ \A x \in Workers : x # w => worker'[x] = worker[x]
    BY <1>0, <2>1 DEF Steps
  <2>4. BatchType'
    BY <1>0, <2>1, <2>2, <2>3 DEF BatchType
  <2>5. OneHolder' /\ BatchFits'
    BY <1>0, <2>1, <2>3 DEF OneHolder, BatchFits, Batching
  <2> QED
    BY <1>1, <2>4, <2>5, ReceivePlaces DEF BatchInv
<1>2. CASE WorkerQuits(w)
  <2>1. /\ worker[w] = "select" /\ worker' = [worker EXCEPT ![w] = "gone"]
        /\ UNCHANGED <<reqChan, items, held, timer, quit, toSend, call, done, answered, req, closer, processed>>
    BY <1>2 DEF WorkerQuits
  <2>2. /\ worker' \in [Workers -> Steps] /\ worker'[w] = "gone"
        /\ \A x \in Workers : x # w => worker'[x] = worker[x]
    BY <1>0, <2>1 DEF Steps
  <2>3. BatchType'
    BY <1>0, <2>1, <2>2 DEF BatchType
  <2>4. OneHolder' /\ BatchFits'
    BY <1>0, <2>1, <2>2 DEF OneHolder, BatchFits, Batching
  <2>5. (\A x \in Workers : worker'[x] = "lock" <=> worker[x] = "lock") /\ (AtSend' <=> AtSend)
    BY <2>1, <2>2 DEF AtSend
  <2>6. \A i \in Items : OnePlaceOf(i)' /\ KeptOf(i)'
    BY <1>0, <2>1, <2>5, StaysPut
  <2> QED
    BY <2>3, <2>4, <2>6 DEF BatchInv
<1>3. CASE HandleCancelled(w)
  <2>1. /\ worker[w] = "lock" /\ worker' = [worker EXCEPT ![w] = "select"]
        /\ UNCHANGED <<reqChan, items, held, timer, quit, toSend, call, done, req, closer, processed>>
    BY <1>3 DEF HandleCancelled, Locks
  <2>2. answered' \subseteq Items
    BY <1>0, <1>3 DEF HandleCancelled, BatchType
  <2>3. /\ worker' \in [Workers -> Steps] /\ worker'[w] = "select"
        /\ \A x \in Workers : x # w => worker'[x] = worker[x]
    BY <1>0, <2>1 DEF Steps
  <2>4. BatchType'
    BY <1>0, <2>1, <2>2, <2>3 DEF BatchType
  <2>5. OneHolder' /\ BatchFits'
    BY <1>0, <2>1, <2>3 DEF OneHolder, BatchFits, Batching
  <2> QED
    BY <1>3, <2>4, <2>5, HandlePlaces DEF BatchInv
<1>4. CASE HandleAdd(w)
  <2>1. /\ worker[w] = "lock" /\ ~held /\ req[w] \in Items /\ items' = Append(items, req[w])
        /\ timer' = IF items = <<>> THEN "armed" ELSE timer
        /\ UNCHANGED <<reqChan, quit, toSend, call, done, answered, req, closer, processed>>
    BY <1>4 DEF HandleAdd, Locks
  <2>2. items \in Seq(Items) /\ Len(items) \in Nat /\ Len(items) < BatchSize
    BY <1>0, <2>1 DEF BatchType, BatchFits
  <2>3. items' \in Seq(Items) /\ Len(items') = Len(items) + 1
    BY <2>1, <2>2
  <2>4. closer \in {"no", "returned"} /\ \A x \in Workers : worker[x] \notin Batching
    BY <1>0, <2>1 DEF OneHolder, BatchType
  <2>5. closer = "no"
    BY <1>0, <2>1, <2>4 DEF OneHolder
  <2>6. \/ Full(items') /\ held' = TRUE /\ worker' = [worker EXCEPT ![w] = "batch"]
        \/ ~Full(items') /\ held' = held /\ worker' = [worker EXCEPT ![w] = "select"]
    BY <1>4 DEF HandleAdd
  <2>7. /\ worker' \in [Workers -> Steps] /\ worker'[w] \in {"batch", "select"}
        /\ \A x \in Workers : x # w => worker'[x] = worker[x]
        /\ held' \in BOOLEAN /\ (worker'[w] = "batch" => held') /\ (~held' => ~Full(items'))
    BY <1>0, <2>6 DEF Steps, BatchType
  <2>8. BatchType'
    BY <1>0, <2>1, <2>3, <2>7 DEF BatchType
  <2>9. OneHolder'
    BY <2>1, <2>4, <2>5, <2>7 DEF OneHolder, Batching
  <2>10. BatchFits'
    BY <2>1, <2>2, <2>3, <2>5, <2>7, ProcessorAssumption DEF BatchFits, Full
  <2> QED
    BY <1>4, <2>8, <2>9, <2>10, HandlePlaces DEF BatchInv
<1> QED
  BY <1>1, <1>2, <1>3, <1>4

-----------------------------------------------------------------------------
(* A result that is put on reqChan, or dropped because there is no room.   *)
LEMMA ResultSent ==
    ASSUME BatchType, SendResult
    PROVE  /\ reqChan' \in Seq(Requests) /\ Len(reqChan') <= QueueSize /\ toSend' \in 0 .. BatchSize
           /\ \A i \in Items : /\ Contains(reqChan', i) <=> Contains(reqChan, i)
                               /\ Once(reqChan, i) => Once(reqChan', i)
<1>1. reqChan \in Seq(Requests) /\ Len(reqChan) <= QueueSize /\ ResultReq \in Requests /\ toSend' \in 0 .. BatchSize
  BY ProcessorAssumption DEF BatchType, SendResult, Requests
<1>2. CASE Room
  <2>1. reqChan' = Append(reqChan, ResultReq) /\ Len(reqChan) < QueueSize
    BY <1>2 DEF SendResult, Room
  <2>2. ASSUME NEW i \in Items
        PROVE  (Contains(reqChan', i) <=> Contains(reqChan, i)) /\ (Once(reqChan, i) => Once(reqChan', i))
    <3>1. i # ResultReq
      BY ProcessorAssumption
    <3> QED
      BY <1>1, <2>1, <3>1, AppendHas
  <2>3. reqChan' \in Seq(Requests) /\ Len(reqChan') <= QueueSize
    BY <1>1, <2>1, ProcessorAssumption
  <2> QED
    BY <1>1, <2>2, <2>3
<1>3. CASE ~Room
  BY <1>1, <1>3 DEF SendResult
<1> QED
  BY <1>2, <1>3

(* The batch that is run goes through the process function as it is.       *)
LEMMA BatchRun ==
    ASSUME BatchType, BatchFits, RunBatch
    PROVE  /\ timer' = "off" /\ processed' = processed \o items
           /\ processed' \in Seq(Items) /\ toSend' \in 0 .. BatchSize
<1>1. timer' = "off" /\ processed' = processed \o items /\ toSend' = IF WaitForBatch THEN Len(items) ELSE 0
  BY DEF RunBatch
<1>2. processed \in Seq(Items) /\ items \in Seq(Items) /\ Len(items) \in Nat /\ Len(items) <= BatchSize
  BY DEF BatchType, BatchFits
<1> QED
  BY <1>1, <1>2, ProcessorAssumption

(* The worker that has completed a batch.                                  *)
LEMMA WorkerBatchKeeps ==
    ASSUME BatchInv, NEW w \in Workers, WorkerBatch(w),
           UNCHANGED <<quit, call, done, answered, req, closer, crashed, WaitForBatch>>
    PROVE  BatchInv'
<1>0. /\ BatchType /\ OneHolder /\ BatchFits /\ (\A i \in Items : OnePlaceOf(i) /\ KeptOf(i))
      /\ worker \in [Workers -> Steps]
  BY DEF BatchInv, BatchType
<1>1. /\ worker[w] \in Batching /\ held /\ closer = "no"
      /\ \A x \in Workers : x # w => worker[x] \notin Batching
  BY <1>0 DEF WorkerBatch, OneHolder, Batching
<1>2. CASE worker[w] = "batch" /\ RunBatch /\ worker' = [worker EXCEPT ![w] = "send"]
           /\ UNCHANGED <<reqChan, items, held>>
  <2>1. /\ worker' \in [Workers -> Steps] /\ worker'[w] = "send"
        /\ \A x \in Workers : x # w => worker'[x] = worker[x]
    BY <1>0, <1>2 DEF Steps
  <2>2. BatchType'
    BY <1>0, <1>2, <2>1, BatchRun DEF BatchType
  <2>3. OneHolder' /\ BatchFits'
    BY <1>0, <1>1, <1>2, <2>1 DEF OneHolder, BatchFits, Batching
  <2>4. ~AtSend /\ AtSend' /\ \A x \in Workers : worker'[x] = "lock" <=> worker[x] = "lock"
    BY <1>1, <1>2, <2>1 DEF AtSend, Batching
  <2>5. \A i \in Items : OnePlaceOf(i)' /\ KeptOf(i)'
    BY <1>0, <1>2, <2>4, BatchRun, RunPlaces
  <2> QED
    BY <2>2, <2>3, <2>5 DEF BatchInv
<1>3. CASE worker[w] = "send" /\ SendResult /\ UNCHANGED <<items, held, timer, worker, processed>>
  <2>1. BatchType'
    BY <1>0, <1>3, ResultSent DEF BatchType
  <2>2. OneHolder' /\ BatchFits'
    BY <1>0, <1>3 DEF OneHolder, BatchFits
  <2>3. AtSend' <=> AtSend
    BY <1>3 DEF AtSend
  <2>4. \A i \in Items : OnePlaceOf(i)' /\ KeptOf(i)'
    BY <1>0, <1>3, <2>3, ResultSent, StaysPut
  <2> QED
    BY <2>1, <2>2, <2>4 DEF BatchInv
<1>4. CASE worker[w] = "send" /\ ClearBatch /\ held' = FALSE /\ worker' = [worker EXCEPT ![w] = "select"]
           /\ UNCHANGED <<reqChan, timer, toSend, processed>>
  <2>1. /\ worker' \in [Workers -> Steps] /\ worker'[w] = "select"
        /\ \A x \in Workers : x # w => worker'[x] = worker[x]
    BY <1>0, <1>4 DEF Steps
  <2>2. items' = <<>> /\ items' \in Seq(Items) /\ Len(items') = 0
    BY <1>4 DEF ClearBatch
  <2>3. BatchType'
    BY <1>0, <1>4, <2>1, <2>2 DEF BatchType
  <2>4. OneHolder'
    BY <1>0, <1>1, <1>4, <2>1 DEF OneHolder, Batching
  <2>5. BatchFits'
    BY <1>1, <2>2, ProcessorAssumption DEF BatchFits
  <2>6. AtSend /\ ~AtSend' /\ \A x \in Workers : worker'[x] = "lock" <=> worker[x] = "lock"
    BY <1>1, <1>4, <2>1 DEF AtSend, Batching
  <2>7. \A i \in Items : OnePlaceOf(i)' /\ KeptOf(i)'
    BY <1>0, <1>4, <2>2, <2>6, ClearPlaces
  <2> QED
    BY <2>3, <2>4, <2>5, <2>7 DEF BatchInv
<1> QED
  BY <1>2, <1>3, <1>4 DEF WorkerBatch

(* Close.                                                                  *)
LEMMA CloseKeeps ==
    ASSUME BatchInv, CloseStep, UNCHANGED <<crashed, WaitForBatch>>
    PROVE  BatchInv'
<1>0. BatchType /\ OneHolder /\ BatchFits /\ \A i \in Items : OnePlaceOf(i) /\ KeptOf(i)
  BY DEF BatchInv
<1>1. UNCHANGED <<call, done, answered, worker, req>>
  BY DEF CloseStep
<1>2. ASSUME UNCHANGED <<reqChan, items, processed>>, closer # "send", closer' # "send"
      PROVE  \A i \in Items : OnePlaceOf(i)' /\ KeptOf(i)'
  <2>1. AtSend' <=> AtSend
    BY <1>1, <1>2 DEF AtSend
  <2> QED
    BY <1>0, <1>1, <1>2, <2>1, StaysPut
<1>3. ASSUME closer \in {"batch", "send"} PROVE \A w \in Workers : worker[w] # "send"
  BY <1>0, <1>3 DEF OneHolder, Batching
<1>4. CASE CloseLock
  <2>1. BatchType'
    BY <1>0, <1>1, <1>4 DEF CloseLock, BatchType
  <2>2. OneHolder' /\ BatchFits'
    BY <1>0, <1>1, <1>4 DEF CloseLock, OneHolder, BatchFits
  <2>3. \A i \in Items : OnePlaceOf(i)' /\ KeptOf(i)'
    BY <1>2, <1>4 DEF CloseLock
  <2> QED
    BY <2>1, <2>2, <2>3 DEF BatchInv
<1>5. CASE closer = "batch" /\ RunBatch /\ closer' = "send" /\ UNCHANGED <<reqChan, items, held, quit>>
  <2>1. BatchType'
    BY <1>0, <1>1, <1>5, BatchRun DEF BatchType
  <2>2. OneHolder' /\ BatchFits'
    BY <1>0, <1>1, <1>5 DEF OneHolder, BatchFits
  <2>3. ~AtSend /\ AtSend'
    BY <1>3, <1>5 DEF AtSend
  <2>4. \A i \in Items : OnePlaceOf(i)' /\ KeptOf(i)'
    BY <1>0, <1>1, <1>5, <2>3, BatchRun, RunPlaces
  <2> QED
    BY <2>1, <2>2, <2>4 DEF BatchInv
<1>6. CASE closer = "send" /\ SendResult /\ UNCHANGED <<items, held, timer, quit, closer, processed>>
  <2>1. BatchType'
    BY <1>0, <1>1, <1>6, ResultSent DEF BatchType
  <2>2. OneHolder' /\ BatchFits'
    BY <1>0, <1>1, <1>6 DEF OneHolder, BatchFits
  <2>3. AtSend' <=> AtSend
    BY <1>6 DEF AtSend
  <2>4. \A i \in Items : OnePlaceOf(i)' /\ KeptOf(i)'
    BY <1>0, <1>1, <1>6, <2>3, ResultSent, StaysPut
  <2> QED
    BY <2>1, <2>2, <2>4 DEF BatchInv
<1>7. CASE closer = "send" /\ ClearBatch /\ closer' = "quit"
           /\ UNCHANGED <<reqChan, held, timer, quit, toSend, processed>>
  <2>1. items' = <<>> /\ items' \in Seq(Items) /\ Len(items') = 0
    BY <1>7 DEF ClearBatch
  <2>2. BatchType'
    BY <1>0, <1>1, <1>7, <2>1 DEF BatchType
  <2>3. OneHolder'
    BY <1>0, <1>1, <1>7 DEF OneHolder
  <2>4. BatchFits'
    BY <1>7, <2>1, ProcessorAssumption DEF BatchFits
  <2>5. AtSend /\ ~AtSend'
    BY <1>1, <1>3, <1>7 DEF AtSend
  <2>6. \A i \in Items : OnePlaceOf(i)' /\ KeptOf(i)'
    BY <1>0, <1>1, <1>7, <2>1, <2>5, ClearPlaces
  <2> QED
    BY <2>2, <2>3, <2>4, <2>6 DEF BatchInv
<1>8. CASE CloseQuit
  <2>1. BatchType'
    BY <1>0, <1>1, <1>8 DEF CloseQuit, BatchType
  <2>2. OneHolder' /\ BatchFits'
    BY <1>0, <1>1, <1>8 DEF CloseQuit, OneHolder, BatchFits
  <2>3. \A i \in Items : OnePlaceOf(i)' /\ KeptOf(i)'
    BY <1>2, <1>8 DEF CloseQuit
  <2> QED
    BY <2>1, <2>2, <2>3 DEF BatchInv
<1>9. CASE CloseReturns
  <2>1. BatchType'
    BY <1>0, <1>1, <1>9 DEF CloseReturns, BatchType
  <2>2. OneHolder'
    BY <1>0, <1>1, <1>9 DEF CloseReturns, OneHolder, Batching
  <2>3. BatchFits'
    <3>1. items = <<>> /\ items' = <<>> /\ Len(items') = 0
      BY <1>0, <1>9 DEF CloseReturns, BatchFits
    <3> QED
      BY <3>1, ProcessorAssumption DEF BatchFits
  <2>4. \A i \in Items : OnePlaceOf(i)' /\ KeptOf(i)'
    BY <1>2, <1>9 DEF CloseReturns
  <2> QED
    BY <2>1, <2>2, <2>3, <2>4 DEF BatchInv
<1> QED
  BY <1>4, <1>5, <1>6, <1>7, <1>8, <1>9 DEF CloseStep, CloseBatch

(* The timer fires, or a worker panics: no item moves.                     *)
LEMMA NothingMoves ==
    ASSUME BatchInv, timer' \in {"off", "armed", "fired"}, crashed' \in BOOLEAN,
           UNCHANGED <<WaitForBatch, reqChan, items, held, quit, toSend, call, done, answered, worker, req, closer,
                       processed>>
    PROVE  BatchInv'
<1>1. BatchType' /\ OneHolder' /\ BatchFits'
  BY DEF BatchInv, BatchType, OneHolder, BatchFits
<1>2. AtSend' <=> AtSend
  BY DEF AtSend
<1>3. \A i \in Items : OnePlaceOf(i)' /\ KeptOf(i)'
  BY <1>2, StaysPut DEF BatchInv
<1> QED
  BY <1>1, <1>3 DEF BatchInv

(* Every step of a caller, a worker or Close keeps the invariant.          *)
LEMMA BatchStepInv ==
    ASSUME BatchInv, [Next]_vars
    PROVE  BatchInv'
<1>1. CASE UNCHANGED vars
  <2>1. timer' \in {"off", "armed", "fired"} /\ crashed' \in BOOLEAN
    BY <1>1 DEF vars, BatchInv, BatchType
  <2> QED
    BY <1>1, <2>1, NothingMoves DEF vars
<1>2. ASSUME NEW w \in Workers, HandlePanics(w), UNCHANGED WaitForBatch PROVE BatchInv'
  <2>1. timer' \in {"off", "armed", "fired"} /\ crashed' \in BOOLEAN
    BY <1>2 DEF HandlePanics, BatchInv, BatchType
  <2> QED
    BY <1>2, <2>1, NothingMoves DEF HandlePanics
<1>3. ASSUME TimerFires, UNCHANGED <<crashed, WaitForBatch>> PROVE BatchInv'
  <2>1. timer' \in {"off", "armed", "fired"} /\ crashed' \in BOOLEAN
    BY <1>3 DEF TimerFires, BatchInv, BatchType
  <2> QED
    BY <1>3, <2>1, NothingMoves DEF TimerFires
<1>4. ASSUME NEW w \in Workers, WorkerStep(w), UNCHANGED <<crashed, WaitForBatch>> PROVE BatchInv'
  BY <1>4, WorkerKeeps, WorkerBatchKeeps DEF WorkerStep
<1> QED
  BY <1>1, <1>2, <1>3, <1>4, CallKeeps, CloseKeeps DEF Next

(* Whatever the callers, the workers and Close do in whichever order, an   *)
(* item that was taken is in the queue, with a worker, in a batch or       *)
(* processed, and it is processed at most once; it is dropped only when    *)
(* its context is done, and Close leaves no batch behind.                  *)
THEOREM ItemsOnce == Spec => []EachItemOnce
<1>1. Init => BatchInv
  <2> SUFFICES ASSUME Init PROVE BatchInv
    OBVIOUS
  <2>1. <<>> \in Seq(Requests) /\ <<>> \in Seq(Items) /\ Len(<<>>) = 0
    OBVIOUS
  <2>2. BatchType
    <3>1. reqChan \in Seq(Requests) /\ items \in Seq(Items) /\ processed \in Seq(Items) /\ Len(reqChan) <= QueueSize
      BY <2>1, ProcessorAssumption DEF Init
    <3>2. worker \in [Workers -> Steps] /\ req \in [Workers -> Requests] /\ call \in [Items -> CallSteps]
      BY DEF Init, Steps, Requests, CallSteps
    <3>3. toSend \in 0 .. BatchSize
      BY ProcessorAssumption DEF Init
    <3> QED
      BY <3>1, <3>2, <3>3 DEF Init, BatchType
  <2>3. OneHolder /\ BatchFits
    BY <2>1, ProcessorAssumption DEF Init, OneHolder, BatchFits, Batching
  <2>4. ASSUME NEW i \in Items PROVE OnePlaceOf(i) /\ KeptOf(i)
    <3>1. ~Contains(reqChan, i) /\ ~Contains(items, i) /\ ~Contains(processed, i)
          /\ Once(reqChan, i) /\ Once(items, i) /\ Once(processed, i)
      BY EmptyHasNone DEF Init
    <3>2. ~Received(i) /\ \A w \in Workers : ~Holds(w, i)
      BY DEF Init, Received, Holds
    <3> QED
      BY <3>1, <3>2 DEF Init, OnePlaceOf, KeptOf, Somewhere, Taken
  <2> QED
    BY <2>2, <2>3, <2>4 DEF BatchInv
<1>2. BatchInv /\ [Next]_vars => BatchInv'
  BY BatchStepInv
<1>3. BatchInv => EachItemOnce
  <2> SUFFICES ASSUME BatchInv PROVE EachItemOnce
    OBVIOUS
  <2>1. TypeOK
    BY DEF BatchInv, BatchType, TypeOK, CallSteps, Steps
  <2>2. ProcessedOnce
    <3>1. processed \in Seq(Items) /\ \A i \in Items : Once(processed, i)
      BY DEF BatchInv, BatchType, OnePlaceOf
    <3>2. DOMAIN processed = 1 .. Len(processed) /\ \A m \in 1 .. Len(processed) : processed[m] \in Items
      BY <3>1
    <3> QED
      BY <3>1, <3>2 DEF ProcessedOnce, Once
  <2>3. BatchWithinSize /\ CloseFlushes
    BY DEF BatchInv, BatchFits, OneHolder, BatchWithinSize, CloseFlushes
  <2>4. NothingLost
    BY DEF BatchInv, KeptOf, Somewhere, NothingLost, Taken
  <2> QED
    BY <2>1, <2>2, <2>3, <2>4 DEF EachItemOnce
<1> QED
  BY <1>1, <1>2, <1>3, PTL DEF Spec
=============================================================================
