---------------------------- MODULE MessagePool -----------------------------
(* The pool of message objects (internal/mempool/message_pool.go): a       *)
(* sync.Pool of idle objects beside a map of the objects it knows, with    *)
(* their reference counts, which have no lock in common. Get takes an      *)
(* object first and counts it later; the cleanup and Close run in between. *)
EXTENDS Integers, FiniteSets

CONSTANTS Borrowers, Messages, MaxPoolSize, MessageTTL,
          LastTick           \* bound of the clock

ASSUME MessagePoolAssumption ==
    /\ IsFiniteSet(Messages) /\ Messages = 1 .. Cardinality(Messages)
    /\ MaxPoolSize \in Nat /\ MessageTTL \in Nat /\ LastTick \in Nat

VARIABLES useRefCount,
          objects,           \* the map: the reference count of each object, or Unknown
          lastUsed,
          idle,              \* what the sync.Pool has
          made, borrower,    \* borrower[b]: its pc and its object
          tick, poolState    \* "open", "stopping" (stopCh closed), "stopped" (loop gone), "closed"

messagePoolVars == <<useRefCount, objects, lastUsed, idle, made, borrower, tick, poolState>>

Unknown == -1
Nothing == 0
Known == {o \in Messages : objects[o] # Unknown}

(* Prewarming makes objects and puts each back: the map holds the object   *)
(* when Put looks at its size.                                             *)
NewMessagePool(refs, prewarm) ==
    LET warm == {o \in prewarm : Cardinality({p \in prewarm : p <= o}) < MaxPoolSize}
    IN  /\ useRefCount = refs
        /\ made = prewarm /\ idle = warm
        /\ objects = [o \in Messages |-> IF refs /\ o \in warm THEN 0
                                         ELSE IF ~refs /\ o \in prewarm THEN 1 ELSE Unknown]
        /\ lastUsed = [o \in Messages |-> 0]
        /\ borrower = [b \in Borrowers |-> [pc |-> "free", obj |-> Nothing]]
        /\ tick = 0 /\ poolState = "open"

-----------------------------------------------------------------------------
(* pool.Get of a sync.Pool gives an idle object or makes one, whether or   *)
(* not others are idle. A new object enters the map with one reference.    *)
TakeIdle(b) ==
    /\ borrower[b].pc = "free"
    /\ \E o \in idle : idle' = idle \ {o} /\ borrower' = [borrower EXCEPT ![b] = [pc |-> "taken", obj |-> o]]
    /\ UNCHANGED <<useRefCount, objects, lastUsed, made, tick, poolState>>

MakeObject(b) ==
    /\ borrower[b].pc = "free"
    /\ \E o \in Messages \ made :
        /\ made' = made \cup {o}
        /\ objects' = [objects EXCEPT ![o] = 1]
        /\ lastUsed' = [lastUsed EXCEPT ![o] = tick]
        /\ borrower' = [borrower EXCEPT ![b] = [pc |-> "taken", obj |-> o]]
    /\ UNCHANGED <<useRefCount, idle, tick, poolState>>

GetObject(b) ==
    LET o == borrower[b].obj
        counts == useRefCount /\ o \in Known
    IN  /\ borrower[b].pc = "taken"
        /\ objects' = IF counts THEN [objects EXCEPT ![o] = @ + 1] ELSE objects
        /\ lastUsed' = IF counts THEN [lastUsed EXCEPT ![o] = tick] ELSE lastUsed
        /\ borrower' = [borrower EXCEPT ![b].pc = "using"]
        /\ UNCHANGED <<useRefCount, idle, made, tick, poolState>>

-----------------------------------------------------------------------------
PoolFullLate == Cardinality(Known) > MaxPoolSize + 1
PoolFull == Cardinality(Known) >= MaxPoolSize
Unreferenced(count) == count <= 0

(* Put with a reference count: the object is dropped, goes back or, when   *)
(* references are left, stays with nobody.                                 *)
PutCounted(o) ==
    LET count == objects[o] - 1
    IN  /\ objects' = [objects EXCEPT ![o] = IF Unreferenced(count) /\ PoolFull THEN Unknown ELSE count]
        /\ idle' = IF Unreferenced(count) /\ ~PoolFull THEN idle \cup {o} ELSE idle
        /\ lastUsed' = IF Unreferenced(count) /\ ~PoolFull THEN [lastUsed EXCEPT ![o] = tick] ELSE lastUsed

PutUncounted(o) ==
    /\ objects' = IF ~PoolFull /\ o \notin Known THEN [objects EXCEPT ![o] = 0] ELSE objects
    /\ idle' = IF PoolFull THEN idle ELSE idle \cup {o}
    /\ lastUsed' = IF PoolFull THEN lastUsed ELSE [lastUsed EXCEPT ![o] = tick]

PutObject(b) ==
    LET o == borrower[b].obj
    IN  /\ borrower[b].pc = "using"
        /\ IF useRefCount /\ o \in Known THEN PutCounted(o) ELSE PutUncounted(o)
        /\ borrower' = [borrower EXCEPT ![b] = [pc |-> "free", obj |-> Nothing]]
        /\ UNCHANGED <<useRefCount, made, tick, poolState>>

-----------------------------------------------------------------------------
Forgettable(o) ==
    o \in Known /\ tick - lastUsed[o] > MessageTTL /\ (useRefCount => Unreferenced(objects[o]))

(* The ticker of cleanupLoop; what it forgets stays in the sync.Pool.      *)
CleanupPool ==
    /\ poolState \in {"open", "stopping"}
    /\ \E o \in Messages : Forgettable(o)
    /\ objects' = [o \in Messages |-> IF Forgettable(o) THEN Unknown ELSE objects[o]]
    /\ UNCHANGED <<useRefCount, lastUsed, idle, made, borrower, tick, poolState>>

StopLoop ==
    /\ poolState = "stopping"
    /\ poolState' = "stopped"
    /\ UNCHANGED <<useRefCount, objects, lastUsed, idle, made, borrower, tick>>

ClosePool ==
    /\ \/ poolState = "open" /\ poolState' = "stopping" /\ objects' = objects
       \/ poolState = "stopped" /\ poolState' = "closed" /\ objects' = [o \in Messages |-> Unknown]
    /\ UNCHANGED <<useRefCount, lastUsed, idle, made, borrower, tick>>

(* The garbage collector empties a sync.Pool when it likes.                *)
Collect ==
    /\ \E o \in idle : idle' = idle \ {o}
    /\ UNCHANGED <<useRefCount, objects, lastUsed, made, borrower, tick, poolState>>

TickPasses ==
    /\ tick < LastTick /\ tick' = tick + 1
    /\ UNCHANGED <<useRefCount, objects, lastUsed, idle, made, borrower, poolState>>

MessagePoolInit ==
    \E refs \in BOOLEAN, n \in 0 .. Cardinality(Messages) : NewMessagePool(refs, 1 .. n)

MessagePoolNext ==
    \/ \E b \in Borrowers : TakeIdle(b) \/ MakeObject(b) \/ GetObject(b) \/ PutObject(b)
    \/ CleanupPool \/ StopLoop \/ ClosePool \/ Collect \/ TickPasses

MessagePoolSpec == MessagePoolInit /\ [][MessagePoolNext]_messagePoolVars

-----------------------------------------------------------------------------
(* Every variable has its type; no count falls below zero.                 *)
MessagePoolTypeOK ==
    /\ useRefCount \in BOOLEAN /\ objects \in [Messages -> Unknown .. 2]
    /\ lastUsed \in [Messages -> 0 .. LastTick] /\ tick \in 0 .. LastTick
    /\ idle \subseteq made /\ made \subseteq Messages
    /\ borrower \in [Borrowers -> [pc: {"free", "taken", "using"}, obj: Messages \cup {Nothing}]]
    /\ poolState \in {"open", "stopping", "stopped", "closed"}

(* With reference counts, an object that lies idle counts no reference, so *)
(* that the cleanup may forget it, and one in use that the map knows       *)
(* counts one, so that the cleanup spares it, although Get takes and       *)
(* counts in two steps and Close empties the map under its users (Get,     *)
(* Put, cleanup).                                                          *)
ReferencesMatch ==
    useRefCount =>
        /\ \A o \in idle \cap Known : objects[o] = 0
        /\ \A b \in Borrowers : borrower[b].pc = "using" /\ borrower[b].obj \in Known
                                => objects[borrower[b].obj] >= 1

(* The pool never keeps more than MaxPoolSize objects it knows idle,       *)
(* however many were in use at once (Put).                                 *)
IdleWithinMax == Cardinality(idle \cap Known) <= MaxPoolSize

(* Reference counts match the users, and the idle objects keep within      *)
(* MaxPoolSize (Get, Put, cleanup, Close).                                 *)
PoolAccounts == MessagePoolTypeOK /\ ReferencesMatch /\ IdleWithinMax
=============================================================================
