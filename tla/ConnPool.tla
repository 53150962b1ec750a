------------------------------ MODULE ConnPool ------------------------------
(***************************************************************************)
(* The connection pool of internal/connpool/pool.go.                       *)
(*                                                                         *)
(* A Go mutex has no owner: Unlock releases it whoever calls, and on an    *)
(* unlocked mutex it is a fatal error that ends the process.  The pool's   *)
(* waiting path relies on neither being noticed: a goroutine calls         *)
(* p.cond.Wait() without holding p.mu.  Critical sections are therefore    *)
(* two steps, one that locks p.mu and runs the section's statements and    *)
(* one that unlocks; the statements of a section are not interleaved with  *)
(* another's even when mutual exclusion has been lost.                     *)
(***************************************************************************)
EXTENDS Integers, Sequences, SequencesExt, FiniteSets

CONSTANTS
    Callers,        \* goroutines that Get and Close connections
    Conns,          \* identities of connections (a bound on those in use at a time)
    None,           \* no connection
    MaxIdle,        \* Options.MaxIdle
    InitMaxActive,  \* Options.MaxActive, 0 for no limit
    WaitOptions,    \* the values Options.Wait may have
    MaxWaits        \* bound on the number of waits

ASSUME PoolAssumption ==
    /\ IsFiniteSet(Callers) /\ IsFiniteSet(Conns) /\ None \notin Conns
    /\ MaxIdle \in Nat /\ InitMaxActive \in Nat /\ MaxWaits \in Nat
    /\ WaitOptions \subseteq BOOLEAN

VARIABLES
    Wait,       \* Options.Wait, which never changes
    mu,         \* "free", "held", or "fatal" once it was unlocked while free
    closed, idle, active, maxActive, waitCount,     \* fields of connPool
    expired,    \* connections whose lastUsed is more than IdleTimeout ago
    returned,   \* connections whose PoolConn.closed is set
    open,       \* connections made and not yet closed (the ClientConn)
    pc, conn,   \* each caller's place and the connection it refers to
    wait,       \* the wait each caller is in (index into waiter), or 0
    waiter,     \* the goroutine of each wait
    notify,     \* the waits in p.cond's notify list, in order
    closer, cleaner     \* Close() and the cleaner goroutine

poolVars == <<closed, idle, active, maxActive, waitCount>>
connVars == <<expired, returned, open>>
waitVars == <<wait, waiter, notify>>
vars == <<Wait, mu, poolVars, connVars, pc, conn, waitVars, closer, cleaner>>

Waits == 1 .. MaxWaits

(* A caller that is about to unlock is named for what it does next. *)
Unlocking == {"unlock-return", "unlock-using", "unlock-create", "unlock-wait"}

TypeOK ==
    /\ Wait \in WaitOptions
    /\ mu \in {"free", "held", "fatal"}
    /\ closed \in BOOLEAN /\ idle \in Seq(Conns) /\ active \in Nat
    /\ maxActive \in Nat /\ waitCount \in Nat
    /\ expired \subseteq Conns /\ returned \subseteq Conns /\ open \subseteq Conns
    /\ pc \in [Callers -> Unlocking \cup
                 {"out", "creating", "failed", "using", "waiting", "gaveup", "retry"}]
    /\ conn \in [Callers -> Conns \cup {None}]
    /\ wait \in [Callers -> 0 .. MaxWaits]
    /\ waiter \in [Waits -> {"none", "spawned", "added", "parked", "woken", "done"}]
    /\ notify \in Seq(Waits)
    /\ closer \in {"no", "unlock", "yes"} /\ cleaner \in {"ticking", "unlock", "stopped"}

Init ==
    /\ Wait \in WaitOptions
    /\ mu = "free"
    /\ closed = FALSE /\ idle = <<>> /\ active = 0 /\ waitCount = 0
    /\ maxActive = InitMaxActive
    /\ expired = {} /\ returned = {} /\ open = {}
    /\ pc = [c \in Callers |-> "out"]
    /\ conn = [c \in Callers |-> None]
    /\ wait = [c \in Callers |-> 0]
    /\ waiter = [w \in Waits |-> "none"]
    /\ notify = <<>>
    /\ closer = "no" /\ cleaner = "ticking"

-----------------------------------------------------------------------------
(* p.mu *)
Lock == mu = "free" /\ mu' = "held"
Unlock == mu # "fatal" /\ mu' = IF mu = "held" THEN "free" ELSE "fatal"

Goto(c, place) == pc' = [pc EXCEPT ![c] = place]

(* getIdleConn() pops the last idle connection; an expired one is closed   *)
(* and nil returned, whatever else is idle.                                *)
IdleHit == idle # <<>> /\ Last(idle) \notin expired

Pop == idle' = IF idle = <<>> THEN idle ELSE Front(idle)

PopExpired == Pop /\ open' = IF idle = <<>> THEN open ELSE open \ {Last(idle)}

Room == maxActive = 0 \/ active < maxActive

TakeIdle(c) ==
    /\ IdleHit
    /\ Pop
    /\ conn' = [conn EXCEPT ![c] = Last(idle)]
    /\ active' = active + 1
    /\ Goto(c, "unlock-using")
    /\ UNCHANGED <<closed, maxActive, connVars>>

StartCreate(c) ==
    /\ ~IdleHit /\ Room
    /\ PopExpired
    /\ active' = active + 1
    /\ Goto(c, "unlock-create")
    /\ UNCHANGED <<closed, maxActive, expired, returned, conn>>

-----------------------------------------------------------------------------
(* Get(ctx) *)
GetClosed(c) ==
    /\ pc[c] = "out" /\ Lock /\ closed
    /\ Goto(c, "unlock-return")
    /\ UNCHANGED <<poolVars, connVars, conn, waitVars, closer, cleaner>>

GetOpen(c) ==
    /\ pc[c] = "out" /\ Lock /\ ~closed
    /\ TakeIdle(c) \/ StartCreate(c)
    /\ UNCHANGED <<waitCount, waitVars, closer, cleaner>>

GetExhausted(c) ==
    /\ pc[c] = "out" /\ Lock /\ ~closed
    /\ ~IdleHit /\ ~Room /\ ~Wait
    /\ PopExpired
    /\ Goto(c, "unlock-return")
    /\ UNCHANGED <<closed, active, maxActive, waitCount, expired, returned,
                   conn, waitVars, closer, cleaner>>

(* The goroutine that will call p.cond.Wait() is started under the lock.   *)
GetWait(c) ==
    /\ pc[c] = "out" /\ Lock /\ ~closed
    /\ ~IdleHit /\ ~Room /\ Wait
    /\ PopExpired
    /\ waitCount' = waitCount + 1
    /\ \E w \in Waits :
         /\ waiter[w] = "none" /\ \A v \in 1 .. w - 1 : waiter[v] # "none"
         /\ waiter' = [waiter EXCEPT ![w] = "spawned"]
         /\ wait' = [wait EXCEPT ![c] = w]
    /\ Goto(c, "unlock-wait")
    /\ UNCHANGED <<closed, active, maxActive, expired, returned, conn, notify,
                   closer, cleaner>>

AfterUnlock(place) ==
    CASE place = "unlock-return" -> "out"
      [] place = "unlock-using"  -> "using"
      [] place = "unlock-create" -> "creating"
      [] place = "unlock-wait"   -> "waiting"

CallerUnlock(c) ==
    /\ pc[c] \in Unlocking
    /\ Unlock
    /\ Goto(c, AfterUnlock(pc[c]))
    /\ UNCHANGED <<poolVars, connVars, conn, waitVars, closer, cleaner>>

(* p.factory runs without the lock.  The connection it makes is none that  *)
(* is open or that somebody still refers to.                               *)
InUse == open \cup ToSet(idle) \cup {conn[c] : c \in Callers}

FactoryOK(c) ==
    /\ pc[c] = "creating" /\ mu # "fatal"
    /\ \E k \in Conns \ InUse :
         /\ conn' = [conn EXCEPT ![c] = k]
         /\ open' = open \cup {k}
         /\ expired' = expired \ {k} /\ returned' = returned \ {k}
    /\ Goto(c, "using")
    /\ UNCHANGED <<mu, poolVars, waitVars, closer, cleaner>>

FactoryErr(c) ==
    /\ pc[c] = "creating" /\ mu # "fatal"
    /\ Goto(c, "failed")
    /\ UNCHANGED <<mu, poolVars, connVars, conn, waitVars, closer, cleaner>>

(* Mutant of UndoActive: a factory error keeps its slot. *)
UndoActiveForgets(c) ==
    /\ pc[c] = "failed" /\ Lock
    /\ Goto(c, "unlock-return")
    /\ UNCHANGED <<poolVars, connVars, conn, waitVars, closer, cleaner>>

UndoActive(c) ==
    /\ pc[c] = "failed" /\ Lock
    /\ active' = active - 1
    /\ Goto(c, "unlock-return")
    /\ UNCHANGED <<closed, idle, maxActive, waitCount, connVars, conn, waitVars,
                   closer, cleaner>>

(* select: waitDone, the timer or ctx.Done() *)
WaitOver(c) ==
    /\ pc[c] = "waiting" /\ mu # "fatal"
    /\ \/ waiter[wait[c]] = "done" /\ Goto(c, "retry")
       \/ Goto(c, "gaveup")
    /\ wait' = [wait EXCEPT ![c] = 0]
    /\ UNCHANGED <<mu, poolVars, connVars, conn, waiter, notify, closer, cleaner>>

GiveUp(c) ==
    /\ pc[c] = "gaveup" /\ Lock
    /\ waitCount' = waitCount - 1
    /\ Goto(c, "unlock-return")
    /\ UNCHANGED <<closed, idle, active, maxActive, connVars, conn, waitVars,
                   closer, cleaner>>

Retry(c) ==
    /\ pc[c] = "retry" /\ Lock
    /\ waitCount' = waitCount - 1
    /\ \/ /\ ~closed
          /\ TakeIdle(c) \/ StartCreate(c)
       \/ /\ closed
          /\ Goto(c, "unlock-return")
          /\ UNCHANGED <<closed, idle, active, maxActive, connVars, conn>>
       \/ /\ ~closed /\ ~IdleHit /\ ~Room
          /\ PopExpired
          /\ Goto(c, "unlock-return")
          /\ UNCHANGED <<closed, active, maxActive, expired, returned, conn>>
    /\ UNCHANGED <<waitVars, closer, cleaner>>

-----------------------------------------------------------------------------
(* The goroutine of a wait: p.cond.Wait() is notifyListAdd, L.Unlock,      *)
(* notifyListWait, L.Lock; then close(waitDone).  It never unlocks again.  *)
WaiterAdd(w) ==
    /\ waiter[w] = "spawned" /\ mu # "fatal"
    /\ waiter' = [waiter EXCEPT ![w] = "added"]
    /\ notify' = Append(notify, w)
    /\ UNCHANGED <<mu, poolVars, connVars, pc, conn, wait, closer, cleaner>>

WaiterUnlock(w) ==
    /\ waiter[w] = "added"
    /\ Unlock
    /\ waiter' = [waiter EXCEPT ![w] = IF Contains(notify, w) THEN "parked" ELSE "woken"]
    /\ UNCHANGED <<poolVars, connVars, pc, conn, wait, notify, closer, cleaner>>

WaiterLock(w) ==
    /\ waiter[w] = "woken"
    /\ Lock
    /\ waiter' = [waiter EXCEPT ![w] = "done"]
    /\ UNCHANGED <<poolVars, connVars, pc, conn, wait, notify, closer, cleaner>>

Wake(ws) ==     \* the parked goroutines among ws run again
    waiter' = [w \in Waits |-> IF w \in ws /\ waiter[w] = "parked" THEN "woken"
                               ELSE waiter[w]]

Signal ==
    IF notify = <<>> THEN UNCHANGED <<waiter, notify>>
    ELSE Wake({Head(notify)}) /\ notify' = Tail(notify)

Broadcast == Wake(ToSet(notify)) /\ notify' = <<>>

-----------------------------------------------------------------------------
(* PoolConn.Close() and Put(conn) *)
PutClosed(c, k) ==
    /\ closed
    /\ returned' = returned \cup {k} /\ open' = open \ {k}
    /\ UNCHANGED <<poolVars, expired, waiter, notify>>

(* With callers waiting the connection is neither kept nor closed. *)
PutSignal(c, k) ==
    /\ ~closed /\ waitCount > 0
    /\ active' = active - 1
    /\ expired' = expired \ {k}
    /\ Signal
    /\ UNCHANGED <<closed, idle, maxActive, waitCount, returned, open>>

PutIdle(c, k) ==
    /\ ~closed /\ waitCount <= 0
    /\ active' = active - 1
    /\ expired' = expired \ {k}
    /\ IF MaxIdle > 0 /\ Len(idle) < MaxIdle
       THEN idle' = Append(idle, k) /\ open' = open
       ELSE idle' = idle /\ open' = open \ {k}
    /\ UNCHANGED <<closed, maxActive, waitCount, returned, waiter, notify>>

(* The caller gives its connection back, once: Put resets PoolConn.closed, *)
(* so the pool does not protect itself from a second Close.                *)
CloseConn(c) ==
    LET k == conn[c] IN
    /\ pc[c] = "using" /\ k \notin returned
    /\ Lock
    /\ PutClosed(c, k) \/ PutSignal(c, k) \/ PutIdle(c, k)
    /\ conn' = [conn EXCEPT ![c] = None]
    /\ Goto(c, "unlock-return")
    /\ UNCHANGED <<wait, closer, cleaner>>

-----------------------------------------------------------------------------
(* Close() of the pool *)
ClosePool ==
    /\ closer = "no" /\ Lock
    /\ closed' = TRUE
    /\ open' = open \ ToSet(idle)
    /\ idle' = <<>>
    /\ Broadcast
    /\ closer' = "unlock"
    /\ UNCHANGED <<active, maxActive, waitCount, expired, returned, pc, conn, wait,
                   cleaner>>

ClosePoolUnlock ==
    /\ closer = "unlock" /\ Unlock
    /\ closer' = "yes"
    /\ UNCHANGED <<poolVars, connVars, pc, conn, waitVars, cleaner>>

(* The idle connections without those in gone, in the order they were in.  *)
Without(gone) ==
    LET kept == {i \in DOMAIN idle : idle[i] \notin gone}
        place(i) == Cardinality({j \in kept : j <= i})
    IN  [n \in 1 .. Cardinality(kept) |-> idle[CHOOSE i \in kept : place(i) = n]]

(* A tick of the cleaner. *)
Clean ==
    /\ cleaner = "ticking" /\ Lock
    /\ IF closed THEN UNCHANGED <<idle, open>>
       ELSE /\ idle' = Without(expired)
            /\ open' = open \ (ToSet(idle) \cap expired)
    /\ cleaner' = "unlock"
    /\ UNCHANGED <<closed, active, maxActive, waitCount, expired, returned, pc,
                   conn, waitVars, closer>>

CleanUnlock ==
    /\ cleaner = "unlock" /\ Unlock
    /\ cleaner' = IF closed THEN "stopped" ELSE "ticking"
    /\ UNCHANGED <<poolVars, connVars, pc, conn, waitVars, closer>>

(* Time passes: IdleTimeout is over for the idle connection used longest ago. *)
Expire ==
    /\ mu # "fatal"
    /\ \E i \in DOMAIN idle :
         /\ idle[i] \notin expired /\ \A j \in 1 .. i - 1 : idle[j] \in expired
         /\ expired' = expired \cup {idle[i]}
    /\ UNCHANGED <<mu, poolVars, returned, open, pc, conn, waitVars, closer, cleaner>>

CallerNext(c) ==
    \/ GetClosed(c) \/ GetOpen(c) \/ GetExhausted(c) \/ GetWait(c)
    \/ CallerUnlock(c) \/ FactoryOK(c) \/ FactoryErr(c) \/ UndoActive(c)
    \/ WaitOver(c) \/ GiveUp(c) \/ Retry(c) \/ CloseConn(c)

WaiterNext(w) == WaiterAdd(w) \/ WaiterUnlock(w) \/ WaiterLock(w)

Next ==
    /\ \/ \E c \in Callers : CallerNext(c)
       \/ \E w \in Waits : WaiterNext(w)
       \/ ClosePool \/ ClosePoolUnlock \/ Clean \/ CleanUnlock \/ Expire
    /\ UNCHANGED Wait

Spec == Init /\ [][Next]_vars

-----------------------------------------------------------------------------
(* Properties *)

(* The callers that count as active: one that has a connection or is       *)
(* making one.                                                             *)
Creating == {c \in Callers : pc[c] \in {"unlock-create", "creating", "failed"}}
Holding == {c \in Callers : pc[c] \in {"unlock-using", "using"}}

(* p.active is exactly the callers that have a connection or are making    *)
(* one, factory errors and expired connections included, until the pool is *)
(* closed.                                                                 *)
ActiveExact == ~closed => active = Cardinality(Creating \cup Holding)

(* A connection is lent to one caller, or idle once, and not both.         *)
ExclusiveUse ==
    /\ \A c, d \in Holding : c # d => conn[c] # conn[d]
    /\ \A c \in Holding : ~Contains(idle, conn[c])
    /\ \A i, j \in DOMAIN idle : i # j => idle[i] # idle[j]

(* Get never returns a connection the pool has closed, and none is closed  *)
(* while it is lent, by Close() of the pool or by the cleaner.             *)
LentStayOpen == \A c \in Holding : conn[c] \in open

(* Every connection that has not been closed is lent or idle; after Close  *)
(* and the return of the last one none is left open.  With Options.Wait it *)
(* does not hold: PutSignal drops a connection that stays open.            *)
NoLeak == ~Wait => open \subseteq {conn[c] : c \in Holding} \cup ToSet(idle)

(* waitCount is the number of callers between p.waitCount++ and            *)
(* p.waitCount--, whichever way their wait ends.                           *)
WaitCountExact ==
    waitCount =
      Cardinality({c \in Callers : pc[c] \in {"unlock-wait", "waiting", "gaveup", "retry"}})

(* Both counters are exact at any time: active counts the connections lent *)
(* or being made, also when the factory fails, and waitCount the callers   *)
(* between Wait and their way out (Get, Put).                              *)
CountersExact == ActiveExact /\ WaitCountExact

(* A connection has one user, and nobody closes it under that user: not    *)
(* the cleaner, not the health checker, not Close of the pool (Get, Put,   *)
(* Close, cleaner).                                                        *)
UsedByOne == ExclusiveUse /\ LentStayOpen
=============================================================================
