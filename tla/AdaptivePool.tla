---------------------------- MODULE AdaptivePool ----------------------------
(***************************************************************************)
(* internal/connpool/adaptive_pool.go: a connPool whose MaxActive a load   *)
(* monitor changes and whose idle connections a health checker prunes.     *)
(* Get, Put and Status are the base pool's.                                *)
(***************************************************************************)
EXTENDS ConnPool

CONSTANTS
    MinConnections, MaxConnections,
    HighLoad, LowLoad,          \* load thresholds, in percent
    ScaleUp, ScaleDown          \* scale factors, in percent

ASSUME ScaleAssumption ==
    /\ {MinConnections, MaxConnections, HighLoad, LowLoad, ScaleUp, ScaleDown} \subseteq Nat
    /\ MinConnections \in 1 .. MaxConnections
    /\ InitMaxActive \in MinConnections .. MaxConnections

VARIABLES
    health,     \* the health checker goroutine
    monitor,    \* the load monitor goroutine
    seen        \* the Status it read, used after p.mu was released

avars == <<vars, health, monitor, seen>>

ATypeOK ==
    /\ TypeOK
    /\ health \in {"ticking", "unlock", "stopped"}
    /\ monitor \in {"ticking", "unlock-status", "decide", "apply", "unlock-apply", "stopped"}
    /\ seen \in [ActiveCount : Int, MaxActive : Nat, WaitCount : Int]

AInit ==
    /\ Init
    /\ health = "ticking" /\ monitor = "ticking"
    /\ seen = [ActiveCount |-> 0, MaxActive |-> 0, WaitCount |-> 0]

Others == <<Wait, closed, active, waitCount, expired, returned, pc, conn, waitVars,
            closer, cleaner>>

-----------------------------------------------------------------------------
(* checkHealth(): any set of idle connections may turn out unhealthy; the  *)
(* lock is held while their states are awaited.                            *)
CheckHealthKeeps ==     \* mutant: closed connections stay idle
    /\ health = "ticking" /\ Lock
    /\ \E bad \in SUBSET ToSet(idle) : open' = open \ bad
    /\ health' = "unlock"
    /\ UNCHANGED <<Others, maxActive, idle, monitor, seen>>

CheckHealthDrops ==     \* mutant: unhealthy connections are dropped, not closed
    /\ health = "ticking" /\ Lock
    /\ \E bad \in SUBSET ToSet(idle) :
         idle' = Without(bad)
    /\ health' = "unlock"
    /\ UNCHANGED <<Others, maxActive, open, monitor, seen>>

CheckHealth ==
    /\ health = "ticking" /\ Lock
    /\ \E bad \in SUBSET ToSet(idle) :
         /\ idle' = Without(bad)
         /\ open' = open \ bad
    /\ health' = "unlock"
    /\ UNCHANGED <<Others, maxActive, monitor, seen>>

HealthUnlock ==
    /\ health = "unlock" /\ Unlock
    /\ health' = "ticking"
    /\ UNCHANGED <<Others, maxActive, idle, open, monitor, seen>>

-----------------------------------------------------------------------------
(* checkAndAdjustPool(), after the cooldown *)
ReadStatus ==
    /\ monitor = "ticking" /\ Lock
    /\ seen' = [ActiveCount |-> active, MaxActive |-> maxActive, WaitCount |-> waitCount]
    /\ monitor' = "unlock-status"
    /\ UNCHANGED <<Others, maxActive, idle, open, health>>

StatusUnlock ==
    /\ monitor = "unlock-status" /\ Unlock
    /\ monitor' = "decide"
    /\ UNCHANGED <<Others, maxActive, idle, open, health, seen>>

HighSeen == seen.MaxActive > 0 /\ seen.ActiveCount * 100 >= HighLoad * seen.MaxActive

LowSeen ==
    /\ ~HighSeen /\ seen.WaitCount = 0
    /\ seen.MaxActive > 0 => seen.ActiveCount * 100 <= LowLoad * seen.MaxActive

(* int(float64(max) * factor), then the configured bound *)
ScaledUpUnbounded == (seen.MaxActive * ScaleUp) \div 100    \* mutant: no upper bound

ScaledUp ==
    LET n == (seen.MaxActive * ScaleUp) \div 100
    IN  IF n > MaxConnections THEN MaxConnections ELSE n

ScaledDown ==
    LET n == (seen.MaxActive * ScaleDown) \div 100
    IN  IF n < MinConnections THEN MinConnections ELSE n

NewMaxActive ==
    IF HighSeen /\ ScaledUp > seen.MaxActive THEN ScaledUp
    ELSE IF LowSeen /\ ScaledDown < seen.MaxActive THEN ScaledDown
    ELSE seen.MaxActive

Decide ==
    /\ monitor = "decide" /\ mu # "fatal"
    /\ monitor' = IF NewMaxActive # seen.MaxActive THEN "apply" ELSE "ticking"
    /\ UNCHANGED <<mu, Others, maxActive, idle, open, health, seen>>

Apply ==
    /\ monitor = "apply" /\ Lock
    /\ maxActive' = NewMaxActive
    /\ monitor' = "unlock-apply"
    /\ UNCHANGED <<Others, idle, open, health, seen>>

ApplyUnlock ==
    /\ monitor = "unlock-apply" /\ Unlock
    /\ monitor' = "ticking"
    /\ UNCHANGED <<Others, maxActive, idle, open, health, seen>>

(* Close() stops both goroutines, each where it waits for its next tick (a *)
(* stop before the base pool is closed looks like a goroutine not running),*)
(* then closes the base pool.                                              *)
StopHealth ==
    /\ closer # "no" /\ health = "ticking"
    /\ health' = "stopped"
    /\ UNCHANGED <<vars, monitor, seen>>

StopMonitor ==
    /\ closer # "no" /\ monitor = "ticking"
    /\ monitor' = "stopped"
    /\ UNCHANGED <<vars, health, seen>>

ANext ==
    \/ Next /\ UNCHANGED <<health, monitor, seen>>
    \/ CheckHealth \/ HealthUnlock
    \/ ReadStatus \/ StatusUnlock \/ Decide \/ Apply \/ ApplyUnlock
    \/ StopHealth \/ StopMonitor

ASpec == AInit /\ [][ANext]_avars

-----------------------------------------------------------------------------
(* Properties *)

(* However often the monitor scales, MaxActive stays within the configured *)
(* bounds.                                                                 *)
MaxActiveInRange == maxActive \in MinConnections .. MaxConnections

(* Idle connections count towards the limit although no code adds the two: *)
(* a connection is made only when none is idle or in place of an expired   *)
(* one.  So the pool never holds more than the largest MaxActive it may be *)
(* given, although the monitor sets it from a Status that is stale by then.*)
TotalWithinMaxConnections == ~closed => active + Len(idle) <= MaxConnections

(* However the load monitor scales, from a status that may be old,         *)
(* MaxActive stays in its range and the connections in all within          *)
(* MaxConnections (checkPoolLoad).                                         *)
LimitsHold == ATypeOK /\ MaxActiveInRange /\ TotalWithinMaxConnections
=============================================================================
