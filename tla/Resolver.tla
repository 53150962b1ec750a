------------------------------ MODULE Resolver ------------------------------
(***************************************************************************)
(* resolver.go with registry/etcd: the goroutines that resolve a service   *)
(* (Build's, the watch on the registry's channel, the periodic refresh and *)
(* grpc's ResolveNow) run resolve() at the same time, over one cache, one  *)
(* record of what was pushed last and one grpc connection.                 *)
(***************************************************************************)
EXTENDS Integers, FiniteSets

CONSTANTS
    Servers,            \* the instances that may be registered
    RetryAttempts,      \* retryAttempts
    Fallbacks,          \* the choices of having fallback addresses
    MaxFaults,          \* bound on the changes and outages of the registry
    MaxNow              \* bound on the calls of ResolveNow, made where nothing refreshes periodically

ASSUME ResolverAssumption ==
    /\ IsFiniteSet(Servers) /\ Fallbacks \subseteq BOOLEAN
    /\ {RetryAttempts, MaxFaults, MaxNow} \subseteq Nat

VARIABLES
    fallback,       \* fallback addresses are configured
    periodic,       \* refreshPeriod > 0
    registered,     \* the instances in etcd
    up,             \* etcd answers
    pending,        \* the events the registry's goroutine has yet to send
    channel,        \* the channel of Subscribe: "none", "open", "closed"
    cache, fresh,   \* the cached services, and whether they are younger than the TTL
    lastServices,   \* what was recorded last
    pushed,         \* the addresses grpc has: a set of instances, or Fallback
    routine,        \* where each goroutine is
    services, tries,\* the local variables of resolve, and the turns of retrySubscribe
    resolver,       \* "building", "failed", "open", "closing", "closed"
    overlap,        \* history: a push came between another's push and record
    faults, nows

resolverVars == <<fallback, periodic, registered, up, pending, channel, cache, fresh, lastServices, pushed, routine,
                  services, tries, resolver, overlap, faults, nows>>
registryVars == <<registered, up, pending, channel, faults>>
sharedVars == <<cache, fresh, lastServices, pushed, overlap>>

Routines == {"build", "watch", "refresh", "now"}
Fallback == {"fallback"}
RoutineSteps == {"off", "idle", "subscribe", "retry", "check", "list", "pause", "store", "compare",
          "fallback", "push", "record"}

ResolverTypeOK ==
    /\ registered \subseteq Servers /\ pending \in 0 .. MaxFaults
    /\ channel \in {"none", "open", "closed"}
    /\ cache \subseteq Servers /\ lastServices \subseteq Servers
    /\ pushed \in (SUBSET Servers) \cup {Fallback}
    /\ routine \in [Routines -> RoutineSteps] /\ services \in [Routines -> SUBSET Servers]
    /\ tries \in [Routines -> 0 .. RetryAttempts]
    /\ resolver \in {"building", "failed", "open", "closing", "closed"}

NewResolver(f, p, S) ==
    /\ fallback = f /\ periodic = p /\ registered = S /\ up = TRUE /\ pending = 0 /\ channel = "none"
    /\ cache = {} /\ fresh = FALSE /\ lastServices = {} /\ pushed = {}
    /\ routine = [g \in Routines |-> IF g = "build" THEN "check" ELSE "off"]
    /\ services = [g \in Routines |-> {}] /\ tries = [g \in Routines |-> 0]
    /\ resolver = "building" /\ overlap = FALSE /\ faults = 0 /\ nows = 0

Go(g, s) == routine' = [routine EXCEPT ![g] = s]
Keep(g, S) == services' = [services EXCEPT ![g] = S]

(* resolve() returns.  Build then starts the goroutines, or gives up; the  *)
(* others wait for their next turn.                                        *)
Resolved(g, ok) ==
    /\ services' = [services EXCEPT ![g] = {}] /\ tries' = [tries EXCEPT ![g] = 0]
    /\ IF g # "build" THEN Go(g, "idle") /\ UNCHANGED resolver
       ELSE IF ok THEN /\ routine' = [h \in Routines |-> IF h = "watch" THEN "subscribe"
                                        ELSE IF h = "now" \/ (h = "refresh" /\ periodic) THEN "idle" ELSE "off"]
                       /\ resolver' = "open"
       ELSE Go(g, "off") /\ resolver' = "failed"
    /\ UNCHANGED nows

Closed == resolver \in {"closing", "closed"}

(* resolve(), step by step: the cache, ListServices with its retries,   *)
(* set, hasServiceChanged, UpdateState and recordServices.                 *)
IsValidForever == cache # {}
IsValid == cache # {} /\ fresh
CheckCache(g) ==
    /\ routine[g] = "check"
    /\ IF IsValid THEN Keep(g, cache) /\ Go(g, "compare") ELSE Go(g, "list") /\ UNCHANGED services
    /\ UNCHANGED <<fallback, periodic, registryVars, sharedVars, tries, resolver, nows>>
ListInstances(g) ==
    /\ routine[g] = "list" /\ up
    /\ Keep(g, registered) /\ Go(g, "store")
    /\ UNCHANGED <<fallback, periodic, registryVars, sharedVars, tries, resolver, nows>>
MayRetry(g) == tries[g] < RetryAttempts
ListErr(g) ==
    /\ routine[g] = "list" /\ ~up
    /\ IF MayRetry(g)
       THEN /\ Go(g, "pause") /\ tries' = [tries EXCEPT ![g] = @ + 1]
            /\ UNCHANGED <<services, resolver, nows>>
       ELSE IF fallback THEN Go(g, "fallback") /\ UNCHANGED <<services, tries, resolver, nows>>
       ELSE Resolved(g, FALSE)
    /\ UNCHANGED <<fallback, periodic, registryVars, sharedVars>>
RetryDelayOver(g) ==
    /\ routine[g] = "pause"
    /\ Go(g, "list")
    /\ UNCHANGED <<fallback, periodic, registryVars, sharedVars, services, tries, resolver, nows>>
RetryDelayClosed(g) ==
    /\ routine[g] = "pause" /\ Closed
    /\ Resolved(g, FALSE)
    /\ UNCHANGED <<fallback, periodic, registryVars, sharedVars>>
SetCache(g) ==
    /\ routine[g] = "store"
    /\ cache' = services[g] /\ fresh' = TRUE
    /\ Go(g, "compare")
    /\ UNCHANGED <<fallback, periodic, registryVars, lastServices, pushed, overlap, services, tries, resolver, nows>>
HasServiceChanged(S) == S # lastServices
Compare(g) ==
    /\ routine[g] = "compare"
    /\ IF ~HasServiceChanged(services[g]) /\ services[g] # {} THEN Resolved(g, TRUE)
       ELSE /\ Go(g, IF services[g] = {} /\ fallback THEN "fallback" ELSE "push")
            /\ UNCHANGED <<services, tries, resolver, nows>>
    /\ UNCHANGED <<fallback, periodic, registryVars, sharedVars>>
OthersRecord(g) == \E h \in Routines \ {g} : routine[h] = "record"
PushFallback(g) ==
    /\ routine[g] = "fallback"
    /\ pushed' = Fallback /\ overlap' = (overlap \/ OthersRecord(g))
    /\ Resolved(g, TRUE)
    /\ UNCHANGED <<fallback, periodic, registryVars, cache, fresh, lastServices>>
(* grpc takes an empty list for an error.                                  *)
PushState(g) ==
    /\ routine[g] = "push"
    /\ pushed' = services[g] /\ overlap' = (overlap \/ OthersRecord(g))
    /\ IF services[g] = {} THEN Resolved(g, FALSE)
       ELSE Go(g, "record") /\ UNCHANGED <<services, tries, resolver, nows>>
    /\ UNCHANGED <<fallback, periodic, registryVars, cache, fresh, lastServices>>
RecordedCache(g) == cache
Recorded(g) == services[g]
RecordServices(g) ==
    /\ routine[g] = "record"
    /\ lastServices' = Recorded(g)
    /\ Resolved(g, TRUE)
    /\ UNCHANGED <<fallback, periodic, registryVars, cache, fresh, pushed, overlap>>
ResolveStep(g) ==
    \/ CheckCache(g) \/ ListInstances(g) \/ ListErr(g) \/ RetryDelayOver(g) \/ RetryDelayClosed(g)
    \/ SetCache(g) \/ Compare(g) \/ PushFallback(g) \/ PushState(g) \/ RecordServices(g)

(* What starts a resolve: an event, or the closed channel, which is always *)
(* ready; a tick; grpc.                                                    *)
Resolves(g) == routine[g] = "idle" /\ Go(g, "check")
Event ==
    /\ \/ channel = "open" /\ pending > 0 /\ pending' = pending - 1
       \/ channel = "closed" /\ UNCHANGED pending
    /\ Resolves("watch")
    /\ UNCHANGED <<fallback, periodic, registered, up, channel, faults, sharedVars, services, tries, resolver, nows>>
Tick ==
    /\ Resolves("refresh")
    /\ UNCHANGED <<fallback, periodic, registryVars, sharedVars, services, tries, resolver, nows>>
ResolveNow ==
    /\ resolver = "open" /\ ~periodic /\ nows < MaxNow /\ nows' = nows + 1
    /\ Resolves("now")
    /\ UNCHANGED <<fallback, periodic, registryVars, sharedVars, services, tries, resolver>>

(* watch subscribes; retrySubscribe, which nobody waits for, tries again.  *)
Subscribe ==
    /\ routine["watch"] \in {"subscribe", "retry"}
    /\ IF up THEN /\ Go("watch", "idle") /\ tries' = [tries EXCEPT !["watch"] = 0]
                  /\ channel' = "open" /\ pending' = 0
       ELSE /\ IF MayRetry("watch")
               THEN Go("watch", "retry") /\ tries' = [tries EXCEPT !["watch"] = @ + 1]
               ELSE Go("watch", "off") /\ UNCHANGED tries
            /\ UNCHANGED <<channel, pending>>
    /\ UNCHANGED <<fallback, periodic, registered, up, faults, sharedVars, services, resolver, nows>>

(* The select of a goroutine that waits sees the closed closeCh.           *)
SeesCloseNever(g) == routine[g] = "idle" /\ pending = 0
SeesClose(g) == routine[g] = "idle" \/ (g = "watch" /\ routine[g] = "retry")
Leave(g) ==
    /\ g \in {"watch", "refresh"} /\ Closed /\ SeesClose(g)
    /\ Go(g, "off")
    /\ UNCHANGED <<fallback, periodic, registryVars, sharedVars, services, tries, resolver, nows>>

(* Close: closeCh is closed; then the goroutines of the wait group end,    *)
(* which retrySubscribe is not one of.                                     *)
CloseResolver ==
    /\ resolver = "open"
    /\ resolver' = "closing"
    /\ UNCHANGED <<fallback, periodic, registryVars, sharedVars, routine, services, tries, nows>>
GroupDone == routine["refresh"] = "off" /\ routine["watch"] \in {"off", "retry"}
Waited ==
    /\ resolver = "closing" /\ GroupDone
    /\ resolver' = "closed"
    /\ UNCHANGED <<fallback, periodic, registryVars, sharedVars, routine, services, tries, nows>>

(* The registry: servers come and go, etcd is down for a while, and its    *)
(* owner closes it.                                                        *)
Change(S) ==
    /\ faults < MaxFaults /\ S # registered
    /\ registered' = S /\ faults' = faults + 1
    /\ pending' = IF channel = "open" THEN pending + 1 ELSE pending
    /\ UNCHANGED <<fallback, periodic, up, channel, sharedVars, routine, services, tries, resolver, nows>>
Outage ==
    /\ up /\ faults < MaxFaults
    /\ up' = FALSE /\ faults' = faults + 1
    /\ UNCHANGED <<fallback, periodic, registered, pending, channel, sharedVars, routine, services, tries, resolver, nows>>
Recover ==
    /\ ~up
    /\ up' = TRUE
    /\ UNCHANGED <<fallback, periodic, registered, pending, channel, faults, sharedVars, routine, services, tries, resolver, nows>>
CancelWatch ==
    /\ channel = "open" /\ pending = 0
    /\ channel' = "closed"
    /\ UNCHANGED <<fallback, periodic, registered, up, pending, faults, sharedVars, routine, services, tries, resolver, nows>>
Expire ==
    /\ fresh
    /\ fresh' = FALSE
    /\ UNCHANGED <<fallback, periodic, registryVars, cache, lastServices, pushed, overlap, routine, services, tries, resolver, nows>>

ResolverInit == \E f \in Fallbacks, p \in BOOLEAN, S \in SUBSET Servers : NewResolver(f, p, S)
ResolverNext ==
    \/ \E g \in Routines : ResolveStep(g) \/ Leave(g)
    \/ Event \/ Tick \/ ResolveNow \/ Subscribe \/ CloseResolver \/ Waited
    \/ \E S \in SUBSET Servers : Change(S)
    \/ Outage \/ Recover \/ CancelWatch \/ Expire
(* The goroutines run, the ticker ticks, the cache ages, etcd comes back,  *)
(* and a select that is passed often enough chooses every ready case.      *)
ResolverFair ==
    /\ \A g \in Routines : WF_resolverVars(ResolveStep(g)) /\ SF_resolverVars(Leave(g))
    /\ WF_resolverVars(Event) /\ SF_resolverVars(Tick) /\ WF_resolverVars(Subscribe)
    /\ WF_resolverVars(Waited) /\ WF_resolverVars(Recover) /\ WF_resolverVars(Expire)
ResolverSpec == ResolverInit /\ [][ResolverNext]_resolverVars /\ ResolverFair

(* What the resolver has recorded is what grpc has, unless two pushes      *)
(* overlapped or the last push was the fallback or an empty list: those    *)
(* are not recorded, and a record that differs from what grpc has makes    *)
(* the next resolve skip the push that would repair it.                    *)
RecordIsPushed ==
    (~overlap /\ pushed \notin {Fallback, {}} /\ \A g \in Routines : routine[g] # "record")
        => lastServices = pushed

(* Close returns, whatever the goroutines are doing.                       *)
CloseReturns == resolver = "closing" ~> resolver = "closed"

(* When the registry no longer changes, grpc has its instances and keeps   *)
(* them, although events find the cache still valid and a slow resolve     *)
(* pushes an older list: the cache expires and the next tick lists again.  *)
(* Excepted are the cases RecordIsPushed excepts and no periodic refresh.  *)
Converges ==
    <>[](pushed = registered \/ overlap \/ pushed \in {Fallback, {}} \/ registered = {}
         \/ ~periodic \/ resolver # "open")

(* The record of the last push is what gRPC has, but for fallback and      *)
(* empty lists, overlapping pushes and a push whose record is under way    *)
(* (resolve).                                                              *)
RecordRight == ResolverTypeOK /\ RecordIsPushed
=============================================================================
