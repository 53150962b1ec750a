------------------------------- MODULE Server -------------------------------
(***************************************************************************)
(* server.go: Start, Close and the signal handler of one Server, called    *)
(* from several goroutines, with the etcd registry it registers in.  mu is *)
(* held for the whole of Close, but Start only takes it to read and write  *)
(* running.  What grpc.Server and the etcd session do is modelled from how *)
(* the code uses them.                                                     *)
(***************************************************************************)
EXTENDS Integers, FiniteSets

CONSTANTS
    Starters,       \* the goroutines that call Start
    Closers,        \* the goroutines that call Close
    Registries      \* the choices of having a registry

ASSUME ServerAssumption ==
    /\ IsFiniteSet(Starters) /\ IsFiniteSet(Closers) /\ Registries \subseteq BOOLEAN
    /\ "none" \notin Starters \cup Closers     \* which stands for nobody

VARIABLES
    registry,       \* the server has a registry
    mu,             \* who holds the mutex in Close, or NoOne
    running,
    listener,       \* the Start whose listener the field holds, or NoOne
    listening,      \* the Starts whose listener is open
    grpcState,      \* grpc.Server: "new", "serving", "draining", "stopped"
    session,        \* the etcd session: "open" or "closed"
    listed,         \* the Starts whose address is in etcd
    start,          \* where every Start is
    close,          \* where every Close is, the signal handler's included
    handler,        \* handleSignals: "none", "wait", "closing", "over"
    crashed,        \* a nil pointer was followed
    refused         \* history: a Close returned with the registry's error

serverVars == <<registry, mu, running, listener, listening, grpcState, session, listed, start, close,
                handler, crashed, refused>>

NoOne == "none"
Handler == "handler"
AllClosers == Closers \cup {Handler}
StartSteps == {"new", "listen", "register", "serve", "serving", "cleanup", "reset", "ok", "error", "refused"}
CloseSteps == {"new", "unregister", "closeRegistry", "stop", "drain", "end", "ok", "error"}

ServerTypeOK ==
    /\ mu \in AllClosers \cup {NoOne} /\ running \in BOOLEAN
    /\ listener \in Starters \cup {NoOne} /\ listening \subseteq Starters /\ listed \subseteq Starters
    /\ grpcState \in {"new", "serving", "draining", "stopped"} /\ session \in {"open", "closed"}
    /\ start \in [Starters -> StartSteps] /\ close \in [AllClosers -> CloseSteps]
    /\ handler \in {"none", "wait", "closing", "over"} /\ crashed \in BOOLEAN

NewServer(r) ==
    /\ registry = r /\ mu = NoOne /\ running = FALSE /\ listener = NoOne /\ listening = {}
    /\ grpcState = "new" /\ session = "open" /\ listed = {}
    /\ start = [s \in Starters |-> "new"] /\ close = [c \in AllClosers |-> "new"]
    /\ handler = "none" /\ crashed = FALSE /\ refused = FALSE

StartAt(s, p) == start' = [start EXCEPT ![s] = p]
CloseAt(c, p) == close' = [close EXCEPT ![c] = p]

(* Start *)
StartServer(s) ==
    /\ start[s] = "new" /\ mu = NoOne
    /\ IF running THEN StartAt(s, "refused") /\ UNCHANGED running
                  ELSE StartAt(s, "listen") /\ running' = TRUE
    /\ UNCHANGED <<registry, mu, listener, listening, grpcState, session, listed, close, handler, crashed, refused>>
Listen(s) ==
    /\ start[s] = "listen"
    /\ listener' = s /\ listening' = listening \cup {s}
    /\ StartAt(s, IF registry THEN "register" ELSE "serve")
    /\ UNCHANGED <<registry, mu, running, grpcState, session, listed, close, handler, crashed, refused>>
ListenFails(s) ==
    /\ start[s] = "listen"
    /\ listener' = NoOne /\ StartAt(s, "reset")
    /\ UNCHANGED <<registry, mu, running, listening, grpcState, session, listed, close, handler, crashed, refused>>
(* Register puts the address under the lease of the session, which closing *)
(* the session has revoked.                                                *)
LeaseHolds == session = "open"
Register(s) ==
    /\ start[s] = "register" /\ listener # NoOne /\ LeaseHolds
    /\ listed' = listed \cup {listener} /\ StartAt(s, "serve")
    /\ UNCHANGED <<registry, mu, running, listener, listening, grpcState, session, close, handler, crashed, refused>>
RegisterFails(s) ==
    /\ start[s] = "register" /\ listener # NoOne
    /\ StartAt(s, "cleanup")
    /\ UNCHANGED <<registry, mu, running, listener, listening, grpcState, session, listed, close, handler, crashed, refused>>
(* The handler is started; Serve returns at once on a stopped server.      *)
Serve(s) ==
    /\ start[s] = "serve" /\ listener # NoOne
    /\ handler' = IF handler = "none" THEN "wait" ELSE handler
    /\ IF grpcState = "new" THEN grpcState' = "serving" /\ StartAt(s, "serving")
       ELSE UNCHANGED grpcState /\ StartAt(s, "cleanup")
    /\ UNCHANGED <<registry, mu, running, listener, listening, session, listed, close, crashed, refused>>
ServeReturns(s) ==
    /\ start[s] = "serving" /\ grpcState = "stopped"
    /\ listening' = listening \ {s} /\ StartAt(s, "ok")
    /\ UNCHANGED <<registry, mu, running, listener, grpcState, session, listed, close, handler, crashed, refused>>
(* The deferred function of a Start that failed closes the listener the    *)
(* field holds now.                                                        *)
CloseListener(s) ==
    /\ start[s] = "cleanup" /\ listener # NoOne
    /\ listening' = listening \ {listener} /\ StartAt(s, "reset")
    /\ UNCHANGED <<registry, mu, running, listener, grpcState, session, listed, close, handler, crashed, refused>>
NotReset == running' = running
ResetRunning == running' = FALSE
FailStart(s) ==
    /\ start[s] = "reset" /\ mu = NoOne
    /\ ResetRunning /\ StartAt(s, "error")
    /\ UNCHANGED <<registry, mu, listener, listening, grpcState, session, listed, close, handler, crashed, refused>>

(* Close. *)
BeginClose(c) ==
    /\ close[c] = "new" /\ mu = NoOne /\ (c = Handler => handler \in {"closing", "over"})
    /\ IF ~running THEN CloseAt(c, "ok") /\ UNCHANGED mu
       ELSE mu' = c /\ CloseAt(c, IF registry THEN "unregister" ELSE "stop")
    /\ UNCHANGED <<registry, running, listener, listening, grpcState, session, listed, start, handler, crashed, refused>>
UnRegister(c) ==
    /\ close[c] = "unregister" /\ listener # NoOne
    /\ listed' \in {listed, listed \ {listener}}
    /\ CloseAt(c, "closeRegistry")
    /\ UNCHANGED <<registry, mu, running, listener, listening, grpcState, session, start, handler, crashed, refused>>
(* Start and Close read the field without a lock: a Start that has not     *)
(* listened yet, or has failed to, has left nil in it.                     *)
NilListener ==
    /\ listener = NoOne
    /\ \/ \E s \in Starters : start[s] \in {"register", "serve", "cleanup"}
       \/ \E c \in AllClosers : close[c] = "unregister"
    /\ crashed' = TRUE
    /\ UNCHANGED <<registry, mu, running, listener, listening, grpcState, session, listed, start, close, handler, refused>>
(* Closing the session revokes the lease; if that fails Close returns the  *)
(* error, and the lease, no longer kept alive, expires.                    *)
CloseRegistry(c) ==
    /\ close[c] = "closeRegistry"
    /\ session' = "closed" /\ listed' = {}
    /\ CloseAt(c, "stop")
    /\ UNCHANGED <<registry, mu, running, listener, listening, grpcState, start, handler, crashed, refused>>
CloseRegistryFails(c) ==
    /\ close[c] = "closeRegistry"
    /\ CloseAt(c, "error") /\ mu' = NoOne /\ refused' = TRUE
    /\ UNCHANGED <<registry, running, listener, listening, grpcState, session, listed, start, handler, crashed>>
LeaseExpires ==
    /\ refused /\ session = "open"
    /\ session' = "closed" /\ listed' = {}
    /\ UNCHANGED <<registry, mu, running, listener, listening, grpcState, start, close, handler, crashed, refused>>
(* GracefulStop: no new calls; it ends with the last call, or the timeout  *)
(* stops the server.                                                       *)
GracefulStop(c) ==
    /\ close[c] = "stop"
    /\ grpcState' = IF grpcState = "stopped" THEN "stopped" ELSE "draining"
    /\ CloseAt(c, "drain")
    /\ UNCHANGED <<registry, mu, running, listener, listening, session, listed, start, handler, crashed, refused>>
Drained ==
    /\ grpcState = "draining"
    /\ grpcState' = "stopped"
    /\ UNCHANGED <<registry, mu, running, listener, listening, session, listed, start, close, handler, crashed, refused>>
ShutdownTimeout == TRUE
EndClose(c) ==
    /\ close[c] = "drain" /\ (grpcState = "stopped" \/ ShutdownTimeout)
    /\ grpcState' = "stopped"
    /\ running' = FALSE /\ mu' = NoOne /\ CloseAt(c, "ok")
    /\ UNCHANGED <<registry, listener, listening, session, listed, start, handler, crashed, refused>>

(* handleSignals: a signal starts a Close; its end, or the timeout, ends   *)
(* the handler.                                                            *)
Signal ==
    /\ handler = "wait"
    /\ handler' = "closing"
    /\ UNCHANGED <<registry, mu, running, listener, listening, grpcState, session, listed, start, close, crashed, refused>>
HandlerEnds ==
    /\ handler = "closing" /\ close[Handler] \in {"ok", "error"}
    /\ handler' = "over"
    /\ UNCHANGED <<registry, mu, running, listener, listening, grpcState, session, listed, start, close, crashed, refused>>
HandlerStops ==
    /\ handler = "closing" /\ ShutdownTimeout
    /\ close[Handler] \notin {"ok", "error"} /\ mu # NoOne     \* it is in Close, or waits for another
    /\ handler' = "over" /\ grpcState' = "stopped"
    /\ UNCHANGED <<registry, mu, running, listener, listening, session, listed, start, close, crashed, refused>>

StartStep(s) ==
    \/ Listen(s) \/ ListenFails(s) \/ Register(s) \/ RegisterFails(s) \/ Serve(s) \/ ServeReturns(s)
    \/ CloseListener(s) \/ FailStart(s)
CloseStep(c) ==
    UnRegister(c) \/ CloseRegistry(c) \/ CloseRegistryFails(c) \/ GracefulStop(c) \/ EndClose(c)
ServerInit == \E r \in Registries : NewServer(r)
ServerNext ==
    /\ ~crashed
    /\ \/ \E s \in Starters : StartServer(s) \/ StartStep(s)
       \/ \E c \in AllClosers : BeginClose(c) \/ CloseStep(c)
       \/ NilListener \/ LeaseExpires \/ Drained \/ Signal \/ HandlerEnds \/ HandlerStops
(* Goroutines run and the mutex is handed to a waiting handler at last;    *)
(* calls in progress may last for ever, so Drained is not fair.            *)
ServerFair ==
    /\ \A s \in Starters : WF_serverVars(~crashed /\ StartStep(s))
    /\ \A c \in AllClosers : WF_serverVars(~crashed /\ CloseStep(c))
    /\ SF_serverVars(~crashed /\ BeginClose(Handler)) /\ WF_serverVars(~crashed /\ HandlerEnds)
    /\ WF_serverVars(~crashed /\ NilListener)
ServerSpec == ServerInit /\ [][ServerNext]_serverVars /\ ServerFair

(* A server that was closed is not in the registry, also when Start        *)
(* registers it while Close is about to unregister it, and also when the   *)
(* registry could not unregister it.                                       *)
NotListedOnceClosed == (~running /\ mu = NoOne /\ grpcState = "stopped") => listed = {}

(* IsRunning tells the truth: a server that serves is running, and once    *)
(* every Start has returned it is not, whichever of Start and Close comes  *)
(* first, unless the registry could not be closed.                         *)
RunningTellsTruth ==
    (mu = NoOne /\ ~crashed /\ ~refused) =>
        /\ grpcState = "serving" => running
        /\ (\A s \in Starters : start[s] \in {"new", "ok", "error", "refused"}) => ~running

(* A signal stops the server, however long its calls take, unless the      *)
(* registry cannot be closed: then Close returns before it stops anything. *)
SignalStops == handler = "closing" ~> (grpcState = "stopped" \/ refused \/ crashed)

(* A server that was closed is not listed, however Start, Close and the    *)
(* lease are ordered, and running tells whether somebody serves (Start,    *)
(* Close).                                                                 *)
ServerTold == ServerTypeOK /\ NotListedOnceClosed /\ RunningTellsTruth
=============================================================================
