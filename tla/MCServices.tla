----------------------------- MODULE MCServices -----------------------------
(* How services are found and served, for TLC: the resolver or the server, *)
(* as subject says.                                                        *)
EXTENDS Resolver, Server

VARIABLE subject

vars == <<subject, resolverVars, serverVars>>

Init ==
    \/ subject = "resolver" /\ ResolverInit /\ NewServer(TRUE)
    \/ subject = "server" /\ ServerInit /\ NewResolver(TRUE, TRUE, {})
OnlyResolver(A) == subject = "resolver" /\ A /\ UNCHANGED <<subject, serverVars>>
OnlyServer(A) == subject = "server" /\ A /\ UNCHANGED <<subject, resolverVars>>
Next == OnlyResolver(ResolverNext) \/ OnlyServer(ServerNext)

(* The fairness of the two modules, for the one that runs.                 *)
Fair ==
    /\ \A g \in Routines : WF_vars(OnlyResolver(ResolveStep(g))) /\ SF_vars(OnlyResolver(Leave(g)))
    /\ WF_vars(OnlyResolver(Event)) /\ SF_vars(OnlyResolver(Tick)) /\ WF_vars(OnlyResolver(Subscribe))
    /\ WF_vars(OnlyResolver(Waited)) /\ WF_vars(OnlyResolver(Recover)) /\ WF_vars(OnlyResolver(Expire))
    /\ \A s \in Starters : WF_vars(OnlyServer(~crashed /\ StartStep(s)))
    /\ \A c \in AllClosers : WF_vars(OnlyServer(~crashed /\ CloseStep(c)))
    /\ SF_vars(OnlyServer(~crashed /\ BeginClose(Handler))) /\ WF_vars(OnlyServer(~crashed /\ HandlerEnds))
    /\ WF_vars(OnlyServer(~crashed /\ NilListener))
Spec == Init /\ [][Next]_vars /\ Fair

(* Shutting down ends: Close of the resolver returns although its          *)
(* goroutines wait, retry and resolve, and a signal stops the server,      *)
(* unless the registry refuses (resolver.go Close, server.go               *)
(* handleSignals).                                                         *)
ShutdownEnds == CloseReturns /\ SignalStops
=============================================================================
