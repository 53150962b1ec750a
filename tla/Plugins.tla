------------------------------ MODULE Plugins -------------------------------
(***************************************************************************)
(* plugin/plugin.go: the Manager, whose methods hold its mutex while they  *)
(* run, so that each is one step.  Go ranges over the map of plugins in    *)
(* any order, and any plugin may fail to initialise, to register with the  *)
(* grpc server or to close.                                                *)
(***************************************************************************)
EXTENDS Integers, FiniteSets, Sequences, SequencesExt

CONSTANTS
    PluginNames,
    MaxInits        \* bound: calls of Init

ASSUME PluginsAssumption == IsFiniteSet(PluginNames) /\ MaxInits \in Nat

VARIABLES
    plugins,        \* the registered plugins
    initOrder, initComplete,
    attached,       \* the plugins registered with the grpc server
    inits, closes,  \* history: how often each plugin was initialised and closed
    initCalls       \* history: calls of Init

pluginVars == <<plugins, initOrder, initComplete, attached, inits, closes, initCalls>>

Occurrences(p, order) == Cardinality({i \in DOMAIN order : order[i] = p})

PluginsTypeOK ==
    /\ plugins \subseteq PluginNames /\ initOrder \in Seq(plugins) /\ initComplete \in BOOLEAN
    /\ attached \subseteq plugins /\ inits \in [PluginNames -> Nat] /\ closes \in [PluginNames -> Nat]

NewManager ==
    /\ plugins = {} /\ initOrder = <<>> /\ initComplete = FALSE /\ attached = {}
    /\ inits = [p \in PluginNames |-> 0] /\ closes = [p \in PluginNames |-> 0] /\ initCalls = 0

RegisterPlugin(p) ==
    /\ ~initComplete /\ p \notin plugins
    /\ plugins' = plugins \cup {p}
    /\ UNCHANGED <<initOrder, initComplete, attached, inits, closes, initCalls>>

(* Init stops at the first plugin that fails; the ones before it stay in   *)
(* initOrder, and the next Init initialises them again.                    *)
InitPlugins ==
    /\ ~initComplete /\ initCalls < MaxInits
    /\ \E done \in SUBSET plugins :
          /\ \E order \in SetToSeqs(done) : initOrder' = initOrder \o order
          /\ inits' = [p \in PluginNames |-> inits[p] + (IF p \in done THEN 1 ELSE 0)]
          /\ initComplete' = (done = plugins)
    /\ initCalls' = initCalls + 1
    /\ UNCHANGED <<plugins, attached, closes>>

(* Close goes on past a plugin that fails to close.                        *)
ResetOrderNot == initOrder
ResetOrder == <<>>
ToClose(p) == Occurrences(p, Reverse(initOrder))
ClosePlugins ==
    /\ initComplete
    /\ closes' = [p \in PluginNames |-> closes[p] + ToClose(p)]
    /\ initComplete' = FALSE /\ initOrder' = ResetOrder
    /\ UNCHANGED <<plugins, attached, inits, initCalls>>

(* ApplyServerPlugins, up to the first that fails.                         *)
ApplyServerPlugins ==
    /\ initComplete
    /\ \E done \in SUBSET plugins : attached' = attached \cup done
    /\ UNCHANGED <<plugins, initOrder, initComplete, inits, closes, initCalls>>

PluginsNext ==
    InitPlugins \/ ClosePlugins \/ ApplyServerPlugins \/ \E p \in PluginNames : RegisterPlugin(p)
PluginsSpec == NewManager /\ [][PluginsNext]_pluginVars

(* Every initialisation that was not closed is still in initOrder, those   *)
(* of an Init that failed and those of the Init that repeated them too.    *)
OpenIsRemembered ==
    \A p \in PluginNames : inits[p] - closes[p] = Occurrences(p, initOrder)

(* Each plugin that was opened and not closed is in the order by which     *)
(* Close closes, however often Init failed and was repeated (Init, Close). *)
OpenWillBeClosed == PluginsTypeOK /\ OpenIsRemembered
=============================================================================
