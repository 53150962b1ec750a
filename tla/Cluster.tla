------------------------------ MODULE Cluster ------------------------------
(***************************************************************************)
(* The three cluster interceptors (cluster/broadcast, cluster/broadcastall *)
(* and cluster/fastest): one goroutine per instance of the service dials   *)
(* it and invokes the method there.  broadcast collects errors in an       *)
(* errgroup, whose context the first error cancels; the other two send     *)
(* answers on an unbuffered channel, which is closed when the goroutines   *)
(* have ended, to whoever called UseBroadcast.                             *)
(***************************************************************************)
EXTENDS Integers, FiniteSets

CONSTANT Instances          \* the instances the registry lists

ASSUME ClusterAssumption == IsFiniteSet(Instances)

VARIABLES
    cluster,        \* "broadcast", "broadcastall" or "fastest"
    unreachable,    \* the instances that cannot be dialled
    call,           \* the interceptor: "new", "list", "wait", "returned"
    callErr,        \* what it returns: "none", "ok", "error"
    task,           \* the goroutine of each instance
    answer,         \* what each goroutine has got: "none", "ok", "error"
    ctxDone,        \* the caller's context is done
    groupDone,      \* the errgroup's context is cancelled
    groupErr,       \* the errgroup's error
    ch,             \* the channel: "open" or "closed"
    reader,         \* the receiver: "busy", "ready", "gone"
    early,          \* history: it was ready before the first answer came
    received        \* history: the instances whose answer it has got

clusterVars == <<cluster, unreachable, call, callErr, task, answer, ctxDone, groupDone, groupErr, ch,
                 reader, early, received>>

Clusters == {"broadcast", "broadcastall", "fastest"}
ClusterTypeOK ==
    /\ cluster \in Clusters /\ unreachable \subseteq Instances
    /\ call \in {"new", "list", "wait", "returned"} /\ callErr \in {"none", "ok", "error"}
    /\ task \in [Instances -> {"none", "dial", "invoke", "sendError", "send", "end"}]
    /\ answer \in [Instances -> {"none", "ok", "error"}]
    /\ ch \in {"open", "closed"} /\ reader \in {"busy", "ready", "gone"}
    /\ received \subseteq Instances

NewClusterBuilder(k, un) ==
    /\ cluster = k /\ unreachable = un
    /\ call = "new" /\ callErr = "none"
    /\ task = [i \in Instances |-> "none"] /\ answer = [i \in Instances |-> "none"]
    /\ ctxDone = FALSE /\ groupDone = FALSE /\ groupErr = "ok"
    /\ ch = "open" /\ reader = "busy" /\ early = FALSE /\ received = {}

UsesChannel == cluster # "broadcast"
CloseIfUsed == ch' = IF UsesChannel THEN "closed" ELSE ch

(* Without UseBroadcast in the context the call goes through unchanged.    *)
Direct ==
    /\ call = "new"
    /\ call' = "returned" /\ callErr' \in {"ok", "error"}
    /\ UNCHANGED <<cluster, unreachable, task, answer, ctxDone, groupDone, groupErr, ch, reader,
                   early, received>>
Broadcast ==
    /\ call = "new"
    /\ call' = "list"
    /\ UNCHANGED <<cluster, unreachable, callErr, task, answer, ctxDone, groupDone, groupErr, ch,
                   reader, early, received>>

(* ListServices: an error returns (and closes the channel), or one         *)
(* goroutine per instance starts.                                          *)
ListFails ==
    /\ call = "list"
    /\ call' = "returned" /\ callErr' = "error" /\ CloseIfUsed
    /\ UNCHANGED <<cluster, unreachable, task, answer, ctxDone, groupDone, groupErr, reader, early,
                   received>>
ListServices ==
    /\ call = "list"
    /\ call' = "wait"
    /\ task' = [i \in Instances |-> "dial"]
    /\ UNCHANGED <<cluster, unreachable, callErr, answer, ctxDone, groupDone, groupErr, ch, reader,
                   early, received>>

(* errgroup: the first error is kept and cancels the others' context.      *)
GroupReturns(i, a) ==
    /\ answer' = [answer EXCEPT ![i] = a]
    /\ task' = [task EXCEPT ![i] = "end"]
    /\ groupErr' = IF a = "error" THEN "error" ELSE groupErr
    /\ groupDone' = (groupDone \/ a = "error")

Dial(i) ==
    /\ task[i] = "dial"
    /\ IF i \in unreachable
       THEN IF UsesChannel
            THEN /\ task' = [task EXCEPT ![i] = "sendError"]
                 /\ answer' = [answer EXCEPT ![i] = "error"]
                 /\ UNCHANGED <<groupDone, groupErr>>
            ELSE GroupReturns(i, "error")
       ELSE /\ task' = [task EXCEPT ![i] = "invoke"]
            /\ UNCHANGED <<answer, groupDone, groupErr>>
    /\ UNCHANGED <<cluster, unreachable, call, callErr, ctxDone, ch, reader, early, received>>

(* The invoker answers; a context that is done makes it fail.              *)
ContextDone == ctxDone \/ (cluster = "broadcast" /\ groupDone)
InvokeOn(i) ==
    /\ task[i] = "invoke"
    /\ \E a \in {"ok", "error"} :
         /\ ContextDone => a = "error"
         /\ IF UsesChannel
            THEN /\ answer' = [answer EXCEPT ![i] = a]
                 /\ task' = [task EXCEPT ![i] = "send"]
                 /\ UNCHANGED <<groupDone, groupErr>>
            ELSE GroupReturns(i, a)
    /\ UNCHANGED <<cluster, unreachable, call, callErr, ctxDone, ch, reader, early, received>>

(* A send meets a receiver that is ready; a dial error is sent with a      *)
(* plain send, an answer in a select.                                      *)
Deliver(i) ==
    /\ task[i] \in {"sendError", "send"} /\ reader = "ready"
    /\ task' = [task EXCEPT ![i] = "end"]
    /\ received' = received \cup {i}
    /\ reader' = "busy"
    /\ UNCHANGED <<cluster, unreachable, call, callErr, answer, ctxDone, groupDone, groupErr, ch, early>>
(* broadcastall gives up when the context is done, fastest at once.        *)
Drops(i) == \/ cluster = "fastest" /\ reader # "ready"
            \/ cluster = "broadcastall" /\ ctxDone
Drop(i) ==
    /\ task[i] = "send" /\ Drops(i)
    /\ task' = [task EXCEPT ![i] = "end"]
    /\ UNCHANGED <<cluster, unreachable, call, callErr, answer, ctxDone, groupDone, groupErr, ch,
                   reader, early, received>>

(* Wait returns when every goroutine has ended; then the channel is closed.*)
OneEnded == \E i \in Instances : task[i] = "end"
AllEnded == \A i \in Instances : task[i] = "end"
Return ==
    /\ call = "wait" /\ AllEnded
    /\ call' = "returned"
    /\ callErr' = IF UsesChannel THEN "ok" ELSE groupErr
    /\ CloseIfUsed
    /\ UNCHANGED <<cluster, unreachable, task, answer, ctxDone, groupDone, groupErr, reader, early,
                   received>>

(* The caller's side: it becomes ready to receive, stops, or cancels.      *)
ReaderReady ==
    /\ UsesChannel /\ reader = "busy" /\ ch = "open"
    /\ reader' = "ready"
    /\ early' = (early \/ call \in {"new", "list"})
    /\ UNCHANGED <<cluster, unreachable, call, callErr, task, answer, ctxDone, groupDone, groupErr,
                   ch, received>>
ReaderLeaves ==
    /\ UsesChannel /\ reader = "busy"
    /\ reader' = "gone"
    /\ UNCHANGED <<cluster, unreachable, call, callErr, task, answer, ctxDone, groupDone, groupErr,
                   ch, early, received>>
CancelCall ==
    /\ ~ctxDone
    /\ ctxDone' = TRUE
    /\ UNCHANGED <<cluster, unreachable, call, callErr, task, answer, groupDone, groupErr, ch,
                   reader, early, received>>

ClusterInit == \E k \in Clusters, un \in SUBSET Instances : NewClusterBuilder(k, un)
Work(i) == Dial(i) \/ InvokeOn(i) \/ Deliver(i) \/ Drop(i)
Program == Broadcast \/ ListServices \/ Return \/ \E i \in Instances : Work(i)
ClusterNext == Program \/ Direct \/ ListFails \/ ReaderReady \/ ReaderLeaves \/ CancelCall
ClusterFair == WF_clusterVars(Program)
ClusterSpec == ClusterInit /\ [][ClusterNext]_clusterVars /\ ClusterFair

(* Nobody sends on the closed channel: it is closed only when every        *)
(* goroutine has ended or none was started.                                *)
ClosedAfterSenders == ch = "closed" => \A i \in Instances : task[i] \in {"none", "end"}

(* broadcast returns nil only if every instance has answered without an    *)
(* error, whatever the first error makes of the others.                    *)
NilMeansEveryInstance ==
    (cluster = "broadcast" /\ call = "returned" /\ callErr = "ok" /\ \E i \in Instances : task[i] # "none")
        => \A i \in Instances : answer[i] = "ok"

(* A receiver of fastest that waits before the answers come gets one,      *)
(* although every goroutine drops its answer when nobody waits.            *)
EarlyReaderIsServed ==
    (cluster = "fastest" /\ call = "returned" /\ early /\ \E i \in Instances : task[i] = "end")
        => received # {}

(* The call returns once its context is done, also when nobody receives,   *)
(* as long as every instance can be dialled: a dial error is sent without  *)
(* heeding the context.                                                    *)
CancelledCallReturns ==
    (call # "new" /\ ctxDone /\ (unreachable = {} \/ ~UsesChannel)) ~> call = "returned"

(* The answer channel is closed after the last sender, nil from a          *)
(* broadcast means that every instance answered, and a receiver that is    *)
(* ready from the start gets an answer of the fastest call                 *)
(* (BuildUnaryInterceptor).                                                *)
AnswersRight == ClusterTypeOK /\ ClosedAfterSenders /\ NilMeansEveryInstance /\ EarlyReaderIsServed
=============================================================================
