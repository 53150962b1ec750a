------------------------------ MODULE MCCalls -------------------------------
(* How a client's calls go out, for TLC, one part in each behaviour, as    *)
(* subject says: Dial, the cluster calls and the retries.                  *)
EXTENDS Cluster, Client, Retry

CONSTANTS c1, c2, c3

VARIABLE subject

vars == <<subject, clusterVars, clientVars, retryVars>>

(* The initial state of what is not the subject.                           *)
Rest(s) ==
    /\ s # "cluster" => NewClusterBuilder("broadcast", {})
    /\ s # "client" => NewClient(TRUE, TRUE, TRUE)
    /\ s # "retry" => NewRetryInterceptor /\ Enabled = TRUE
Init ==
    /\ subject \in {"cluster", "client", "retry"}
    /\ subject = "cluster" => ClusterInit
    /\ subject = "client" => ClientInit
    /\ subject = "retry" => NewRetryInterceptor
    /\ Rest(subject)
OnlyCluster(A) == subject = "cluster" /\ A /\ UNCHANGED <<subject, clientVars, retryVars>>
OnlyClient(A) == subject = "client" /\ A /\ UNCHANGED <<subject, clusterVars, retryVars>>
OnlyRetry(A) == subject = "retry" /\ A /\ UNCHANGED <<subject, clusterVars, clientVars>>
Next == OnlyCluster(ClusterNext) \/ OnlyClient(ClientNext) \/ OnlyRetry(RetryNext)

(* The fairness of the modules, for the one that runs.                     *)
Fair ==
    /\ WF_vars(OnlyCluster(Program))
    /\ \A d \in Dialers : WF_vars(OnlyClient(DialStep(d))) /\ WF_vars(OnlyClient(ContextOver(d)))
    /\ \A c \in Calls : WF_vars(OnlyRetry(Proceed(c)))
Spec == Init /\ [][Next]_vars /\ Fair

(* Whatever is called returns: a cluster call that is cancelled, a Dial    *)
(* whose context ends, and a call with retries, within its attempts        *)
(* (cluster/, client.go, retry.go).                                        *)
CallsReturnAtLast == CancelledCallReturns /\ DialReturns /\ EveryCallReturns
=============================================================================
