----------------------------- MODULE MCMessages -----------------------------
(* BatchProcessor and Backpressure for TLC: one of the two runs, as        *)
(* subject says.                                                           *)
EXTENDS BatchProcessor, Backpressure

CONSTANTS i1, i2, i3, w1, w2, s1, s2, s4, s5, m1, m2

(* Two streams on one method, a server and a client stream on another.     *)
MethodOf == [s \in Streams |-> IF s \in {s4, s5} THEN m2 ELSE m1]

VARIABLE subject

messagesVars == <<subject, vars, bpVars>>

MessagesInit ==
    \/ subject = "batch" /\ Init /\ BackpressureInit /\ BlockOnFull = TRUE
    \/ subject = "stream" /\ BackpressureInit /\ Init /\ WaitForBatch = TRUE
Batch(A) == subject = "batch" /\ A /\ UNCHANGED <<subject, bpVars>>
Stream(A) == subject = "stream" /\ A /\ UNCHANGED <<subject, vars>>
MessagesNext == Batch(Next) \/ Stream(BackpressureNext)

(* The fairness of the two modules, for the one that runs; the steps of    *)
(* one call, or of one sender, which it takes one after the other, share   *)
(* one condition.                                                          *)
SenderEnds(s) == Timeout(s) \/ CountMessage(s) \/ MessageSent(s)
MessagesFair ==
    /\ \A i \in Items : WF_messagesVars(Batch(Runs /\ (CallStep(i) \/ CtxDone(i))))
    /\ \A w \in Workers : WF_messagesVars(Batch(Runs /\ WorkerStep(w)))
    /\ WF_messagesVars(Batch(Runs /\ TimerFires))
    /\ WF_messagesVars(Batch(Runs /\ closer # "no" /\ CloseStep))
    /\ \A s \in Streams : WF_messagesVars(Stream(SenderEnds(s) /\ UNCHANGED BlockOnFull))
MessagesSpec == MessagesInit /\ [][MessagesNext]_messagesVars /\ MessagesFair

(* Nobody waits for ever: calls whose context ends return, full batches    *)
(* are processed unless a worker was crashed, and SendMsg returns from a   *)
(* full buffer (Process, handleRequest, SendMsg).                          *)
NobodyWaitsForever == BatchesMove /\ SendReturns
=============================================================================
