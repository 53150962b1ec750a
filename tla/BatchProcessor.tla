--------------------------- MODULE BatchProcessor ---------------------------
(***************************************************************************)
(* The batch processor of internal/batch/processor.go.                     *)
(*                                                                         *)
(* Callers of Process put requests on reqChan, workers move them into the  *)
(* current batch under p.mu, and the worker that completes a batch runs    *)
(* the process function, still under p.mu.  With WaitForBatch it then puts *)
(* one request per result, without a context, on reqChan.                  *)
(***************************************************************************)
EXTENDS Integers, Sequences, SequencesExt, FiniteSets

CONSTANTS
    Items,          \* one Process call each
    Deadlined,      \* the items whose caller's context has its own deadline
    Expiring,       \* the items whose context is cancelled by the caller or times out
    Workers, BatchSize, QueueSize,      \* Options
    WaitOptions,    \* the values Options.WaitForBatch may have
    ResultReq       \* a request that carries a result and has no context

ASSUME ProcessorAssumption ==
    /\ IsFiniteSet(Items) /\ ResultReq \notin Items
    /\ Deadlined \subseteq Items /\ Expiring \subseteq Items
    /\ IsFiniteSet(Workers) /\ Workers # {}
    /\ BatchSize \in Nat \ {0} /\ QueueSize \in Nat \ {0}
    /\ WaitOptions \subseteq BOOLEAN

VARIABLES
    WaitForBatch,   \* Options.WaitForBatch, which never changes
    reqChan,    \* the queue of requests
    items,      \* p.items, the current batch
    held,       \* whether p.mu is held
    timer,      \* p.timer: "off", "armed", or "fired" with an unread channel
    quit,       \* whether p.quit is closed
    toSend,     \* results of the batch being processed that are not sent yet
    call,       \* where each Process call is
    done,       \* the items whose request context is cancelled or timed out
    answered,   \* the items whose respChan has been written
    worker, req,    \* where each worker is and the request it received
    closer,     \* Close()
    processed,  \* the items given to the process function, in order (history)
    crashed     \* a goroutine panicked

vars == <<WaitForBatch, reqChan, items, held, timer, quit, toSend, call, done,
          answered, worker, req, closer, processed, crashed>>

Returned == {"accepted", "answered", "ctx", "closed"}

Requests == Items \cup {ResultReq}

TypeOK ==
    /\ WaitForBatch \in WaitOptions
    /\ reqChan \in Seq(Requests) /\ Len(reqChan) <= QueueSize
    /\ items \in Seq(Items)
    /\ held \in BOOLEAN /\ quit \in BOOLEAN /\ crashed \in BOOLEAN
    /\ timer \in {"off", "armed", "fired"}
    /\ toSend \in 0 .. BatchSize
    /\ call \in [Items -> {"new", "sending", "queued"} \cup Returned]
    /\ done \subseteq Items /\ answered \subseteq Items
    /\ worker \in [Workers -> {"select", "lock", "batch", "send", "gone"}]
    /\ req \in [Workers -> Requests]
    /\ closer \in {"no", "batch", "send", "quit", "wait", "returned"}
    /\ processed \in Seq(Items)

Init ==
    /\ WaitForBatch \in WaitOptions
    /\ reqChan = <<>> /\ items = <<>> /\ processed = <<>>
    /\ held = FALSE /\ quit = FALSE /\ crashed = FALSE
    /\ timer = "off" /\ toSend = 0
    /\ call = [i \in Items |-> "new"]
    /\ done = {} /\ answered = {}
    /\ worker = [w \in Workers |-> "select"]
    /\ req = [w \in Workers |-> ResultReq]
    /\ closer = "no"

-----------------------------------------------------------------------------
(* Process(ctx, item) *)

(* When it returns, the context it derived for a caller without a deadline *)
(* is cancelled (defer cancel()).                                          *)
Return(i, how) ==
    /\ call' = [call EXCEPT ![i] = how]
    /\ done' = IF i \in Deadlined THEN done ELSE done \cup {i}

Room == Len(reqChan) < QueueSize

Process(i) ==
    /\ call[i] = "new"
    /\ call' = [call EXCEPT ![i] = "sending"]
    /\ UNCHANGED <<reqChan, items, held, timer, quit, toSend, done, answered, worker,
                   req, closer, processed>>

Enqueue(i) ==
    /\ call[i] = "sending" /\ Room
    /\ reqChan' = Append(reqChan, i)
    /\ call' = [call EXCEPT ![i] = "queued"]
    /\ UNCHANGED <<items, held, timer, quit, toSend, done, answered, worker, req,
                   closer, processed>>

ReturnAccepted(i) ==
    /\ call[i] = "queued" /\ ~WaitForBatch
    /\ Return(i, "accepted")
    /\ UNCHANGED <<reqChan, items, held, timer, quit, toSend, answered, worker, req,
                   closer, processed>>

(* Mutant of InSelect: the send to a full queue heeds neither ctx nor quit. *)
InSelectWaiting(i) == call[i] = "queued" /\ WaitForBatch

InSelect(i) == call[i] = "sending" \/ (call[i] = "queued" /\ WaitForBatch)

ReturnDone(i) ==
    /\ InSelect(i) /\ i \in done
    /\ Return(i, "ctx")
    /\ UNCHANGED <<reqChan, items, held, timer, quit, toSend, answered, worker, req,
                   closer, processed>>

ReturnClosed(i) ==
    /\ InSelect(i) /\ quit
    /\ Return(i, "closed")
    /\ UNCHANGED <<reqChan, items, held, timer, quit, toSend, answered, worker, req,
                   closer, processed>>

ReturnAnswer(i) ==
    /\ call[i] = "queued" /\ WaitForBatch /\ i \in answered
    /\ Return(i, "answered")
    /\ UNCHANGED <<reqChan, items, held, timer, quit, toSend, answered, worker, req,
                   closer, processed>>

(* The caller cancels, or the deadline passes (every request has one). *)
CtxDone(i) ==
    /\ i \in Expiring \ done /\ call[i] # "new"
    /\ done' = done \cup {i}
    /\ UNCHANGED <<reqChan, items, held, timer, quit, toSend, call, answered, worker,
                   req, closer, processed>>

-----------------------------------------------------------------------------
(* worker() and handleRequest(req) *)
Receive(w) ==
    /\ worker[w] = "select" /\ reqChan # <<>>
    /\ req' = [req EXCEPT ![w] = Head(reqChan)]
    /\ reqChan' = Tail(reqChan)
    /\ worker' = [worker EXCEPT ![w] = "lock"]
    /\ UNCHANGED <<items, held, timer, quit, toSend, call, done, answered, closer,
                   processed>>

WorkerQuits(w) ==
    /\ worker[w] = "select" /\ quit
    /\ worker' = [worker EXCEPT ![w] = "gone"]
    /\ UNCHANGED <<reqChan, items, held, timer, quit, toSend, call, done, answered,
                   req, closer, processed>>

Locks(w) == worker[w] = "lock" /\ ~held

(* req.ctx is nil: calling its Err method panics. *)
HandlePanics(w) ==
    /\ Locks(w) /\ req[w] = ResultReq
    /\ crashed' = TRUE
    /\ UNCHANGED <<reqChan, items, held, timer, quit, toSend, call, done, answered,
                   worker, req, closer, processed>>

HandleCancelled(w) ==
    /\ Locks(w) /\ req[w] \in done
    /\ answered' = IF WaitForBatch THEN answered \cup {req[w]} ELSE answered
    /\ worker' = [worker EXCEPT ![w] = "select"]
    /\ UNCHANGED <<reqChan, items, held, timer, quit, toSend, call, done, req,
                   closer, processed>>

Full(batch) == Len(batch) >= BatchSize

(* Mutant of HandleAdd: the item that completes a batch is not in it. *)
HandleAddDrops(w) ==
    /\ Locks(w) /\ req[w] \in Items \ done
    /\ items' = IF Full(Append(items, req[w])) THEN items ELSE Append(items, req[w])
    /\ timer' = IF items = <<>> THEN "armed" ELSE timer
    /\ IF Full(Append(items, req[w]))
       THEN held' = TRUE /\ worker' = [worker EXCEPT ![w] = "batch"]
       ELSE held' = held /\ worker' = [worker EXCEPT ![w] = "select"]
    /\ UNCHANGED <<reqChan, quit, toSend, call, done, answered, req, closer, processed>>

(* The lock is kept while a batch is processed, released at once otherwise. *)
HandleAdd(w) ==
    /\ Locks(w) /\ req[w] \in Items \ done
    /\ items' = Append(items, req[w])
    /\ timer' = IF items = <<>> THEN "armed" ELSE timer
    /\ IF Full(items')
       THEN held' = TRUE /\ worker' = [worker EXCEPT ![w] = "batch"]
       ELSE held' = held /\ worker' = [worker EXCEPT ![w] = "select"]
    /\ UNCHANGED <<reqChan, quit, toSend, call, done, answered, req, closer, processed>>

(* processBatch(): the timer is stopped and drained, process runs, ... *)
RunBatch ==
    /\ timer' = "off"
    /\ processed' = processed \o items
    /\ toSend' = IF WaitForBatch THEN Len(items) ELSE 0

(* ... with WaitForBatch a request per result is sent unless reqChan is    *)
(* full, ...                                                               *)
SendResult ==
    /\ toSend > 0
    /\ toSend' = toSend - 1
    /\ reqChan' = IF Room THEN Append(reqChan, ResultReq) ELSE reqChan

(* ... and the batch is emptied. *)
ClearBatch == toSend = 0 /\ items' = <<>>

WorkerBatch(w) ==
    \/ /\ worker[w] = "batch"
       /\ RunBatch
       /\ worker' = [worker EXCEPT ![w] = "send"]
       /\ UNCHANGED <<reqChan, items, held>>
    \/ /\ worker[w] = "send"
       /\ SendResult
       /\ UNCHANGED <<items, held, timer, worker, processed>>
    \/ /\ worker[w] = "send"
       /\ ClearBatch
       /\ held' = FALSE
       /\ worker' = [worker EXCEPT ![w] = "select"]
       /\ UNCHANGED <<reqChan, timer, toSend, processed>>

(* p.timer expires.  Only processBatch ever reads its channel. *)
TimerFires ==
    /\ timer = "armed"
    /\ timer' = "fired"
    /\ UNCHANGED <<reqChan, items, held, quit, toSend, call, done, answered, worker,
                   req, closer, processed>>

-----------------------------------------------------------------------------
(* Close(), called once.  p.mu is held until it returns. *)

CloseLock ==
    /\ closer = "no" /\ ~held
    /\ held' = TRUE
    /\ closer' = IF items = <<>> THEN "quit" ELSE "batch"
    /\ UNCHANGED <<reqChan, items, timer, quit, toSend, processed>>

CloseBatch ==
    \/ /\ closer = "batch"
       /\ RunBatch
       /\ closer' = "send"
       /\ UNCHANGED <<reqChan, items, held, quit>>
    \/ /\ closer = "send"
       /\ SendResult
       /\ UNCHANGED <<items, held, timer, quit, closer, processed>>
    \/ /\ closer = "send"
       /\ ClearBatch
       /\ closer' = "quit"
       /\ UNCHANGED <<reqChan, held, timer, quit, toSend, processed>>

CloseQuit ==
    /\ closer = "quit"
    /\ quit' = TRUE
    /\ closer' = "wait"
    /\ UNCHANGED <<reqChan, items, held, timer, toSend, processed>>

CloseReturns ==
    /\ closer = "wait" /\ \A w \in Workers : worker[w] = "gone"
    /\ held' = FALSE
    /\ closer' = "returned"
    /\ UNCHANGED <<reqChan, items, timer, quit, toSend, processed>>

-----------------------------------------------------------------------------
CallStep(i) ==
    \/ Enqueue(i) \/ ReturnAccepted(i) \/ ReturnDone(i) \/ ReturnClosed(i)
    \/ ReturnAnswer(i)

WorkerStep(w) ==
    \/ Receive(w) \/ WorkerQuits(w) \/ HandleCancelled(w) \/ HandleAdd(w)
    \/ WorkerBatch(w) /\ UNCHANGED <<quit, call, done, answered, req, closer>>

CloseStep ==
    /\ CloseLock \/ CloseBatch \/ CloseQuit \/ CloseReturns
    /\ UNCHANGED <<call, done, answered, worker, req>>

(* A panic in any goroutine ends the process. *)
Next ==
    /\ ~crashed
    /\ \/ /\ \/ \E i \in Items : Process(i) \/ CallStep(i) \/ CtxDone(i)
             \/ \E w \in Workers : WorkerStep(w)
             \/ TimerFires
             \/ CloseStep
          /\ crashed' = crashed
       \/ \E w \in Workers : HandlePanics(w)
    /\ UNCHANGED WaitForBatch

Spec == Init /\ [][Next]_vars

(* Goroutines that can run do run, deadlines pass; nobody has to call      *)
(* Process or Close, but a call that was made proceeds.                    *)
Runs == ~crashed /\ UNCHANGED <<crashed, WaitForBatch>>

Fairness ==
    /\ \A i \in Items : WF_vars(Runs /\ CallStep(i)) /\ WF_vars(Runs /\ CtxDone(i))
    /\ \A w \in Workers : WF_vars(Runs /\ WorkerStep(w))
    /\ WF_vars(Runs /\ TimerFires)
    /\ WF_vars(Runs /\ closer # "no" /\ CloseStep)

FairSpec == Spec /\ Fairness

-----------------------------------------------------------------------------
(* Properties *)

(* A worker has item i and waits for p.mu. *)
Received(i) == \E w \in Workers : worker[w] = "lock" /\ req[w] = i

(* No item reaches the process function twice, whichever workers handle    *)
(* the batch and however Close interleaves with them.                      *)
ProcessedOnce == \A m, n \in DOMAIN processed : m # n => processed[m] # processed[n]

(* However many workers add to it, no batch is larger than BatchSize.      *)
BatchWithinSize == Len(items) <= BatchSize

(* A request taken from its caller is in the queue, with a worker, in the  *)
(* batch or processed; it disappears only if its context was done before a *)
(* worker looked at it.                                                    *)
NothingLost ==
    \A i \in Items :
      call[i] \in {"queued", "accepted", "answered"} /\ i \notin done =>
        Contains(reqChan, i) \/ Received(i) \/ Contains(items, i) \/ Contains(processed, i)

(* When Close returns, every item of the batch has been processed and no   *)
(* worker is left to start another.                                        *)
CloseFlushes ==
    closer = "returned" => items = <<>> /\ \A w \in Workers : worker[w] = "gone"

(* A Process call returns, at the latest with its context, also when the   *)
(* queue is full or nobody works on it any more.                           *)
CallsReturn ==
    \A i \in Expiring : (call[i] = "sending") ~> (call[i] \in Returned \/ crashed)

(* A batch that is full is processed and emptied, also while Process calls *)
(* go on and Close waits for p.mu.                                         *)
FullBatchProcessed == (Len(items) = BatchSize) ~> (items = <<>> \/ crashed)

(* An accepted item is in one place at any time and is processed once: it  *)
(* is in the queue, with a worker, in a batch of at most BatchSize or      *)
(* processed, unless its context ended; after Close none is left in a      *)
(* batch (Process, worker, processBatch, Close).                           *)
EachItemOnce == TypeOK /\ ProcessedOnce /\ BatchWithinSize /\ NothingLost /\ CloseFlushes

(* A call whose context ends returns, and a full batch is processed,       *)
(* unless a result that is queued as a request has crashed the worker      *)
(* (Process, handleRequest).                                               *)
BatchesMove == CallsReturn /\ FullBatchProcessed
=============================================================================
