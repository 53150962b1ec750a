-------------------------- MODULE AdaptiveBatcher ---------------------------
(***************************************************************************)
(* The adaptive batcher of internal/batch/adaptive_batcher.go.             *)
(*                                                                         *)
(* One loop collects requests into the current batch and starts a          *)
(* goroutine for it; Flush and Close start one as well.  Each case of the  *)
(* loop runs under itemsMu and is one step.  A batch goroutine takes four  *)
(* steps: it checks the contexts, calls the processor, adapts the batch    *)
(* size and answers, and gives its concurrency slot back.                  *)
(***************************************************************************)
EXTENDS Integers, Sequences, SequencesExt, FiniteSets

CONSTANTS
    Items,              \* one Process call each
    Oversized,          \* items larger than MaxRequestSize
    Expiring,           \* items whose context ends
    MaxBatchSize, MinBatchSize, MaxConcurrentBatches,           \* options
    HighLoadFactor, LowLoadFactor, HighLoadThreshold, LowLoadThreshold, \* percent
    FuncOptions,        \* whether BatchRequestFunc and SplitResponseFunc may be given
    MayFail,            \* whether the processor may return an error
    MaxFlushes,         \* bound on the calls of Flush
    MayClose            \* whether Close is called

ASSUME BatcherAssumption ==
    /\ IsFiniteSet(Items) /\ Oversized \subseteq Items /\ Expiring \subseteq Items
    /\ MinBatchSize \in Nat \ {0} /\ MaxBatchSize \in Nat \ {0}
    /\ MinBatchSize <= MaxBatchSize
    /\ MaxConcurrentBatches \in Nat \ {0} /\ MaxFlushes \in Nat
    /\ HighLoadFactor \in 0 .. 100 /\ LowLoadFactor \in Nat /\ LowLoadFactor >= 100
    /\ HighLoadThreshold \in Nat /\ LowLoadThreshold \in Nat
    /\ FuncOptions \subseteq BOOLEAN \X BOOLEAN
    /\ {MayFail, MayClose} \subseteq BOOLEAN

VARIABLES
    Merges, Splits,     \* BatchRequestFunc # nil, SplitResponseFunc # nil; never change
    requestChan,        \* the queue, MaxBatchSize * 2 long
    items,              \* the current batch
    activeCount, processingCount, currentBatchSize,
    load,               \* stats.LoadFactor, as a number of running processors
    lastProcessTime,    \* whether it has been set
    timer, timerActive, \* the timer ("off", "armed", "fired") and its flag
    closed, stop,
    loop,               \* processLoop: "run" or "gone"
    batches,            \* the goroutines in processBatch
    closer,             \* Close(), which holds closedMu until it returns
    flushes,            \* number of Flush calls made
    call,               \* where each Process call is
    done,               \* the items whose context is done
    answer              \* what each item's Done was closed with, or "none"

vars == <<Merges, Splits, requestChan, items, activeCount, processingCount,
          currentBatchSize, load, lastProcessTime, timer, timerActive, closed, stop,
          loop, batches, closer, flushes, call, done, answer>>

Batch(its, by) == [items |-> its, at |-> "check", by |-> by]

TypeOK ==
    /\ <<Merges, Splits>> \in FuncOptions
    /\ requestChan \in Seq(Items) /\ Len(requestChan) <= 2 * MaxBatchSize
    /\ items \in Seq(Items)
    /\ activeCount \in Int /\ processingCount \in Nat /\ load \in Nat
    /\ currentBatchSize \in Nat /\ lastProcessTime \in BOOLEAN
    /\ timer \in {"off", "armed", "fired"} /\ timerActive \in BOOLEAN
    /\ closed \in BOOLEAN /\ stop \in BOOLEAN /\ loop \in {"run", "gone"}
    /\ \A b \in batches :
         /\ b.items \in Seq(Items) /\ b.by \in {"loop", "flush", "close"}
         /\ b.at \in {"check", "run", "ok", "err", "end"}
    /\ closer \in {"no", "stop", "flush", "wait", "returned"}
    /\ flushes \in 0 .. MaxFlushes
    /\ call \in [Items -> {"new", "sending", "waiting", "refused", "answered", "ctx"}]
    /\ done \subseteq Items
    /\ answer \in [Items -> {"none", "own", "whole", "error", "ctx"}]

Init ==
    /\ \E f \in FuncOptions : Merges = f[1] /\ Splits = f[2]
    /\ requestChan = <<>> /\ items = <<>> /\ batches = {}
    /\ activeCount = 0 /\ processingCount = 0 /\ load = 0 /\ flushes = 0
    /\ lastProcessTime = FALSE
    /\ currentBatchSize = MaxBatchSize
    /\ timer = "off" /\ timerActive = FALSE
    /\ closed = FALSE /\ stop = FALSE /\ loop = "run" /\ closer = "no"
    /\ call = [i \in Items |-> "new"]
    /\ done = {}
    /\ answer = [i \in Items |-> "none"]

loopVars == <<requestChan, items, activeCount, timer, timerActive, loop, batches>>
sizeVars == <<processingCount, currentBatchSize, load, lastProcessTime>>
closeVars == <<closed, stop, closer, flushes>>
callVars == <<call, done, answer>>
funcVars == <<Merges, Splits>>

-----------------------------------------------------------------------------
(* Process(ctx, request) *)

(* The check of closed waits for Close to release closedMu. *)
Process(i) ==
    /\ call[i] = "new" /\ closer \in {"no", "returned"}
    /\ call' = [call EXCEPT ![i] = IF closed \/ i \in Oversized THEN "refused" ELSE "sending"]
    /\ UNCHANGED <<loopVars, sizeVars, closeVars, done, answer>>

Enqueue(i) ==
    /\ call[i] = "sending" /\ Len(requestChan) < 2 * MaxBatchSize
    /\ requestChan' = Append(requestChan, i)
    /\ call' = [call EXCEPT ![i] = "waiting"]
    /\ UNCHANGED <<items, activeCount, timer, timerActive, loop, batches,
                   sizeVars, closeVars, done, answer>>

ReturnAnswer(i) ==
    /\ call[i] = "waiting" /\ answer[i] # "none"
    /\ call' = [call EXCEPT ![i] = "answered"]
    /\ UNCHANGED <<loopVars, sizeVars, closeVars, done, answer>>

ReturnCtx(i) ==
    /\ call[i] \in {"sending", "waiting"} /\ i \in done
    /\ call' = [call EXCEPT ![i] = "ctx"]
    /\ UNCHANGED <<loopVars, sizeVars, closeVars, done, answer>>

CtxDone(i) ==
    /\ i \in Expiring \ done /\ call[i] # "new"
    /\ done' = done \cup {i}
    /\ UNCHANGED <<loopVars, sizeVars, closeVars, call, answer>>

-----------------------------------------------------------------------------
(* processLoop() *)

(* Mutant of TakeBatch: the batch is not cleared when its goroutine starts. *)
TakeBatchKeeps(its) ==
    IF activeCount >= MaxConcurrentBatches
    THEN items' = its /\ UNCHANGED <<activeCount, batches>>
    ELSE /\ activeCount' = activeCount + 1
         /\ batches' = batches \cup {Batch(its, "loop")}
         /\ items' = its

(* Mutant of TakeBatch: one batch too many may run. *)
TakeBatchExtra(its) ==
    IF activeCount > MaxConcurrentBatches
    THEN items' = its /\ UNCHANGED <<activeCount, batches>>
    ELSE /\ activeCount' = activeCount + 1
         /\ batches' = batches \cup {Batch(its, "loop")}
         /\ items' = <<>>

(* At the limit the items stay where they are and nothing is armed. *)
TakeBatch(its) ==
    IF activeCount >= MaxConcurrentBatches
    THEN items' = its /\ UNCHANGED <<activeCount, batches>>
    ELSE /\ activeCount' = activeCount + 1
         /\ batches' = batches \cup {Batch(its, "loop")}
         /\ items' = <<>>

(* late: the oldest item has waited for MaxLatency. *)
ShouldProcess(n, late) == n >= currentBatchSize \/ (n >= MinBatchSize /\ late)

ArmTimerNot == UNCHANGED <<timer, timerActive>>     \* mutant: it is not started

ArmTimer ==
    IF timerActive THEN UNCHANGED <<timer, timerActive>>
    ELSE timer' = "armed" /\ timerActive' = TRUE

LoopItem ==
    /\ loop = "run" /\ requestChan # <<>>
    /\ requestChan' = Tail(requestChan)
    /\ LET its == Append(items, Head(requestChan))
       IN  \E late \in BOOLEAN :
             IF ShouldProcess(Len(its), late)
             THEN TakeBatch(its) /\ UNCHANGED <<timer, timerActive>>
             ELSE items' = its /\ ArmTimer /\ UNCHANGED <<activeCount, batches>>
    /\ UNCHANGED <<loop, sizeVars, closeVars, callVars>>

LoopTimer ==
    /\ loop = "run" /\ timer = "fired"
    /\ timer' = "off" /\ timerActive' = FALSE
    /\ IF items # <<>> THEN TakeBatch(items)
       ELSE UNCHANGED <<items, activeCount, batches>>
    /\ UNCHANGED <<requestChan, loop, sizeVars, closeVars, callVars>>

LoopStops ==
    /\ loop = "run" /\ stop
    /\ loop' = "gone"
    /\ UNCHANGED <<requestChan, items, activeCount, timer, timerActive, batches,
                   sizeVars, closeVars, callVars>>

TimerFires ==
    /\ timer = "armed"
    /\ timer' = "fired"
    /\ UNCHANGED <<requestChan, items, activeCount, timerActive, loop, batches,
                   sizeVars, closeVars, callVars>>

-----------------------------------------------------------------------------
(* processBatch(items) *)
Becomes(b, c) == batches' = (batches \ {b}) \cup {c}

Close(its, how) ==      \* close(item.Done)
    answer' = [i \in Items |-> IF Contains(its, i) THEN how ELSE answer[i]]

Start == processingCount' = processingCount + 1

(* What is left of a batch without the items whose context is done.  There *)
(* is one: the positions that stay can be listed in increasing order.      *)
ValidItems(its) ==
    LET stay == {n \in DOMAIN its : its[n] \notin done}
        Lists == {pos \in Bijection(1 .. Cardinality(stay), stay) :
                    \A j, k \in DOMAIN pos : j < k => pos[j] < pos[k]}
    IN  {[k \in DOMAIN pos |-> its[pos[k]]] : pos \in Lists}

(* Items whose context is done are answered at once; what is left runs,    *)
(* unless it would have to be merged and cannot be.                        *)
CheckContexts(b) ==
    /\ b.at = "check"
    /\ \E valid \in ValidItems(b.items) :
         LET refuse == Len(valid) > 1 /\ ~Merges
         IN  /\ answer' = [i \in Items |->
                             IF ~Contains(b.items, i) THEN answer[i]
                             ELSE IF i \in done THEN "ctx"
                             ELSE IF refuse THEN "error" ELSE answer[i]]
             /\ IF valid = <<>> \/ refuse
                THEN Becomes(b, [b EXCEPT !.at = "end"]) /\ UNCHANGED processingCount
                ELSE /\ Becomes(b, [b EXCEPT !.items = valid, !.at = "run"])
                     /\ Start
    /\ UNCHANGED <<requestChan, items, activeCount, timer, timerActive, loop,
                   currentBatchSize, load, lastProcessTime, closeVars, call, done>>

ProcessorReturns(b) ==
    /\ b.at = "run"
    /\ processingCount' = processingCount - 1
    /\ lastProcessTime' = TRUE
    /\ \E r \in IF MayFail THEN {"ok", "err"} ELSE {"ok"} :
         Becomes(b, [b EXCEPT !.at = r])
    /\ UNCHANGED <<requestChan, items, activeCount, timer, timerActive, loop,
                   currentBatchSize, load, closeVars, callVars>>

HighLoad == load * 100 > HighLoadThreshold * MaxConcurrentBatches
LowLoad == load * 100 < LowLoadThreshold * MaxConcurrentBatches

AdaptedSize ==
    LET down == (currentBatchSize * HighLoadFactor) \div 100
        up   == (currentBatchSize * LowLoadFactor) \div 100
    IN  CASE HighLoad -> IF down < MinBatchSize THEN MinBatchSize ELSE down
          [] ~HighLoad /\ LowLoad -> IF up > MaxBatchSize THEN MaxBatchSize ELSE up
          [] OTHER -> currentBatchSize

(* A merged request of one item gets the response of the whole batch.      *)
(* SplitResponseFunc may return n parts, fewer than there are items.       *)
Answers(b) ==
    \/ b.at = "err" /\ Close(b.items, "error")
    \/ /\ b.at = "ok" /\ Len(b.items) = 1
       /\ Close(b.items, IF Merges THEN "whole" ELSE "own")
    \/ /\ b.at = "ok" /\ Len(b.items) > 1 /\ ~Splits
       /\ Close(b.items, "error")
    \/ /\ b.at = "ok" /\ Len(b.items) > 1 /\ Splits
       /\ \E n \in 0 .. Len(b.items) :
            answer' = [i \in Items |->
                         IF ~Contains(b.items, i) THEN answer[i]
                         ELSE IF \E k \in 1 .. n : b.items[k] = i THEN "own" ELSE "error"]

AdaptAndAnswer(b) ==
    /\ currentBatchSize' = AdaptedSize
    /\ Answers(b)
    /\ Becomes(b, [b EXCEPT !.at = "end"])
    /\ UNCHANGED <<requestChan, items, activeCount, timer, timerActive, loop,
                   processingCount, load, lastProcessTime, closeVars, call, done>>

(* Every batch gives a slot back, also one of Flush that never took one. *)
EndBatch(b) ==
    /\ b.at = "end"
    /\ activeCount' = activeCount - 1
    /\ batches' = batches \ {b}
    /\ UNCHANGED <<requestChan, items, timer, timerActive, loop, sizeVars, closeVars,
                   callVars>>

(* updateStats(): after a minute without a finished batch the load is 0. *)
UpdateStats ==
    /\ ~stop
    /\ \/ load' = processingCount
       \/ lastProcessTime /\ load' = 0
    /\ UNCHANGED <<loopVars, processingCount, currentBatchSize, lastProcessTime,
                   closeVars, callVars>>

-----------------------------------------------------------------------------
FlushBy(by) ==
    /\ batches' = IF items = <<>> THEN batches ELSE batches \cup {Batch(items, by)}
    /\ items' = <<>>

Flush ==
    /\ flushes < MaxFlushes /\ items # <<>>
    /\ flushes' = flushes + 1
    /\ FlushBy("flush")
    /\ UNCHANGED <<requestChan, activeCount, timer, timerActive, loop, sizeVars,
                   closed, stop, closer, callVars>>

(* Close() *)
CloseMark ==
    /\ MayClose /\ closer = "no"
    /\ closed' = TRUE
    /\ timer' = IF timerActive THEN "off" ELSE timer
    /\ closer' = "stop"
    /\ UNCHANGED <<requestChan, items, activeCount, timerActive, loop, batches,
                   sizeVars, stop, flushes, callVars>>

CloseStop ==
    /\ closer = "stop"
    /\ stop' = TRUE
    /\ closer' = "flush"
    /\ UNCHANGED <<loopVars, sizeVars, closed, flushes, callVars>>

CloseFlush ==
    /\ closer = "flush"
    /\ FlushBy("close")
    /\ closer' = "wait"
    /\ UNCHANGED <<requestChan, activeCount, timer, timerActive, loop, sizeVars,
                   closed, stop, flushes, callVars>>

CloseReturns ==
    /\ closer = "wait" /\ \A b \in batches : b.by # "close"
    /\ closer' = "returned"
    /\ UNCHANGED <<loopVars, sizeVars, closed, stop, flushes, callVars>>

-----------------------------------------------------------------------------
CallStep(i) == Enqueue(i) \/ ReturnAnswer(i) \/ ReturnCtx(i)
LoopStep == LoopItem \/ LoopTimer \/ LoopStops
BatchStep == \E b \in batches :
    CheckContexts(b) \/ ProcessorReturns(b) \/ AdaptAndAnswer(b) \/ EndBatch(b)
CloseStep == CloseStop \/ CloseFlush \/ CloseReturns

Next ==
    /\ \/ \E i \in Items : Process(i) \/ CallStep(i) \/ CtxDone(i)
       \/ LoopStep \/ TimerFires \/ BatchStep \/ UpdateStats
       \/ Flush \/ CloseMark \/ CloseStep
    /\ UNCHANGED funcVars

Spec == Init /\ [][Next]_vars

(* Goroutines that can run do run, the processor returns, the timer and    *)
(* the statistics ticker fire.  Nobody has to call Process, Flush or Close.*)
Fairness ==
    /\ \A i \in Items : WF_vars(CallStep(i) /\ UNCHANGED funcVars)
    /\ WF_vars(LoopStep /\ UNCHANGED funcVars)
    /\ WF_vars(TimerFires /\ UNCHANGED funcVars)
    /\ WF_vars(BatchStep /\ UNCHANGED funcVars)
    /\ WF_vars(UpdateStats /\ UNCHANGED funcVars)
    /\ WF_vars(CloseStep /\ UNCHANGED funcVars)

FairSpec == Spec /\ Fairness

-----------------------------------------------------------------------------
(* Properties *)

Copies(i) ==
    Cardinality({n \in DOMAIN requestChan : requestChan[n] = i})
    + Cardinality({n \in DOMAIN items : items[n] = i})
    + Cardinality({b \in batches : b.at # "end" /\ Contains(b.items, i)})

(* A request is in the queue, in the current batch or in one running batch *)
(* until it is answered, and nowhere after: its Done is closed once (a     *)
(* second close would panic) and, once sent, it is never lost.             *)
OnePlace ==
    \A i \in Items :
      /\ Copies(i) <= 1
      /\ answer[i] # "none" => Copies(i) = 0
      /\ call[i] = "waiting" => (Copies(i) = 1) # (answer[i] # "none")

(* Without Flush and Close, activeCount is the number of batches running   *)
(* and never above MaxConcurrentBatches.                                   *)
ActiveCountExact ==
    flushes = 0 /\ ~closed =>
      /\ activeCount = Cardinality(batches)
      /\ activeCount <= MaxConcurrentBatches

(* processingCount, from which the load is computed, counts the processor  *)
(* calls under way, whoever started the batch.                             *)
ProcessingExact == processingCount = Cardinality({b \in batches : b.at = "run"})

(* Whatever the load was when a batch finished, the batch size stays       *)
(* within the configured bounds.                                           *)
BatchSizeInRange == currentBatchSize \in MinBatchSize .. MaxBatchSize

(* A request sent to the loop is answered, by a full batch, by the timer   *)
(* or by Flush.                                                            *)
EveryRequestAnswered == \A i \in Items : (call[i] = "waiting") ~> (answer[i] # "none")

(* It is as long as the limit of concurrent batches is not reached and the *)
(* batcher stays open: no order of the timer, its flag, the loop and Flush *)
(* leaves an item in a batch that nobody will take.                        *)
AnsweredBelowLimit ==
    [](activeCount < MaxConcurrentBatches /\ ~closed) => EveryRequestAnswered

(* The counters that decide are right: slots while nobody flushes or       *)
(* closes, running processors always, and a batch size within its bounds   *)
(* whatever the load was (processBatch, adjustBatchSize, Flush).           *)
CountersRight == TypeOK /\ ActiveCountExact /\ ProcessingExact /\ BatchSizeInRange
=============================================================================
