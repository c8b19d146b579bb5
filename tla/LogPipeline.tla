----------------------------- MODULE LogPipeline -----------------------------
(***************************************************************************)
(* One generation of a fapilog logger, from the start() of its worker       *)
(* thread to the return of stop_and_drain():                                *)
(*                                                                         *)
(*   callers   threads (or tasks of an application loop) in _enqueue        *)
(*   workers   LoggerWorker tasks of the worker thread's event loop; the    *)
(*             initial ones, and the dynamic ones a WorkerPool adds         *)
(*   monitor   the PressureMonitor task of the same loop                    *)
(*   flusher   a task awaiting AsyncLoggerFacade.flush()                    *)
(*   drainer   the thread in _drain_thread_mode                             *)
(*                                                                         *)
(* Tasks of the event loop interleave only where they await: `holder' is    *)
(* the task that runs between two awaits.  Threads interleave everywhere.   *)
(* Python-level counters follow CPython with a GIL: an attribute or item    *)
(* `+=' is one step, the property _dropped (two Python calls) is two.       *)
(***************************************************************************)
EXTENDS DualQueue

CONSTANTS
  Callers,         \* threads that log
  LoopCallers,     \* those that call the sync facade on a running event loop
  Initial,         \* the num_workers tasks of _run
  Dynamic,         \* tasks a WorkerPool may add
  NoOne,           \* "no event" and "no task"
  Monitor,         \* the pressure monitor's task
  BatchMax,        \* batch_max_size
  SinkConcurrency, \* sink_concurrency
  DropOnFull,      \* drop_on_full
  MaxRetries,      \* sleeps that fit in backpressure_wait_ms
  ShedPercent,     \* shed_threshold, in percent
  RecoverPercent,  \* recover_threshold, in percent
  Verdicts,        \* what phase 1 may decide, in {"keep", "filter", "refuse"}
  SinkResults,     \* how a write may end: subset of {"written", "discarded"}
  LateCalls,       \* may the application still log once a drain has begun?
  MaxFlushes,      \* bound: calls of flush() in a behaviour
  Adaptive         \* is the pressure monitor on?

Workers == Initial \cup Dynamic

ASSUME PipelineAssumption ==
  /\ LoopCallers \subseteq Callers
  /\ Initial # {}
  /\ Initial \cap Dynamic = {}
  /\ NoOne \notin Events \cup Workers \cup {Monitor}
  /\ Monitor \notin Workers
  /\ BatchMax \in Nat \ {0}
  /\ SinkConcurrency \in Nat \ {0}
  /\ DropOnFull \in BOOLEAN
  /\ MaxRetries \in Nat
  /\ ShedPercent \in 0..100 /\ RecoverPercent \in 0..100
  /\ Verdicts \subseteq {"keep", "filter", "refuse"} /\ Verdicts # {}
  /\ SinkResults \subseteq {"written", "discarded"} /\ SinkResults # {}
  /\ LateCalls \in BOOLEAN
  /\ MaxFlushes \in Nat
  /\ Adaptive \in BOOLEAN

VARIABLES
  pc,         \* where each caller is in _enqueue
  hand,       \* the event it is enqueueing
  tries,      \* backpressure retries made for it
  seen,       \* the value of _dropped it has read
  submitted,  \* _submitted
  processed,  \* _counters["processed"]
  dropped,    \* _counters["dropped"]
  stopFlag,   \* _stop_flag
  loop,       \* the worker thread: "up", "ended" or "none" (no _worker_loop)
  holder,     \* the task running on the event loop, or NoOne (all await)
  wpc,        \* where each worker is in run()
  why,        \* what made it flush: "stop", "flush", "size", "deadline"
  batch,      \* its batch
  retired,    \* dynamic workers whose individual stop flag is set
  monitor,    \* "asleep", or in the "scale" or the "shed" part of _tick
  sample,     \* the depth of the protected queue it has read
  flushEvent, flushDone,   \* _flush_event, _flush_done_event
  fpc,        \* the flusher: "idle", "request" or "waiting"
  flushes,    \* flush() calls made
  goal,       \* the accepted, undecided events when flush() was called
  dpc,        \* the drainer
  orphaned,   \* events it found in the queues after the join
  dseen,      \* the value of _dropped it has read
  result      \* the DrainResult counters

(* History, for the properties: what became of each event, the order the   *)
(* queues accepted events in, and the order the sink wrote them in.        *)
VARIABLES fate, accepted, written

callerVars  == <<pc, hand, tries, seen>>
workerVars  == <<holder, wpc, why, batch, retired>>
flushVars   == <<flushEvent, flushDone, fpc, flushes, goal>>
monitorVars == <<monitor, sample>>
drainVars   == <<dpc, orphaned, dseen, result>>
countVars   == <<submitted, processed, dropped>>
historyVars == <<fate, accepted, written>>
vars == <<queueVars, callerVars, workerVars, monitorVars, flushVars, drainVars,
          countVars, historyVars, stopFlag, loop>>

(* What a step of one actor leaves to the others.                          *)
besidesCaller == <<workerVars, monitorVars, flushVars, drainVars, stopFlag, loop>>
besidesLoop   == <<callerVars, flushVars, drainVars, stopFlag, loop>>
besidesDrain  == <<callerVars, workerVars, monitorVars, flushVars>>
besidesFlush  == <<queueVars, callerVars, workerVars, monitorVars, drainVars,
                   countVars, historyVars, stopFlag, loop>>

Fates == {"new", "live", "written", "discarded", "filtered", "abandoned"}

Decided(e) == fate[e] \notin {"new", "live"}

NoResult == [submitted |-> 0, processed |-> 0, dropped |-> 0]

Init ==
  /\ QueueInit
  /\ pc = [c \in Callers |-> "idle"]
  /\ hand = [c \in Callers |-> NoOne]
  /\ tries = [c \in Callers |-> 0]
  /\ seen = [c \in Callers |-> 0]
  /\ submitted = 0 /\ processed = 0 /\ dropped = 0
  /\ stopFlag = FALSE
  /\ loop = "up"
  /\ holder = NoOne
  /\ wpc = [w \in Workers |-> IF w \in Initial THEN "ready" ELSE "off"]
  /\ why = [w \in Workers |-> "size"]
  /\ batch = [w \in Workers |-> <<>>]
  /\ retired = {}
  /\ monitor = "asleep" /\ sample = 0
  /\ flushEvent = FALSE /\ flushDone = FALSE
  /\ fpc = "idle" /\ flushes = 0 /\ goal = {}
  /\ dpc = "idle" /\ orphaned = 0 /\ dseen = 0 /\ result = NoResult
  /\ fate = [e \in Events |-> "new"]
  /\ accepted = <<>>
  /\ written = <<>>

-----------------------------------------------------------------------------
(* A mutated form of the callers' steps, which the properties must refute.  *)

WaitForRoom(c) == FALSE

-----------------------------------------------------------------------------
(* Callers: SyncLoggerFacade._enqueue and AsyncLoggerFacade._enqueue.      *)

(* _prepare_payload returns a payload and counts it.  Calls below the      *)
(* level gate, sampled out or deduplicated return before this.             *)
Submit(c, e) ==
  /\ pc[c] = "idle"
  /\ fate[e] = "new"
  /\ LateCalls \/ dpc = "idle"
  /\ submitted' = submitted + 1
  /\ fate' = [fate EXCEPT ![e] = "live"]
  /\ hand' = [hand EXCEPT ![c] = e]
  /\ pc' = [pc EXCEPT ![c] = "start"]
  /\ UNCHANGED <<besidesCaller, queueVars, tries, seen, processed, dropped,
                 accepted, written>>

(* start() returns at once while _worker_loop is set.  After a drain it    *)
(* begins another generation, which this module does not follow.           *)
CallStart(c) ==
  /\ pc[c] = "start"
  /\ pc' = [pc EXCEPT ![c] = IF loop = "none" THEN "restart" ELSE "put"]
  /\ UNCHANGED <<besidesCaller, queueVars, hand, tries, seen, countVars,
                 historyVars>>

(* _try_enqueue_with_metrics succeeds.                                     *)
EnqueueOk(c) ==
  /\ pc[c] = "put"
  /\ Admits(hand[c])
  /\ Put(hand[c])
  /\ accepted' = Append(accepted, hand[c])
  /\ pc' = [pc EXCEPT ![c] = "idle"]
  /\ hand' = [hand EXCEPT ![c] = NoOne]
  /\ tries' = [tries EXCEPT ![c] = 0]
  /\ UNCHANGED <<besidesCaller, seen, countVars, fate, written>>

(* Backpressure retries: never for protected events, never on an event     *)
(* loop (sync facade), at most as many as the wait budget allows.          *)
MayRetry(c) ==
  /\ ~DropOnFull
  /\ hand[c] \notin Protected
  /\ c \notin LoopCallers
  /\ tries[c] < MaxRetries

EnqueueRetry(c) ==
  /\ pc[c] = "put"
  /\ ~Admits(hand[c])
  /\ MayRetry(c)
  /\ Refuse(hand[c])
  /\ tries' = [tries EXCEPT ![c] = @ + 1]
  /\ UNCHANGED <<besidesCaller, pc, hand, seen, countVars, historyVars>>

EnqueueGiveUp(c) ==
  /\ pc[c] = "put"
  /\ ~Admits(hand[c])
  /\ ~MayRetry(c)
  /\ Refuse(hand[c])
  /\ pc' = [pc EXCEPT ![c] = "readDropped"]
  /\ UNCHANGED <<besidesCaller, hand, tries, seen, countVars, historyVars>>

(* self._dropped += 1 is a getter call, then a setter call.                *)
ReadDropped(c) ==
  /\ pc[c] = "readDropped"
  /\ seen' = [seen EXCEPT ![c] = dropped]
  /\ pc' = [pc EXCEPT ![c] = "writeDropped"]
  /\ UNCHANGED <<besidesCaller, queueVars, hand, tries, countVars,
                 historyVars>>

WriteDropped(c) ==
  /\ pc[c] = "writeDropped"
  /\ dropped' = seen[c] + 1
  /\ fate' = [fate EXCEPT ![hand[c]] = "discarded"]
  /\ pc' = [pc EXCEPT ![c] = "idle"]
  /\ hand' = [hand EXCEPT ![c] = NoOne]
  /\ tries' = [tries EXCEPT ![c] = 0]
  /\ seen' = [seen EXCEPT ![c] = 0]
  /\ UNCHANGED <<besidesCaller, queueVars, submitted, processed, accepted,
                 written>>

-----------------------------------------------------------------------------
(* Workers: LoggerWorker.run.                                              *)

Members(s) == {s[i] : i \in DOMAIN s}

Queued(e) == e \in Members(main) \cup Members(prot)

InSomeBatch(e) == \E w \in Workers : e \in Members(batch[w])

(* Mutated forms of the workers' steps, which the properties must refute.   *)

NeverExit(w) == CASE why[w] = "flush" -> "ack"
                  [] OTHER            -> "top"

NotAwaited(w) == {}

NoSemaphore(w) == {i \in DOMAIN batch[w] : fate[batch[w][i]] = "live"}

CountWholeBatch(w, f) == Len(batch[w])

FirstWorkerDone == \E w \in Initial : wpc[w] = "exited"

MainDepth == IF Len(main) = MainCap THEN ProtCap ELSE 0

(* The loop resumes w after `await asyncio.sleep(0.001)', or first runs it. *)
Resume(w) ==
  /\ loop = "up"
  /\ holder = NoOne
  /\ wpc[w] = "ready"
  /\ holder' = w
  /\ wpc' = [wpc EXCEPT ![w] = "top"]
  /\ UNCHANGED <<besidesLoop, queueVars, why, batch, retired, monitorVars,
                 countVars, historyVars>>

StopRequested(w) == stopFlag \/ w \in retired

(* Dynamic workers are made with flush_event=None.                         *)
FlushRequested(w) == flushEvent /\ w \in Initial

(* Each iteration looks at the stop flags, then at the flush request, then  *)
(* at the queue.                                                           *)
CheckStop(w) ==
  /\ holder = w
  /\ wpc[w] = "top"
  /\ \/ /\ StopRequested(w)
        /\ wpc' = [wpc EXCEPT ![w] = "drain"]
        /\ why' = [why EXCEPT ![w] = "stop"]
     \/ /\ ~StopRequested(w)
        /\ wpc' = [wpc EXCEPT ![w] = "checkFlush"]
        /\ UNCHANGED why
  /\ UNCHANGED <<besidesLoop, queueVars, holder, batch, retired, monitorVars,
                 countVars, historyVars>>

CheckFlush(w) ==
  /\ holder = w
  /\ wpc[w] = "checkFlush"
  /\ \/ /\ FlushRequested(w)
        /\ wpc' = [wpc EXCEPT ![w] = "drain"]
        /\ why' = [why EXCEPT ![w] = "flush"]
     \/ /\ ~FlushRequested(w)
        /\ wpc' = [wpc EXCEPT ![w] = "take"]
        /\ UNCHANGED why
  /\ UNCHANGED <<besidesLoop, queueVars, holder, batch, retired, monitorVars,
                 countVars, historyVars>>

(* The item try_dequeue returned joins the batch; a full batch is flushed. *)
Collect(w, e) ==
  LET full == Len(batch[w]) + 1 >= BatchMax
  IN /\ batch' = [batch EXCEPT ![w] = Append(@, e)]
     /\ wpc' = [wpc EXCEPT ![w] = IF full THEN "flush" ELSE "top"]
     /\ why' = [why EXCEPT ![w] = IF full THEN "size" ELSE @]

TakeProtected(w) ==
  /\ holder = w
  /\ wpc[w] = "take"
  /\ PopProtected
  /\ Collect(w, Head(prot))
  /\ UNCHANGED <<besidesLoop, holder, retired, monitorVars, countVars,
                 historyVars>>

(* try_dequeue finds no protected event; it hides the main queue while     *)
(* shedding.                                                               *)
NoProtected(w) ==
  /\ holder = w
  /\ wpc[w] = "take"
  /\ prot = <<>>
  /\ wpc' = [wpc EXCEPT ![w] = IF MainVisible THEN "takeMain" ELSE "pause"]
  /\ UNCHANGED <<besidesLoop, queueVars, holder, why, batch, retired,
                 monitorVars, countVars, historyVars>>

TakeMain(w) ==
  /\ holder = w
  /\ wpc[w] = "takeMain"
  /\ PopMain
  /\ Collect(w, Head(main))
  /\ UNCHANGED <<besidesLoop, holder, retired, monitorVars, countVars,
                 historyVars>>

NoMain(w) ==
  /\ holder = w
  /\ wpc[w] = "takeMain"
  /\ main = <<>>
  /\ wpc' = [wpc EXCEPT ![w] = "pause"]
  /\ UNCHANGED <<besidesLoop, queueVars, holder, why, batch, retired,
                 monitorVars, countVars, historyVars>>

(* next_flush_deadline is set exactly while the batch is not empty; when   *)
(* it has passed is left open.                                             *)
DeadlineFlush(w) ==
  /\ holder = w
  /\ wpc[w] = "pause"
  /\ batch[w] # <<>>
  /\ wpc' = [wpc EXCEPT ![w] = "flush"]
  /\ why' = [why EXCEPT ![w] = "deadline"]
  /\ UNCHANGED <<besidesLoop, queueVars, holder, batch, retired, monitorVars,
                 countVars, historyVars>>

Sleep(w) ==
  /\ holder = w
  /\ wpc[w] = "pause"
  /\ holder' = NoOne
  /\ wpc' = [wpc EXCEPT ![w] = "ready"]
  /\ UNCHANGED <<besidesLoop, queueVars, why, batch, retired, monitorVars,
                 countVars, historyVars>>

(* _drain_queue: DualQueue.drain_into empties the protected queue, then    *)
(* the main queue, whatever `shedding' says and however long the batch.    *)
DrainProtected(w) ==
  /\ holder = w
  /\ wpc[w] = "drain"
  /\ \/ /\ PopProtected
        /\ batch' = [batch EXCEPT ![w] = Append(@, Head(prot))]
        /\ UNCHANGED wpc
     \/ /\ prot = <<>>
        /\ wpc' = [wpc EXCEPT ![w] = "drainMain"]
        /\ UNCHANGED <<queueVars, batch>>
  /\ UNCHANGED <<besidesLoop, holder, why, retired, monitorVars, countVars,
                 historyVars>>

DrainMain(w) ==
  /\ holder = w
  /\ wpc[w] = "drainMain"
  /\ \/ /\ PopMain
        /\ batch' = [batch EXCEPT ![w] = Append(@, Head(main))]
        /\ UNCHANGED wpc
     \/ /\ main = <<>>
        /\ wpc' = [wpc EXCEPT ![w] = "flush"]
        /\ UNCHANGED <<queueVars, batch>>
  /\ UNCHANGED <<besidesLoop, holder, why, retired, monitorVars, countVars,
                 historyVars>>

-----------------------------------------------------------------------------
(* LoggerWorker._flush_batch.                                              *)

(* Where run() continues after a flush, by what caused it.                 *)
AfterFlush(w) == CASE why[w] = "stop"  -> "exited"
                   [] why[w] = "flush" -> "ack"
                   [] OTHER            -> "top"

(* Phase 1 awaits the enrichers of each event, which run as tasks.  What    *)
(* it does between these awaits nobody else sees, so they count as one,    *)
(* which other tasks need not use if there are no enrichers.               *)
Enrich(w) ==
  /\ holder = w
  /\ wpc[w] = "flush"
  /\ batch[w] # <<>>
  /\ holder' = NoOne
  /\ wpc' = [wpc EXCEPT ![w] = "enriching"]
  /\ UNCHANGED <<besidesLoop, queueVars, why, batch, retired, monitorVars,
                 countVars, historyVars>>

(* Each event of the batch has passed filters, enrichers, redactors and    *)
(* serializer, or was filtered out, or refused (fail-closed redaction,     *)
(* strict envelope).  Then gather() awaits the writes.                     *)
Prepare(w) ==
  /\ loop = "up"
  /\ holder = NoOne
  /\ wpc[w] = "enriching"
  /\ \E verdict \in [Members(batch[w]) -> Verdicts] :
       fate' = [e \in Events |->
                  IF e \in Members(batch[w])
                    THEN CASE verdict[e] = "keep"   -> fate[e]
                           [] verdict[e] = "filter" -> "filtered"
                           [] OTHER                 -> "discarded"
                    ELSE fate[e]]
  /\ holder' = IF \E e \in Members(batch[w]) : fate'[e] = "live"
                 THEN NoOne ELSE w
  /\ wpc' = [wpc EXCEPT ![w] = "writing"]
  /\ UNCHANGED <<besidesLoop, queueVars, why, batch, retired, monitorVars,
                 countVars, accepted, written>>

FlushNothing(w) ==
  /\ holder = w
  /\ wpc[w] = "flush"
  /\ batch[w] = <<>>
  /\ wpc' = [wpc EXCEPT ![w] = AfterFlush(w)]
  /\ holder' = IF why[w] = "stop" THEN NoOne ELSE w
  /\ UNCHANGED <<besidesLoop, queueVars, why, batch, retired, monitorVars,
                 countVars, historyVars>>

Unwritten(w) == {i \in DOMAIN batch[w] : fate[batch[w][i]] = "live"}

(* The semaphore admits writes in batch order, sink_concurrency at a time. *)
InFlight(w) ==
  {i \in Unwritten(w) :
     Cardinality({j \in Unwritten(w) : j < i}) < SinkConcurrency}

(* Phase 2: one write to the sinks completes, or fails.                    *)
WriteDone(w, i, outcome) ==
  /\ loop = "up"
  /\ holder = NoOne
  /\ wpc[w] = "writing"
  /\ i \in InFlight(w)
  /\ fate' = [fate EXCEPT ![batch[w][i]] = outcome]
  /\ written' = IF outcome = "written" THEN Append(written, batch[w][i])
                                       ELSE written
  /\ UNCHANGED <<besidesLoop, queueVars, workerVars, monitorVars, countVars,
                 accepted>>

InBatch(w, f) == Cardinality({i \in DOMAIN batch[w] : fate[batch[w][i]] = f})

(* gather() has returned: count the batch, clear it, go on.                *)
Account(w) ==
  /\ loop = "up"
  /\ holder \in {NoOne, w}
  /\ wpc[w] = "writing"
  /\ Unwritten(w) = {}
  /\ processed' = processed + InBatch(w, "written")
  /\ dropped' = dropped + InBatch(w, "discarded")
  /\ batch' = [batch EXCEPT ![w] = <<>>]
  /\ wpc' = [wpc EXCEPT ![w] = AfterFlush(w)]
  /\ holder' = IF why[w] = "stop" THEN NoOne ELSE w
  /\ UNCHANGED <<besidesLoop, queueVars, why, retired, monitorVars, submitted,
                 historyVars>>

(* The request is cleared, then the completion is signalled.               *)
ClearRequest(w) ==
  /\ holder = w
  /\ wpc[w] = "ack"
  /\ flushEvent' = FALSE
  /\ wpc' = [wpc EXCEPT ![w] = "signal"]
  /\ UNCHANGED <<queueVars, callerVars, holder, why, batch, retired,
                 monitorVars, flushDone, fpc, flushes, goal, drainVars,
                 countVars, historyVars, stopFlag, loop>>

SignalFlushed(w) ==
  /\ holder = w
  /\ wpc[w] = "signal"
  /\ flushDone' = TRUE
  /\ wpc' = [wpc EXCEPT ![w] = "top"]
  /\ UNCHANGED <<queueVars, callerVars, holder, why, batch, retired,
                 monitorVars, flushEvent, fpc, flushes, goal, drainVars,
                 countVars, historyVars, stopFlag, loop>>

-----------------------------------------------------------------------------
WorkersDone == \A w \in Initial : wpc[w] = "exited"

(* The worker thread ends when the gather() of the initial tasks returns;   *)
(* tasks still pending are cancelled where they await.                     *)
ThreadEnds ==
  /\ loop = "up"
  /\ holder = NoOne
  /\ WorkersDone
  /\ loop' = "ended"
  /\ fate' = [e \in Events |->
                IF fate[e] = "live" /\ InSomeBatch(e)
                  THEN "abandoned" ELSE fate[e]]
  /\ batch' = [w \in Workers |-> <<>>]
  /\ wpc' = [w \in Workers |-> IF wpc[w] = "off" THEN "off" ELSE "exited"]
  /\ UNCHANGED <<queueVars, callerVars, holder, why, retired, monitorVars,
                 flushVars, drainVars, countVars, accepted, written, stopFlag>>

-----------------------------------------------------------------------------
(* Monitor: PressureMonitor.run.  stop() ends it after the current tick.    *)

BeginTick ==
  /\ Adaptive
  /\ loop = "up"
  /\ holder = NoOne
  /\ dpc = "idle"
  /\ holder' = Monitor
  /\ monitor' = "scale"
  /\ UNCHANGED <<besidesLoop, queueVars, wpc, why, batch, retired, sample,
                 countVars, historyVars>>

(* A change of the pressure level calls WorkerPool.scale_to: it adds tasks  *)
(* or sets the stop flags of some.                                         *)
AddWorker(w) ==
  /\ monitor = "scale"
  /\ w \in Dynamic
  /\ wpc[w] = "off"
  /\ wpc' = [wpc EXCEPT ![w] = "ready"]
  /\ UNCHANGED <<besidesLoop, queueVars, holder, why, batch, retired,
                 monitorVars, countVars, historyVars>>

RetireWorker(w) ==
  /\ monitor = "scale"
  /\ w \in Dynamic \ retired
  /\ wpc[w] # "off"
  /\ retired' = retired \cup {w}
  /\ UNCHANGED <<besidesLoop, queueVars, holder, wpc, why, batch, monitorVars,
                 countVars, historyVars>>

ProtectedDepth == Len(prot)

(* _evaluate_shedding reads the fill ratio of the protected queue ...       *)
SampleProtected ==
  /\ monitor = "scale"
  /\ monitor' = "shed"
  /\ sample' = ProtectedDepth
  /\ UNCHANGED <<besidesLoop, queueVars, workerVars, countVars, historyVars>>

(* ... and acts on it; the tick ends.                                      *)
EvaluateShedding ==
  /\ monitor = "shed"
  /\ \/ /\ ~shedding /\ sample * 100 >= ShedPercent * ProtCap
        /\ SetShedding(TRUE)
     \/ /\ shedding /\ sample * 100 < RecoverPercent * ProtCap
        /\ SetShedding(FALSE)
     \/ /\ IF shedding THEN sample * 100 >= RecoverPercent * ProtCap
                        ELSE sample * 100 < ShedPercent * ProtCap
        /\ UNCHANGED queueVars
  /\ monitor' = "asleep"
  /\ sample' = 0
  /\ holder' = NoOne
  /\ UNCHANGED <<besidesLoop, wpc, why, batch, retired, countVars,
                 historyVars>>

-----------------------------------------------------------------------------
(* Flusher: AsyncLoggerFacade.flush.                                       *)

(* The completion signal is cleared, then the request is set.              *)
CallFlush ==
  /\ fpc = "idle"
  /\ flushes < MaxFlushes
  /\ flushDone' = FALSE
  /\ fpc' = "request"
  /\ flushes' = flushes + 1
  /\ goal' = {e \in Events : fate[e] = "live" /\ (Queued(e) \/ InSomeBatch(e))}
  /\ UNCHANGED <<besidesFlush, flushEvent>>

RequestFlush ==
  /\ fpc = "request"
  /\ flushEvent' = TRUE
  /\ fpc' = "waiting"
  /\ UNCHANGED <<besidesFlush, flushDone, flushes, goal>>

FlushReturns ==
  /\ fpc = "waiting"
  /\ flushDone
  /\ fpc' = "idle"
  /\ goal' = {}
  /\ UNCHANGED <<besidesFlush, flushEvent, flushDone, flushes>>

(* wait_for(..., timeout=5.0) gives up; the request stays set.             *)
FlushTimesOut ==
  /\ fpc = "waiting"
  /\ ~flushDone
  /\ fpc' = "idle"
  /\ goal' = {}
  /\ UNCHANGED <<besidesFlush, flushEvent, flushDone, flushes>>

-----------------------------------------------------------------------------
(* Drainer: _drain_thread_mode(warn_on_timeout=False).                     *)

(* The monitor and the dynamic workers are told to stop, then everyone.    *)
BeginDrain ==
  /\ dpc = "idle"
  /\ LateCalls \/ \A c \in Callers : pc[c] = "idle"
  /\ retired' = retired \cup {w \in Dynamic : wpc[w] # "off"}
  /\ dpc' = "stop"
  /\ UNCHANGED <<queueVars, callerVars, holder, wpc, why, batch, monitorVars,
                 flushVars, orphaned, dseen, result, countVars, historyVars,
                 stopFlag, loop>>

RaiseStop ==
  /\ dpc = "stop"
  /\ stopFlag' = TRUE
  /\ dpc' = "join"
  /\ UNCHANGED <<besidesDrain, queueVars, orphaned, dseen, result, countVars,
                 historyVars, loop>>

(* join() without a timeout, then the logger forgets the thread.           *)
Join ==
  /\ dpc = "join"
  /\ loop = "ended"
  /\ loop' = "none"
  /\ dpc' = "count"
  /\ UNCHANGED <<besidesDrain, queueVars, orphaned, dseen, result, countVars,
                 historyVars, stopFlag>>

(* Events still queued are taken with try_dequeue and counted as dropped.  *)
CountProtected ==
  /\ dpc = "count"
  /\ \/ /\ PopProtected
        /\ orphaned' = orphaned + 1
        /\ fate' = [fate EXCEPT ![Head(prot)] = "discarded"]
        /\ UNCHANGED dpc
     \/ /\ prot = <<>>
        /\ dpc' = IF MainVisible THEN "countMain" ELSE "counted"
        /\ UNCHANGED <<queueVars, orphaned, fate>>
  /\ UNCHANGED <<besidesDrain, dseen, result, countVars, accepted, written,
                 stopFlag, loop>>

CountMain ==
  /\ dpc = "countMain"
  /\ \/ /\ PopMain
        /\ orphaned' = orphaned + 1
        /\ fate' = [fate EXCEPT ![Head(main)] = "discarded"]
        /\ dpc' = "count"
     \/ /\ main = <<>>
        /\ dpc' = "counted"
        /\ UNCHANGED <<queueVars, orphaned, fate>>
  /\ UNCHANGED <<besidesDrain, dseen, result, countVars, accepted, written,
                 stopFlag, loop>>

(* if orphaned: self._dropped += orphaned                                  *)
ReadOrphans ==
  /\ dpc = "counted"
  /\ IF orphaned > 0
       THEN dseen' = dropped /\ dpc' = "addOrphans"
       ELSE UNCHANGED dseen /\ dpc' = "report"
  /\ UNCHANGED <<besidesDrain, queueVars, orphaned, result, countVars,
                 historyVars, stopFlag, loop>>

AddOrphans ==
  /\ dpc = "addOrphans"
  /\ dropped' = dseen + orphaned
  /\ dpc' = "report"
  /\ UNCHANGED <<besidesDrain, queueVars, orphaned, dseen, result, submitted,
                 processed, historyVars, stopFlag, loop>>

Report ==
  /\ dpc = "report"
  /\ result' = [submitted |-> submitted, processed |-> processed,
                dropped |-> dropped]
  /\ dpc' = "returned"
  /\ UNCHANGED <<besidesDrain, queueVars, orphaned, dseen, countVars,
                 historyVars, stopFlag, loop>>

-----------------------------------------------------------------------------
CallerStep(c) ==
  \/ CallStart(c) \/ EnqueueOk(c) \/ EnqueueRetry(c) \/ EnqueueGiveUp(c)
  \/ ReadDropped(c) \/ WriteDropped(c)

(* Between two awaits the task that runs cannot be held up by another.     *)
LoopStep(w) ==
  \/ CheckStop(w) \/ CheckFlush(w)
  \/ TakeProtected(w) \/ NoProtected(w) \/ TakeMain(w) \/ NoMain(w)
  \/ DeadlineFlush(w) \/ Sleep(w) \/ DrainProtected(w)
  \/ DrainMain(w) \/ Enrich(w) \/ FlushNothing(w)
  \/ ClearRequest(w) \/ SignalFlushed(w)

SinkStep(w) == \E i \in DOMAIN batch[w], o \in SinkResults : WriteDone(w, i, o)

MonitorStep == SampleProtected \/ EvaluateShedding

DrainStep ==
  \/ RaiseStop \/ Join \/ CountProtected \/ CountMain
  \/ ReadOrphans \/ AddOrphans \/ Report

(* Nothing is left to do: the drain has returned and no call is running.   *)
Finished ==
  /\ dpc = "returned"
  /\ fpc = "idle"
  /\ \A c \in Callers : pc[c] \in {"idle", "restart"}
  /\ UNCHANGED vars

Next ==
  \/ \E c \in Callers : CallerStep(c) \/ \E e \in Events : Submit(c, e)
  \/ \E w \in Workers : Resume(w) \/ LoopStep(w) \/ Prepare(w) \/ SinkStep(w) \/ Account(w)
  \/ \E w \in Dynamic : AddWorker(w) \/ RetireWorker(w)
  \/ ThreadEnds \/ BeginTick \/ MonitorStep
  \/ CallFlush \/ RequestFlush \/ FlushReturns \/ FlushTimesOut
  \/ BeginDrain \/ DrainStep
  \/ Finished

Spec == Init /\ [][Next]_vars

(* Threads are scheduled; the event loop runs its ready tasks in turn, so  *)
(* a task that is ready again and again runs; a batch deadline passes.     *)
(* Nothing obliges the application to log, flush or drain.                 *)
SchedulerFairness ==
  /\ \A c \in Callers : WF_vars(CallerStep(c))
  /\ \A w \in Workers : /\ SF_vars(Resume(w))
                        /\ WF_vars(LoopStep(w))
                        /\ SF_vars(DeadlineFlush(w))
                        /\ SF_vars(Account(w))
  /\ SF_vars(BeginTick)
  /\ WF_vars(MonitorStep)
  /\ SF_vars(ThreadEnds)
  /\ WF_vars(DrainStep)

FairSpec == Spec /\ SchedulerFairness

(* Enrichers and sink writes end in the end: nothing in the code sees to    *)
(* that.                                                                   *)
SinksAnswer == \A w \in Workers : SF_vars(Prepare(w)) /\ SF_vars(SinkStep(w))

-----------------------------------------------------------------------------
(* Properties                                                              *)

CallerTypeOK ==
  /\ pc \in [Callers -> {"idle", "start", "put", "readDropped", "writeDropped",
                         "restart"}]
  /\ hand \in [Callers -> Events \cup {NoOne}]
  /\ tries \in [Callers -> 0..MaxRetries]
  /\ seen \in [Callers -> Nat]

WorkerTypeOK ==
  /\ holder \in Workers \cup {NoOne, Monitor}
  /\ wpc \in [Workers -> {"off", "ready", "top", "checkFlush", "take",
                          "takeMain", "pause", "drain", "drainMain", "flush",
                          "enriching", "writing", "ack", "signal", "exited"}]
  /\ why \in [Workers -> {"stop", "flush", "size", "deadline"}]
  /\ batch \in [Workers -> Seq(Events)]
  /\ retired \subseteq Dynamic

MonitorTypeOK == monitor \in {"asleep", "scale", "shed"} /\ sample \in Nat

FlushTypeOK ==
  /\ flushEvent \in BOOLEAN /\ flushDone \in BOOLEAN
  /\ fpc \in {"idle", "request", "waiting"}
  /\ flushes \in 0..MaxFlushes
  /\ goal \subseteq Events

DrainTypeOK ==
  /\ dpc \in {"idle", "stop", "join", "count", "countMain", "counted",
              "addOrphans", "report", "returned"}
  /\ orphaned \in Nat /\ dseen \in Nat
  /\ result \in [submitted : Nat, processed : Nat, dropped : Nat]

CountTypeOK == submitted \in Nat /\ processed \in Nat /\ dropped \in Nat

HistoryTypeOK ==
  /\ fate \in [Events -> Fates]
  /\ accepted \in Seq(Events)
  /\ written \in Seq(Events)

TypeOK ==
  /\ QueueTypeOK /\ CallerTypeOK /\ WorkerTypeOK /\ MonitorTypeOK /\ FlushTypeOK
  /\ DrainTypeOK /\ CountTypeOK /\ HistoryTypeOK
  /\ stopFlag \in BOOLEAN /\ loop \in {"up", "ended", "none"}

(* Where e is held: by a caller, in a slot of a queue, in a batch.         *)
Holders(e) ==
  {c \in Callers : hand[c] = e}
    \cup {<<"main", i>> : i \in {j \in DOMAIN main : main[j] = e}}
    \cup {<<"prot", i>> : i \in {j \in DOMAIN prot : prot[j] = e}}
    \cup UNION {{<<w, i>> : i \in {j \in DOMAIN batch[w] : batch[w][j] = e}} :
                  w \in Workers}

(* Between _prepare_payload and its fate an event is in exactly one place: *)
(* no interleaving of callers, workers, flush and drain loses it or makes  *)
(* two copies of it.                                                       *)
OnePlace ==
  \A e \in Events :
    /\ fate[e] = "live" => Cardinality(Holders(e)) = 1
    /\ fate[e] \in {"new", "abandoned"} => Holders(e) = {}
    /\ Decided(e) => ~Queued(e) /\ Cardinality(Holders(e)) <= 1

(* Sum over the workers' batches of the events with fate f.                *)
Uncounted(f) ==
  Cardinality({e \in Events : fate[e] = f /\ InSomeBatch(e)})

Total(f) == Cardinality({e \in Events : fate[e] = f})

(* `processed' counts every event the sink took, once its batch is done;   *)
(* only a batch cancelled with a dynamic worker is never counted.          *)
ProcessedExact ==
  loop = "up" \/ (\A w \in Dynamic : wpc[w] = "off") =>
    processed + Uncounted("written") = Total("written")

(* `dropped' never claims a drop that did not happen, whatever counter     *)
(* updates of callers, workers and drainer overlap.                        *)
NeverOverReported == dropped <= Total("discarded")

(* One event loop runs one task at a time, and a task that does not run    *)
(* awaits: in a sleep, its enrichers or its writes, or not begun, or ended. *)
OneAtATime ==
  \A w \in Workers :
    w # holder => wpc[w] \in {"off", "ready", "enriching", "writing", "exited"}

(* "ensures the loop stops only after ALL workers finish": when the worker  *)
(* thread ends, cancelling what still runs, no initial worker holds events. *)
DrainWaitsForAll ==
  [][loop = "up" /\ loop' # "up" => \A w \in Initial : batch[w] = <<>>]_vars

Position(s, e) == CHOOSE i \in DOMAIN s : s[i] = e

(* One worker that writes one event at a time delivers the events of each  *)
(* queue in the order the queue accepted them.                             *)
DeliveryOrder ==
  \A i, j \in DOMAIN written :
    i < j /\ (written[i] \in Protected <=> written[j] \in Protected)
      => Position(accepted, written[i]) < Position(accepted, written[j])

(* flush() that is acknowledged has delivered what was accepted before it. *)
FlushCovers == fpc = "waiting" /\ flushDone => \A e \in goal : Decided(e)

(* While shedding, only flush() and the drain take events from the main    *)
(* queue: neither a poll begun before nor one begun after takes any.       *)
SheddingHoldsMain ==
  [][shedding /\ Len(main') < Len(main) =>
       \E w \in Workers :
         wpc[w] = "drainMain" /\ why[w] \in {"flush", "stop"}]_vars

(* The pipeline keeps the books of EventLedger: while one caller logs and   *)
(* the drain meets no call under way, every event is decided once, and the *)
(* DrainResult counts each of them where it belongs.                       *)
Ledger == INSTANCE EventLedger
            WITH NoReport <- NoResult,
                 status   <- fate,
                 report   <- result

KeepsTheBooks == Ledger!LedgerSpec

(* A log call returns even if every sink hangs: retries are bounded.       *)
CallsReturn == \A c \in Callers : pc[c] = "put" ~> pc[c] \in {"idle", "restart"}

(* If sinks answer, every accepted event is decided without a drain, also  *)
(* after shedding.                                                         *)
EventuallyDecided ==
  SinksAnswer => \A e \in Events : Queued(e) ~> Decided(e)

(* If sinks answer, stop_and_drain returns.                                *)
DrainReturns == SinksAnswer => (dpc = "stop" ~> dpc = "returned")
=============================================================================
