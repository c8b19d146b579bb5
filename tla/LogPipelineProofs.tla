-------------------------- MODULE LogPipelineProofs --------------------------
(* Theorems about LogPipeline, for every number of threads, workers, events *)
(* and every value of the configuration: the queues' types and bounds, the  *)
(* drain and the backpressure, and what becomes of an event, which is in    *)
(* one place, is counted, and closes the books of EventLedger.  Last, that  *)
(* a drain never waits for one who cannot go on.                           *)
EXTENDS LogPipeline, FiniteSetTheorems, FunctionTheorems, SequenceTheorems,
        WellFoundedInduction, TLAPS

-----------------------------------------------------------------------------
(* The operations of the queue keep its type, and its bound.               *)

LEMMA PutType ==
  ASSUME QueueTypeOK, NEW e \in Events, Put(e)
  PROVE  QueueTypeOK'
<1> USE DEF QueueTypeOK
<1>1. Append(prot, e) \in Seq(Events) /\ Append(main, e) \in Seq(Events)
  BY AppendProperties
<1> QED
  BY <1>1 DEF Put

LEMMA RefuseType ==
  ASSUME QueueTypeOK, NEW e, Refuse(e)
  PROVE  QueueTypeOK'
BY DEF QueueTypeOK, Refuse

LEMMA PopType ==
  ASSUME QueueTypeOK, PopProtected \/ PopMain
  PROVE  QueueTypeOK'
<1> USE DEF QueueTypeOK
<1>1. /\ prot # <<>> => Tail(prot) \in Seq(Events)
      /\ main # <<>> => Tail(main) \in Seq(Events)
  BY HeadTailProperties
<1> QED
  BY <1>1 DEF PopProtected, PopMain

LEMMA HeadType ==
  ASSUME QueueTypeOK
  PROVE  /\ prot # <<>> => Head(prot) \in Events
         /\ main # <<>> => Head(main) \in Events
BY DEF QueueTypeOK

LEMMA SheddingType ==
  ASSUME QueueTypeOK, NEW on \in BOOLEAN, SetShedding(on)
  PROVE  QueueTypeOK'
BY DEF QueueTypeOK, SetShedding

-----------------------------------------------------------------------------
(* Types.  A caller that is not idle holds an event: needed to see that    *)
(* what it puts in a queue is one.                                         *)

HandHeld == \A c \in Callers : pc[c] # "idle" => hand[c] \in Events

TypeInv == TypeOK /\ HandHeld

LEMMA InitType == Init => TypeInv
<1> SUFFICES ASSUME Init PROVE TypeInv
  OBVIOUS
<1> USE DEF Init
<1>0. <<>> \in Seq(Events)
  BY EmptySeq
<1>1. QueueTypeOK
  BY <1>0 DEF QueueInit, QueueTypeOK
<1>2. CallerTypeOK /\ HandHeld
  BY PipelineAssumption DEF CallerTypeOK, HandHeld
<1>3. WorkerTypeOK
  BY DEF WorkerTypeOK, Workers
<1>4. MonitorTypeOK /\ CountTypeOK
  BY DEF MonitorTypeOK, CountTypeOK
<1>6. FlushTypeOK
  <2>1. flushEvent \in BOOLEAN /\ flushDone \in BOOLEAN
    BY Zenon
  <2>2. flushes \in 0..MaxFlushes
    BY PipelineAssumption
  <2> QED
    BY <2>1, <2>2 DEF FlushTypeOK
<1>7. HistoryTypeOK
  BY <1>0 DEF HistoryTypeOK, Fates
<1>5. DrainTypeOK
  BY DEF DrainTypeOK, NoResult
<1> QED
  BY <1>1, <1>2, <1>3, <1>4, <1>5, <1>6, <1>7 DEF TypeInv, TypeOK

(* What a caller's step leaves alone keeps its type.                       *)
LEMMA BesidesCallerType ==
  ASSUME TypeOK, UNCHANGED besidesCaller
  PROVE  /\ WorkerTypeOK' /\ MonitorTypeOK' /\ FlushTypeOK' /\ DrainTypeOK'
         /\ (stopFlag \in BOOLEAN)' /\ (loop \in {"up", "ended", "none"})'
BY DEF TypeOK, besidesCaller, workerVars, monitorVars, flushVars, drainVars,
       WorkerTypeOK, MonitorTypeOK, FlushTypeOK, DrainTypeOK

LEMMA CallerType ==
  ASSUME TypeInv, NEW c \in Callers,
         CallerStep(c) \/ \E e \in Events : Submit(c, e)
  PROVE  TypeInv'
<1> USE DEF TypeInv, HandHeld, TypeOK, CallerTypeOK, CountTypeOK, HistoryTypeOK
<1>1. ASSUME NEW e \in Events, Submit(c, e)
      PROVE  TypeInv'
  <2>1. QueueTypeOK'
    BY <1>1 DEF Submit, queueVars, QueueTypeOK
  <2>2. CallerTypeOK' /\ CountTypeOK' /\ HistoryTypeOK' /\ HandHeld'
    BY <1>1 DEF Submit, Fates
  <2> QED
    BY <1>1, <2>1, <2>2, BesidesCallerType DEF Submit
<1>2. ASSUME CallStart(c)
      PROVE  TypeInv'
  <2>1. QueueTypeOK' /\ CountTypeOK' /\ HistoryTypeOK'
    BY <1>2 DEF CallStart, queueVars, QueueTypeOK, countVars, historyVars
  <2>2. CallerTypeOK' /\ HandHeld'
    BY <1>2 DEF CallStart
  <2> QED
    BY <1>2, <2>1, <2>2, BesidesCallerType DEF CallStart
<1>3. ASSUME EnqueueOk(c)
      PROVE  TypeInv'
  <2>1. hand[c] \in Events
    BY <1>3 DEF EnqueueOk
  <2>2. QueueTypeOK'
    BY <1>3, <2>1, PutType DEF EnqueueOk
  <2>3. CallerTypeOK' /\ CountTypeOK' /\ HistoryTypeOK' /\ HandHeld'
    BY <1>3, <2>1, PipelineAssumption DEF EnqueueOk, countVars
  <2> QED
    BY <1>3, <2>2, <2>3, BesidesCallerType DEF EnqueueOk
<1>4. ASSUME EnqueueRetry(c)
      PROVE  TypeInv'
  <2>1. QueueTypeOK'
    BY <1>4, RefuseType DEF EnqueueRetry
  <2>2. CallerTypeOK' /\ CountTypeOK' /\ HistoryTypeOK' /\ HandHeld'
    BY <1>4, PipelineAssumption
       DEF EnqueueRetry, MayRetry, countVars, historyVars
  <2> QED
    BY <1>4, <2>1, <2>2, BesidesCallerType DEF EnqueueRetry
<1>5. ASSUME EnqueueGiveUp(c)
      PROVE  TypeInv'
  <2>1. QueueTypeOK'
    BY <1>5, RefuseType DEF EnqueueGiveUp
  <2>2. CallerTypeOK' /\ CountTypeOK' /\ HistoryTypeOK' /\ HandHeld'
    BY <1>5 DEF EnqueueGiveUp, countVars, historyVars
  <2> QED
    BY <1>5, <2>1, <2>2, BesidesCallerType DEF EnqueueGiveUp
<1>6. ASSUME ReadDropped(c)
      PROVE  TypeInv'
  <2>1. QueueTypeOK' /\ CountTypeOK' /\ HistoryTypeOK'
    BY <1>6 DEF ReadDropped, queueVars, QueueTypeOK, countVars, historyVars
  <2>2. CallerTypeOK' /\ HandHeld'
    BY <1>6 DEF ReadDropped
  <2> QED
    BY <1>6, <2>1, <2>2, BesidesCallerType DEF ReadDropped
<1>7. ASSUME WriteDropped(c)
      PROVE  TypeInv'
  <2>1. QueueTypeOK'
    BY <1>7 DEF WriteDropped, queueVars, QueueTypeOK
  <2>2. CallerTypeOK' /\ CountTypeOK' /\ HistoryTypeOK' /\ HandHeld'
    BY <1>7, PipelineAssumption DEF WriteDropped, Fates
  <2> QED
    BY <1>7, <2>1, <2>2, BesidesCallerType DEF WriteDropped
<1> QED
  BY <1>1, <1>2, <1>3, <1>4, <1>5, <1>6, <1>7 DEF CallerStep

(* What a task of the event loop leaves alone keeps its type.              *)
LEMMA BesidesLoopType ==
  ASSUME TypeInv, UNCHANGED besidesLoop
  PROVE  /\ CallerTypeOK' /\ FlushTypeOK' /\ DrainTypeOK' /\ HandHeld'
         /\ (stopFlag \in BOOLEAN)' /\ (loop \in {"up", "ended", "none"})'
BY DEF TypeInv, TypeOK, besidesLoop, callerVars, flushVars, drainVars,
       CallerTypeOK, FlushTypeOK, DrainTypeOK, HandHeld

LEMMA QueueSame ==
  ASSUME QueueTypeOK, UNCHANGED queueVars
  PROVE  QueueTypeOK'
BY DEF QueueTypeOK, queueVars

LEMMA CountsSame ==
  ASSUME CountTypeOK, HistoryTypeOK, UNCHANGED countVars, UNCHANGED historyVars
  PROVE  CountTypeOK' /\ HistoryTypeOK'
BY DEF CountTypeOK, HistoryTypeOK, countVars, historyVars

LEMMA MonitorSame ==
  ASSUME MonitorTypeOK, UNCHANGED monitorVars
  PROVE  MonitorTypeOK'
BY DEF MonitorTypeOK, monitorVars

LEMMA AfterFlushType ==
  ASSUME NEW w
  PROVE  AfterFlush(w) \in {"exited", "ack", "top"}
BY DEF AfterFlush

LEMMA CollectType ==
  ASSUME WorkerTypeOK, NEW w \in Workers, NEW e \in Events, Collect(w, e)
  PROVE  /\ batch' \in [Workers -> Seq(Events)]
         /\ wpc' \in [Workers -> {"off", "ready", "top", "checkFlush", "take",
                          "takeMain", "pause", "drain", "drainMain", "flush",
                          "enriching", "writing", "ack", "signal", "exited"}]
         /\ why' \in [Workers -> {"stop", "flush", "size", "deadline"}]
<1>1. Append(batch[w], e) \in Seq(Events)
  BY AppendProperties DEF WorkerTypeOK
<1> QED
  BY <1>1 DEF Collect, WorkerTypeOK

(* The counts of a batch are numbers.                                      *)
LEMMA InBatchType ==
  ASSUME WorkerTypeOK, NEW w \in Workers, NEW f
  PROVE  InBatch(w, f) \in Nat
<1> DEFINE S == {i \in DOMAIN batch[w] : fate[batch[w][i]] = f}
<1>1. DOMAIN batch[w] = 1..Len(batch[w]) /\ Len(batch[w]) \in Nat
  BY DEF WorkerTypeOK
<1>2. IsFiniteSet(1..Len(batch[w]))
  BY <1>1, FS_Interval
<1>3. IsFiniteSet(S)
  BY <1>1, <1>2, FS_Subset
<1> QED
  BY <1>3, FS_CardinalityType DEF InBatch

(* The steps that only move a worker along, or move one event to its batch. *)
LEMMA WorkerMoves ==
  ASSUME TypeInv, NEW w \in Workers,
         \/ Resume(w) \/ CheckStop(w) \/ CheckFlush(w) \/ NoProtected(w)
         \/ NoMain(w) \/ DeadlineFlush(w) \/ Sleep(w) \/ Enrich(w) \/ FlushNothing(w)
  PROVE  TypeInv'
<1> USE DEF TypeInv, TypeOK
<1>1. QueueTypeOK' /\ MonitorTypeOK' /\ CountTypeOK' /\ HistoryTypeOK'
  BY QueueSame, CountsSame, MonitorSame
     DEF Resume, CheckStop, CheckFlush, NoProtected, NoMain, DeadlineFlush, Sleep,
         Enrich, FlushNothing
<1>2. UNCHANGED besidesLoop
  BY DEF Resume, CheckStop, CheckFlush, NoProtected, NoMain, DeadlineFlush, Sleep,
         Enrich, FlushNothing
<1>3. WorkerTypeOK'
  <2> USE DEF WorkerTypeOK
  <2>1. CASE Resume(w)
    BY <2>1 DEF Resume
  <2>2. CASE CheckStop(w)
    BY <2>2 DEF CheckStop
  <2>3. CASE CheckFlush(w)
    BY <2>3 DEF CheckFlush
  <2>4. CASE NoProtected(w) \/ NoMain(w)
    BY <2>4 DEF NoProtected, NoMain
  <2>5. CASE DeadlineFlush(w)
    BY <2>5 DEF DeadlineFlush
  <2>6. CASE Sleep(w)
    BY <2>6 DEF Sleep
  <2>7. CASE FlushNothing(w)
    BY <2>7, AfterFlushType DEF FlushNothing
  <2>8. CASE Enrich(w)
    BY <2>8 DEF Enrich
  <2> QED
    BY <2>1, <2>2, <2>3, <2>4, <2>5, <2>6, <2>7, <2>8
<1> QED
  BY <1>1, <1>2, <1>3, BesidesLoopType

LEMMA WorkerTakes ==
  ASSUME TypeInv, NEW w \in Workers,
         \/ TakeProtected(w) \/ TakeMain(w) \/ DrainProtected(w) \/ DrainMain(w)
  PROVE  TypeInv'
<1> USE DEF TypeInv, TypeOK
<1>1. QueueTypeOK'
  BY PopType, QueueSame
     DEF TakeProtected, TakeMain, DrainProtected, DrainMain, queueVars
<1>2. MonitorTypeOK' /\ CountTypeOK' /\ HistoryTypeOK'
  BY CountsSame, MonitorSame DEF TakeProtected, TakeMain, DrainProtected, DrainMain
<1>3. UNCHANGED besidesLoop
  BY DEF TakeProtected, TakeMain, DrainProtected, DrainMain
<1>4. WorkerTypeOK'
  <2>1. CASE TakeProtected(w)
    BY <2>1, HeadType, CollectType DEF TakeProtected, PopProtected, WorkerTypeOK
  <2>2. CASE TakeMain(w)
    BY <2>2, HeadType, CollectType DEF TakeMain, PopMain, WorkerTypeOK
  <2>3. CASE DrainProtected(w)
    <3>1. prot # <<>> => Append(batch[w], Head(prot)) \in Seq(Events)
      BY HeadType, AppendProperties DEF WorkerTypeOK
    <3> QED
      BY <2>3, <3>1 DEF DrainProtected, PopProtected, WorkerTypeOK
  <2>4. CASE DrainMain(w)
    <3>1. main # <<>> => Append(batch[w], Head(main)) \in Seq(Events)
      BY HeadType, AppendProperties DEF WorkerTypeOK
    <3> QED
      BY <2>4, <3>1 DEF DrainMain, PopMain, WorkerTypeOK
  <2> QED
    BY <2>1, <2>2, <2>3, <2>4
<1> QED
  BY <1>1, <1>2, <1>3, <1>4, BesidesLoopType

LEMMA WorkerFlushes ==
  ASSUME TypeInv, NEW w \in Workers,
         Prepare(w) \/ SinkStep(w) \/ Account(w) \/ ClearRequest(w) \/ SignalFlushed(w)
  PROVE  TypeInv'
<1> USE DEF TypeInv, TypeOK
<1>1. CASE Prepare(w)
  <2>1. WorkerTypeOK'
    BY <1>1 DEF Prepare, WorkerTypeOK
  <2>2. CountTypeOK' /\ HistoryTypeOK'
    BY <1>1 DEF Prepare, CountTypeOK, HistoryTypeOK, Fates, countVars
  <2> QED
    BY <1>1, <2>1, <2>2, BesidesLoopType, QueueSame, MonitorSame DEF Prepare
<1>2. CASE SinkStep(w)
  <2>1. PICK i \in DOMAIN batch[w], o \in SinkResults : WriteDone(w, i, o)
    BY <1>2 DEF SinkStep
  <2>2. batch[w][i] \in Events
    BY <2>1 DEF WorkerTypeOK
  <2>3. HistoryTypeOK'
    <3>1. Append(written, batch[w][i]) \in Seq(Events)
      BY <2>2, AppendProperties DEF HistoryTypeOK
    <3>2. o \in Fates
      BY PipelineAssumption DEF Fates
    <3>3. fate' = [fate EXCEPT ![batch[w][i]] = o] /\ accepted' = accepted
      BY <2>1 DEF WriteDone
    <3>4. written' \in {written, Append(written, batch[w][i])}
      BY <2>1 DEF WriteDone
    <3> QED
      BY <3>1, <3>2, <3>3, <3>4 DEF HistoryTypeOK
  <2>4. WorkerTypeOK' /\ CountTypeOK'
    <3>1. UNCHANGED workerVars /\ UNCHANGED countVars
      BY <2>1 DEF WriteDone
    <3> QED
      BY <3>1 DEF WorkerTypeOK, CountTypeOK, workerVars, countVars
  <2> QED
    BY <2>1, <2>3, <2>4, BesidesLoopType, QueueSame, MonitorSame DEF WriteDone
<1>3. CASE Account(w)
  <2>1. WorkerTypeOK'
    BY <1>3, AfterFlushType, EmptySeq DEF Account, WorkerTypeOK
  <2>2. CountTypeOK' /\ HistoryTypeOK'
    BY <1>3, InBatchType DEF Account, CountTypeOK, HistoryTypeOK, historyVars
  <2> QED
    BY <1>3, <2>1, <2>2, BesidesLoopType, QueueSame, MonitorSame DEF Account
<1>4. CASE ClearRequest(w) \/ SignalFlushed(w)
  <2>1. WorkerTypeOK' /\ FlushTypeOK'
    BY <1>4 DEF ClearRequest, SignalFlushed, WorkerTypeOK, FlushTypeOK
  <2>2. CallerTypeOK' /\ HandHeld' /\ DrainTypeOK'
    BY <1>4 DEF ClearRequest, SignalFlushed, CallerTypeOK, HandHeld, DrainTypeOK,
                callerVars, drainVars
  <2> QED
    BY <1>4, <2>1, <2>2, QueueSame, CountsSame, MonitorSame
       DEF ClearRequest, SignalFlushed
<1> QED
  BY <1>1, <1>2, <1>3, <1>4

LEMMA ThreadEndsType ==
  ASSUME TypeInv, ThreadEnds
  PROVE  TypeInv'
<1> USE DEF TypeInv, TypeOK
<1>1. WorkerTypeOK'
  BY EmptySeq DEF ThreadEnds, WorkerTypeOK
<1>2. CountTypeOK' /\ HistoryTypeOK'
  BY DEF ThreadEnds, CountTypeOK, HistoryTypeOK, countVars, Fates
<1>3. QueueTypeOK' /\ MonitorTypeOK'
  BY QueueSame, MonitorSame DEF ThreadEnds
<1>4. CallerTypeOK' /\ HandHeld' /\ FlushTypeOK' /\ DrainTypeOK'
  BY DEF ThreadEnds, CallerTypeOK, HandHeld, FlushTypeOK, DrainTypeOK, callerVars,
         flushVars, drainVars
<1> QED
  BY <1>1, <1>2, <1>3, <1>4 DEF ThreadEnds

LEMMA MonitorType ==
  ASSUME TypeInv,
         \/ BeginTick \/ MonitorStep
         \/ \E w \in Dynamic : AddWorker(w) \/ RetireWorker(w)
  PROVE  TypeInv'
<1> USE DEF TypeInv, TypeOK
<1>1. CASE BeginTick
  <2>1. WorkerTypeOK' /\ MonitorTypeOK'
    BY <1>1 DEF BeginTick, WorkerTypeOK, MonitorTypeOK
  <2> QED
    BY <1>1, <2>1, BesidesLoopType, QueueSame, CountsSame DEF BeginTick
<1>2. CASE \E w \in Dynamic : AddWorker(w) \/ RetireWorker(w)
  <2>1. PICK w \in Dynamic : AddWorker(w) \/ RetireWorker(w)
    BY <1>2
  <2>2. WorkerTypeOK'
    BY <2>1 DEF AddWorker, RetireWorker, WorkerTypeOK, Workers
  <2> QED
    BY <2>1, <2>2, BesidesLoopType, QueueSame, CountsSame, MonitorSame
       DEF AddWorker, RetireWorker
<1>3. CASE SampleProtected
  <2>1. Len(prot) \in Nat
    BY DEF QueueTypeOK
  <2>2. WorkerTypeOK' /\ MonitorTypeOK'
    BY <1>3, <2>1
       DEF SampleProtected, ProtectedDepth, WorkerTypeOK, MonitorTypeOK, workerVars
  <2> QED
    BY <1>3, <2>2, BesidesLoopType, QueueSame, CountsSame DEF SampleProtected
<1>4. CASE EvaluateShedding
  <2>1. QueueTypeOK'
    BY <1>4, SheddingType, QueueSame DEF EvaluateShedding
  <2>2. WorkerTypeOK' /\ MonitorTypeOK'
    BY <1>4 DEF EvaluateShedding, WorkerTypeOK, MonitorTypeOK
  <2> QED
    BY <1>4, <2>1, <2>2, BesidesLoopType, CountsSame DEF EvaluateShedding
<1> QED
  BY <1>1, <1>2, <1>3, <1>4 DEF MonitorStep

LEMMA FlushType ==
  ASSUME TypeInv, CallFlush \/ RequestFlush \/ FlushReturns \/ FlushTimesOut
  PROVE  TypeInv'
<1> USE DEF TypeInv, TypeOK
<1>1. UNCHANGED besidesFlush
  BY DEF CallFlush, RequestFlush, FlushReturns, FlushTimesOut, besidesFlush
<1>2. /\ QueueTypeOK' /\ CallerTypeOK' /\ HandHeld' /\ WorkerTypeOK' /\ MonitorTypeOK'
      /\ DrainTypeOK' /\ CountTypeOK' /\ HistoryTypeOK'
      /\ (stopFlag \in BOOLEAN)' /\ (loop \in {"up", "ended", "none"})'
  <2>1. QueueTypeOK' /\ MonitorTypeOK' /\ CountTypeOK' /\ HistoryTypeOK'
    BY <1>1, QueueSame, MonitorSame, CountsSame DEF besidesFlush
  <2> QED
    BY <1>1, <2>1
       DEF besidesFlush, callerVars, workerVars, drainVars, CallerTypeOK, HandHeld,
           WorkerTypeOK, DrainTypeOK
<1>3. FlushTypeOK'
  <2> USE DEF FlushTypeOK
  <2>1. CASE CallFlush
    <3>1. flushDone' \in BOOLEAN /\ flushEvent' \in BOOLEAN
      BY <2>1, Zenon DEF CallFlush
    <3>2. flushes' \in 0..MaxFlushes
      BY <2>1, PipelineAssumption DEF CallFlush
    <3>3. fpc' = "request" /\ goal' \subseteq Events
      BY <2>1 DEF CallFlush
    <3> QED
      BY <3>1, <3>2, <3>3
  <2>2. CASE RequestFlush
    BY <2>2 DEF RequestFlush
  <2>3. CASE FlushReturns \/ FlushTimesOut
    BY <2>3 DEF FlushReturns, FlushTimesOut
  <2> QED
    BY <2>1, <2>2, <2>3
<1> QED
  BY <1>2, <1>3

LEMMA DrainType ==
  ASSUME TypeInv, BeginDrain \/ DrainStep
  PROVE  TypeInv'
<1> USE DEF TypeInv, TypeOK
<1>1. CASE BeginDrain
  <2>1. WorkerTypeOK' /\ DrainTypeOK'
    BY <1>1 DEF BeginDrain, WorkerTypeOK, DrainTypeOK
  <2>2. CallerTypeOK' /\ HandHeld' /\ FlushTypeOK'
    BY <1>1 DEF BeginDrain, CallerTypeOK, HandHeld, FlushTypeOK, callerVars, flushVars
  <2> QED
    BY <1>1, <2>1, <2>2, QueueSame, MonitorSame, CountsSame DEF BeginDrain
<1>2. CASE DrainStep
  <2>1. UNCHANGED besidesDrain
    BY <1>2 DEF DrainStep, RaiseStop, Join, CountProtected, CountMain, ReadOrphans,
                AddOrphans, Report
  <2>2. CallerTypeOK' /\ HandHeld' /\ WorkerTypeOK' /\ MonitorTypeOK' /\ FlushTypeOK'
    BY <2>1, MonitorSame
       DEF besidesDrain, callerVars, workerVars, flushVars, CallerTypeOK, HandHeld,
           WorkerTypeOK, FlushTypeOK
  <2>3. CASE RaiseStop \/ Join
    <3>1. DrainTypeOK' /\ (stopFlag \in BOOLEAN)' /\ (loop \in {"up", "ended", "none"})'
      BY <2>3 DEF RaiseStop, Join, DrainTypeOK
    <3> QED
      BY <2>2, <2>3, <3>1, QueueSame, CountsSame DEF RaiseStop, Join
  <2>4. CASE CountProtected \/ CountMain
    <3>1. QueueTypeOK'
      BY <2>4, PopType, QueueSame DEF CountProtected, CountMain
    <3>2. DrainTypeOK' /\ CountTypeOK' /\ HistoryTypeOK'
      BY <2>4 DEF CountProtected, CountMain, DrainTypeOK, CountTypeOK, HistoryTypeOK,
                  Fates, countVars
    <3> QED
      BY <2>2, <2>4, <3>1, <3>2 DEF CountProtected, CountMain
  <2>5. CASE ReadOrphans \/ AddOrphans \/ Report
    <3>1. DrainTypeOK' /\ CountTypeOK'
      BY <2>5 DEF ReadOrphans, AddOrphans, Report, DrainTypeOK, CountTypeOK, countVars
    <3>2. HistoryTypeOK'
      BY <2>5 DEF ReadOrphans, AddOrphans, Report, HistoryTypeOK, historyVars
    <3> QED
      BY <2>2, <2>5, <3>1, <3>2, QueueSame DEF ReadOrphans, AddOrphans, Report
  <2> QED
    BY <1>2, <2>3, <2>4, <2>5 DEF DrainStep
<1> QED
  BY <1>1, <1>2

LEMMA StutterType ==
  ASSUME TypeInv, UNCHANGED vars
  PROVE  TypeInv'
<1> USE DEF TypeInv, TypeOK, vars
<1>1. QueueTypeOK' /\ MonitorTypeOK' /\ CountTypeOK' /\ HistoryTypeOK'
  BY QueueSame, MonitorSame, CountsSame
<1>2. CallerTypeOK' /\ HandHeld' /\ WorkerTypeOK' /\ FlushTypeOK' /\ DrainTypeOK'
  BY DEF callerVars, workerVars, flushVars, drainVars, CallerTypeOK, HandHeld,
         WorkerTypeOK, FlushTypeOK, DrainTypeOK
<1> QED
  BY <1>1, <1>2

LEMMA NextType ==
  ASSUME TypeInv, [Next]_vars
  PROVE  TypeInv'
BY CallerType, WorkerMoves, WorkerTakes, WorkerFlushes, ThreadEndsType, MonitorType,
   FlushType, DrainType, StutterType
   DEF Next, LoopStep, Finished

(* Every variable keeps its type: whatever the threads do, counters stay    *)
(* numbers, retries stay within the wait budget, and every place that holds *)
(* an event holds one.                                                     *)
THEOREM TypeCorrect == Spec => []TypeOK
<1>1. Init => TypeInv
  BY InitType
<1>2. TypeInv /\ [Next]_vars => TypeInv'
  BY NextType
<1>3. TypeInv => TypeOK
  BY DEF TypeInv
<1> QED
  BY <1>1, <1>2, <1>3, PTL DEF Spec

-----------------------------------------------------------------------------
(* The queues.                                                             *)

(* Which steps change the queues, and how.                                 *)
QueuesMove ==
  \/ UNCHANGED <<main, prot>>
  \/ \E c \in Callers : EnqueueOk(c)
  \/ PopProtected
  \/ \E w \in Workers : TakeMain(w)
  \/ \E w \in Workers : DrainMain(w) /\ PopMain
  \/ CountMain /\ PopMain

LEMMA QueueSteps ==
  ASSUME [Next]_vars
  PROVE  QueuesMove
<1> USE DEF queueVars
<1>1. ASSUME NEW c \in Callers, NEW e \in Events, Submit(c, e)
      PROVE  QueuesMove
  BY <1>1 DEF Submit, QueuesMove
<1>2. ASSUME NEW c \in Callers, CallerStep(c)
      PROVE  QueuesMove
  <2>1. EnqueueOk(c) \/ UNCHANGED <<main, prot>>
    BY <1>2 DEF CallerStep, CallStart, EnqueueRetry, EnqueueGiveUp, ReadDropped,
                WriteDropped, Refuse
  <2> QED
    BY <2>1 DEF QueuesMove
<1>3. ASSUME NEW w \in Workers, LoopStep(w) \/ Prepare(w)
      PROVE  QueuesMove
  <2>1. CASE \/ CheckStop(w) \/ CheckFlush(w) \/ NoProtected(w) \/ NoMain(w)
             \/ DeadlineFlush(w) \/ Sleep(w) \/ Prepare(w) \/ Enrich(w) \/ FlushNothing(w)
             \/ ClearRequest(w) \/ SignalFlushed(w)
    <3>1. UNCHANGED <<main, prot>>
      BY <2>1 DEF CheckStop, CheckFlush, NoProtected, NoMain, DeadlineFlush, Sleep,
                  Prepare, Enrich, FlushNothing, ClearRequest, SignalFlushed
    <3> QED
      BY <3>1 DEF QueuesMove
  <2>2. CASE TakeProtected(w) \/ DrainProtected(w)
    <3>1. PopProtected \/ UNCHANGED <<main, prot>>
      BY <2>2 DEF TakeProtected, DrainProtected
    <3> QED
      BY <3>1 DEF QueuesMove
  <2>3. CASE DrainMain(w)
    <3>1. PopMain \/ UNCHANGED <<main, prot>>
      BY <2>3 DEF DrainMain
    <3> QED
      BY <2>3, <3>1 DEF QueuesMove
  <2>4. CASE TakeMain(w)
    BY <2>4 DEF QueuesMove
  <2> QED
    BY <1>3, <2>1, <2>2, <2>3, <2>4 DEF LoopStep
<1>4. ASSUME NEW w \in Workers, Resume(w) \/ SinkStep(w) \/ Account(w)
      PROVE  QueuesMove
  BY <1>4 DEF Resume, SinkStep, WriteDone, Account, QueuesMove
<1>5. ASSUME \/ ThreadEnds \/ BeginTick \/ MonitorStep
             \/ \E w \in Dynamic : AddWorker(w) \/ RetireWorker(w)
      PROVE  QueuesMove
  BY <1>5 DEF ThreadEnds, BeginTick, MonitorStep, SampleProtected, EvaluateShedding,
              SetShedding, AddWorker, RetireWorker, QueuesMove
<1>6. ASSUME \/ CallFlush \/ RequestFlush \/ FlushReturns \/ FlushTimesOut
             \/ BeginDrain \/ UNCHANGED vars
      PROVE  QueuesMove
  BY <1>6 DEF CallFlush, RequestFlush, FlushReturns, FlushTimesOut, BeginDrain,
              besidesFlush, vars, QueuesMove
<1>7. ASSUME DrainStep
      PROVE  QueuesMove
  <2>1. CASE CountMain
    <3>1. PopMain \/ UNCHANGED <<main, prot>>
      BY <2>1 DEF CountMain
    <3> QED
      BY <2>1, <3>1 DEF QueuesMove
  <2>2. CASE RaiseStop \/ Join \/ CountProtected \/ ReadOrphans \/ AddOrphans \/ Report
    <3>1. PopProtected \/ UNCHANGED <<main, prot>>
      BY <2>2 DEF RaiseStop, Join, CountProtected, ReadOrphans, AddOrphans, Report
    <3> QED
      BY <3>1 DEF QueuesMove
  <2> QED
    BY <1>7, <2>1, <2>2 DEF DrainStep
<1> QED
  BY <1>1, <1>2, <1>3, <1>4, <1>5, <1>6, <1>7 DEF Next, Finished

LEMMA PopShortens ==
  ASSUME QueueTypeOK
  PROVE  /\ PopMain => Len(main') = Len(main) - 1 /\ prot' = prot
         /\ PopProtected => Len(prot') = Len(prot) - 1 /\ main' = main
         /\ Len(main) \in Nat /\ Len(prot) \in Nat
BY HeadTailProperties DEF QueueTypeOK, PopMain, PopProtected

LEMMA PutLengthens ==
  ASSUME QueueTypeOK, NEW e \in Events, Put(e)
  PROVE  /\ Len(main') = Len(main) + (IF e \in Protected THEN 0 ELSE 1)
         /\ Len(prot') = Len(prot) + (IF e \in Protected THEN 1 ELSE 0)
BY AppendProperties DEF QueueTypeOK, Put

LEMMA BoundStep ==
  ASSUME TypeInv, QueueBound, [Next]_vars
  PROVE  QueueBound'
<1> USE DEF TypeInv, TypeOK, QueueBound
<1>1. CASE UNCHANGED <<main, prot>>
  BY <1>1
<1>2. ASSUME NEW c \in Callers, EnqueueOk(c)
      PROVE  QueueBound'
  <2>1. hand[c] \in Events
    BY <1>2 DEF EnqueueOk, HandHeld
  <2> QED
    BY <1>2, <2>1, PutLengthens, PopShortens, QueueAssumption DEF EnqueueOk, Admits
<1>3. CASE PopProtected \/ PopMain
  BY <1>3, PopShortens, QueueAssumption
<1> QED
  BY <1>1, <1>2, <1>3, QueueSteps DEF QueuesMove, TakeMain

(* No queue ever holds more than its capacity, however many threads         *)
(* enqueue while workers and a drain remove.                               *)
THEOREM BoundedQueues == Spec => []QueueBound
<1>1. Init => TypeInv /\ QueueBound
  BY InitType, QueueAssumption DEF Init, QueueInit, QueueBound
<1>2. TypeInv /\ QueueBound /\ [Next]_vars => (TypeInv /\ QueueBound)'
  BY NextType, BoundStep
<1> QED
  BY <1>1, <1>2, PTL DEF Spec

-----------------------------------------------------------------------------
(* The event loop and the drain.                                           *)

(* A task that runs is where run() computes; the monitor runs in its tick. *)
HolderRuns ==
  /\ \A w \in Workers : holder = w => wpc[w] \notin {"off", "ready", "exited"}
  /\ holder = Monitor <=> monitor # "asleep"

(* A task that has not begun, or has ended, holds no event.                *)
EmptyHanded == \A w \in Workers : wpc[w] \in {"off", "exited"} => batch[w] = <<>>

(* Past the end of the worker thread no task is left.                      *)
LoopQuiet ==
  loop # "up" => /\ holder = NoOne
                 /\ \A w \in Workers : wpc[w] \in {"off", "exited"}

(* The drainer counts orphans only when the thread is gone.                *)
CountsAfterJoin == dpc \notin {"idle", "stop", "join"} => loop = "none"

(* What is about to be taken from the main queue may be, and why.          *)
MainIsOpen ==
  /\ \A w \in Workers : wpc[w] = "takeMain" => MainVisible
  /\ dpc = "countMain" => MainVisible
  /\ \A w \in Workers : wpc[w] \in {"drain", "drainMain"} => why[w] \in {"flush", "stop"}

LoopInv ==
  /\ OneAtATime /\ HolderRuns /\ EmptyHanded /\ LoopQuiet
  /\ CountsAfterJoin /\ MainIsOpen

LEMMA LoopInvInit == Init => LoopInv
BY PipelineAssumption
   DEF Init, QueueInit, MainVisible, LoopInv, OneAtATime, HolderRuns, EmptyHanded,
       LoopQuiet, CountsAfterJoin, MainIsOpen, Workers

(* Steps that touch nothing the invariant speaks of.                       *)
LEMMA LoopInvAside ==
  ASSUME LoopInv,
         UNCHANGED <<holder, monitor, wpc, why, batch, loop, dpc, shedding>>
  PROVE  LoopInv'
BY DEF LoopInv, OneAtATime, HolderRuns, EmptyHanded, LoopQuiet, CountsAfterJoin,
       MainIsOpen, MainVisible

LEMMA LoopInvCaller ==
  ASSUME LoopInv, NEW c \in Callers,
         CallerStep(c) \/ \E e \in Events : Submit(c, e)
  PROVE  LoopInv'
<1>1. UNCHANGED besidesCaller /\ UNCHANGED shedding
  BY DEF CallerStep, Submit, CallStart, EnqueueOk, EnqueueRetry, EnqueueGiveUp,
         ReadDropped, WriteDropped, Put, Refuse, queueVars
<1> QED
  BY <1>1, LoopInvAside DEF besidesCaller, workerVars, monitorVars, drainVars

LEMMA LoopInvFlusher ==
  ASSUME LoopInv,
         \/ CallFlush \/ RequestFlush \/ FlushReturns \/ FlushTimesOut
         \/ UNCHANGED vars
  PROVE  LoopInv'
<1>1. UNCHANGED besidesFlush
  BY DEF CallFlush, RequestFlush, FlushReturns, FlushTimesOut, besidesFlush, vars
<1> QED
  BY <1>1, LoopInvAside DEF besidesFlush, queueVars, workerVars, monitorVars, drainVars

(* Between two awaits only the holder moves.                               *)
LEMMA LoopInvHolder ==
  ASSUME TypeInv, LoopInv, NEW w \in Workers,
         Resume(w) \/ LoopStep(w) \/ Prepare(w) \/ SinkStep(w) \/ Account(w)
  PROVE  LoopInv'
<1> USE PipelineAssumption
    DEF TypeInv, TypeOK, WorkerTypeOK, LoopInv, OneAtATime, HolderRuns, EmptyHanded,
        LoopQuiet, CountsAfterJoin, MainIsOpen, MainVisible, besidesLoop, drainVars,
        monitorVars, queueVars
<1>1. CASE Resume(w)
  BY <1>1 DEF Resume
<1>2. CASE CheckStop(w) \/ CheckFlush(w)
  <2>1. /\ holder = w /\ holder' = w /\ UNCHANGED <<besidesLoop, queueVars, batch, monitorVars>>
        /\ \/ /\ wpc' = [wpc EXCEPT ![w] = "drain"]
              /\ \E r \in {"stop", "flush"} : why' = [why EXCEPT ![w] = r]
           \/ /\ \E p \in {"checkFlush", "take"} : wpc' = [wpc EXCEPT ![w] = p]
              /\ why' = why
    BY <1>2 DEF CheckStop, CheckFlush
  <2>2. UNCHANGED <<loop, dpc, shedding, monitor, batch>>
    BY <2>1
  <2>3. wpc[w] \notin {"off", "ready", "exited"} /\ loop = "up"
    BY <2>1
  <2>4. /\ wpc'[w] \in {"drain", "checkFlush", "take"}
        /\ wpc'[w] = "drain" => why'[w] \in {"flush", "stop"}
        /\ \A v \in Workers \ {w} : wpc'[v] = wpc[v] /\ why'[v] = why[v]
    BY <2>1
  <2>5. OneAtATime' /\ HolderRuns' /\ EmptyHanded'
    BY <2>1, <2>2, <2>3, <2>4
  <2>6. LoopQuiet' /\ CountsAfterJoin' /\ MainIsOpen'
    BY <2>2, <2>3, <2>4
  <2> QED
    BY <2>5, <2>6
<1>3. CASE TakeProtected(w) \/ TakeMain(w)
  <2>1. CASE TakeProtected(w)
    BY <2>1 DEF TakeProtected, Collect, PopProtected
  <2>2. CASE TakeMain(w)
    BY <2>2 DEF TakeMain, Collect, PopMain
  <2> QED
    BY <1>3, <2>1, <2>2
<1>4. CASE NoProtected(w) \/ NoMain(w)
  BY <1>4 DEF NoProtected, NoMain
<1>5. CASE DeadlineFlush(w) \/ Sleep(w)
  <2>1. CASE DeadlineFlush(w)
    BY <2>1 DEF DeadlineFlush
  <2>2. CASE Sleep(w)
    BY <2>2 DEF Sleep
  <2> QED
    BY <1>5, <2>1, <2>2
<1>6. CASE DrainProtected(w) \/ DrainMain(w)
  BY <1>6 DEF DrainProtected, DrainMain, PopProtected, PopMain
<1>7. CASE Prepare(w)
  <2>1. /\ holder = NoOne /\ loop = "up" /\ holder' \in {NoOne, w}
        /\ wpc[w] = "enriching" /\ wpc' = [wpc EXCEPT ![w] = "writing"]
        /\ UNCHANGED <<besidesLoop, queueVars, why, batch, monitorVars>>
    BY <1>7 DEF Prepare
  <2> QED
    BY <2>1
<1>8. CASE Enrich(w) \/ FlushNothing(w)
  <2>1. CASE Enrich(w)
    BY <2>1 DEF Enrich
  <2>2. CASE FlushNothing(w)
    BY <2>2 DEF FlushNothing, AfterFlush
  <2> QED
    BY <1>8, <2>1, <2>2
<1>9. CASE SinkStep(w)
  BY <1>9 DEF SinkStep, WriteDone, workerVars
<1>10. CASE Account(w)
  BY <1>10 DEF Account, AfterFlush
<1>11. CASE ClearRequest(w) \/ SignalFlushed(w)
  BY <1>11 DEF ClearRequest, SignalFlushed
<1> QED
  BY <1>1, <1>2, <1>3, <1>4, <1>5, <1>6, <1>7, <1>8, <1>9, <1>10, <1>11 DEF LoopStep

LEMMA LoopInvMonitor ==
  ASSUME TypeInv, LoopInv,
         \/ BeginTick \/ MonitorStep
         \/ \E w \in Dynamic : AddWorker(w) \/ RetireWorker(w)
  PROVE  LoopInv'
<1> USE PipelineAssumption
    DEF TypeInv, TypeOK, WorkerTypeOK, LoopInv, OneAtATime, HolderRuns, EmptyHanded,
        LoopQuiet, CountsAfterJoin, MainIsOpen, MainVisible, besidesLoop, drainVars,
        monitorVars, workerVars, queueVars, Workers
<1>1. CASE BeginTick
  BY <1>1 DEF BeginTick
<1>2. ASSUME NEW w \in Dynamic, AddWorker(w) \/ RetireWorker(w)
      PROVE  LoopInv'
  BY <1>2 DEF AddWorker, RetireWorker
<1>3. CASE SampleProtected
  BY <1>3 DEF SampleProtected
<1>4. CASE EvaluateShedding
  BY <1>4 DEF EvaluateShedding, SetShedding
<1> QED
  BY <1>1, <1>2, <1>3, <1>4 DEF MonitorStep

LEMMA LoopInvDrain ==
  ASSUME TypeInv, LoopInv, ThreadEnds \/ BeginDrain \/ DrainStep
  PROVE  LoopInv'
<1> USE PipelineAssumption
    DEF TypeInv, TypeOK, WorkerTypeOK, LoopInv, OneAtATime, HolderRuns, EmptyHanded,
        LoopQuiet, CountsAfterJoin, MainIsOpen, MainVisible, besidesDrain, drainVars,
        monitorVars, workerVars, queueVars
<1>1. CASE ThreadEnds
  BY <1>1 DEF ThreadEnds
<1>2. CASE BeginDrain
  BY <1>2 DEF BeginDrain
<1>3. CASE RaiseStop \/ Join
  BY <1>3 DEF RaiseStop, Join
<1>4. CASE CountProtected \/ CountMain
  BY <1>4 DEF CountProtected, CountMain, PopProtected, PopMain
<1>5. CASE ReadOrphans \/ AddOrphans \/ Report
  BY <1>5 DEF ReadOrphans, AddOrphans, Report
<1> QED
  BY <1>1, <1>2, <1>3, <1>4, <1>5 DEF DrainStep

LEMMA LoopInvNext ==
  ASSUME TypeInv, LoopInv, [Next]_vars
  PROVE  LoopInv'
BY LoopInvCaller, LoopInvFlusher, LoopInvHolder, LoopInvMonitor, LoopInvDrain
   DEF Next, Finished

LEMMA LoopInvAlways == Spec => [](TypeInv /\ LoopInv)
<1>1. Init => TypeInv /\ LoopInv
  BY InitType, LoopInvInit
<1>2. (TypeInv /\ LoopInv) /\ [Next]_vars => (TypeInv /\ LoopInv)'
  BY NextType, LoopInvNext
<1> QED
  BY <1>1, <1>2, PTL DEF Spec

(* One event loop runs one task at a time: of all the workers and the       *)
(* monitor, those that do not hold the loop await.                         *)
THEOREM TasksTakeTurns == Spec => []OneAtATime
<1>1. TypeInv /\ LoopInv => OneAtATime
  BY DEF LoopInv
<1> QED
  BY <1>1, LoopInvAlways, PTL

(* Only ThreadEnds ends the thread.                                        *)
LEMMA LoopChanges ==
  ASSUME [Next]_vars, loop = "up", loop' # "up"
  PROVE  ThreadEnds
<1>1. ASSUME NEW c \in Callers, CallerStep(c) \/ \E e \in Events : Submit(c, e)
      PROVE  loop' = loop
  BY <1>1 DEF CallerStep, Submit, CallStart, EnqueueOk, EnqueueRetry, EnqueueGiveUp,
              ReadDropped, WriteDropped, besidesCaller
<1>2. ASSUME NEW w \in Workers,
             Resume(w) \/ LoopStep(w) \/ Prepare(w) \/ SinkStep(w) \/ Account(w)
      PROVE  loop' = loop
  <2>1. CASE Resume(w) \/ LoopStep(w) \/ Prepare(w)
    BY <2>1 DEF Resume, LoopStep, CheckStop, CheckFlush, TakeProtected, NoProtected,
                TakeMain, NoMain, DeadlineFlush, Sleep, DrainProtected, DrainMain,
                Prepare, Enrich, FlushNothing, ClearRequest, SignalFlushed, besidesLoop
  <2>2. CASE SinkStep(w) \/ Account(w)
    BY <2>2 DEF SinkStep, WriteDone, Account, besidesLoop
  <2> QED
    BY <1>2, <2>1, <2>2
<1>3. ASSUME \/ BeginTick \/ MonitorStep
             \/ \E w \in Dynamic : AddWorker(w) \/ RetireWorker(w)
      PROVE  loop' = loop
  BY <1>3 DEF BeginTick, MonitorStep, SampleProtected, EvaluateShedding, AddWorker,
              RetireWorker, besidesLoop
<1>4. ASSUME \/ CallFlush \/ RequestFlush \/ FlushReturns \/ FlushTimesOut
             \/ UNCHANGED vars
      PROVE  loop' = loop
  BY <1>4 DEF CallFlush, RequestFlush, FlushReturns, FlushTimesOut, besidesFlush, vars
<1>5. ASSUME BeginDrain \/ DrainStep
      PROVE  loop' = loop \/ loop = "ended"
  BY <1>5 DEF BeginDrain, DrainStep, RaiseStop, Join, CountProtected, CountMain,
              ReadOrphans, AddOrphans, Report
<1> QED
  BY <1>1, <1>2, <1>3, <1>4, <1>5 DEF Next, Finished

(* "ensures the loop stops only after ALL workers finish": whatever the      *)
(* interleaving of stop flag, flush requests and writes, the thread ends    *)
(* with no event in an initial worker's batch.                             *)
THEOREM NoInitialBatchLost == Spec => DrainWaitsForAll
<1>1. TypeInv /\ LoopInv /\ [Next]_vars =>
        [loop = "up" /\ loop' # "up" => \A w \in Initial : batch[w] = <<>>]_vars
  <2> SUFFICES ASSUME TypeInv, LoopInv, [Next]_vars, loop = "up", loop' # "up"
               PROVE  \A w \in Initial : batch[w] = <<>>
    OBVIOUS
  <2>1. ThreadEnds
    BY LoopChanges
  <2> QED
    BY <2>1 DEF ThreadEnds, WorkersDone, LoopInv, EmptyHanded, Workers
<1> QED
  BY <1>1, LoopInvAlways, PTL DEF Spec, DrainWaitsForAll

(* While shedding, only flush() and a stop take events from the main queue. *)
THEOREM SheddingShields == Spec => SheddingHoldsMain
<1>1. TypeInv /\ LoopInv /\ [Next]_vars =>
        [shedding /\ Len(main') < Len(main) =>
           \E w \in Workers :
             wpc[w] = "drainMain" /\ why[w] \in {"flush", "stop"}]_vars
  <2> SUFFICES ASSUME TypeInv, LoopInv, [Next]_vars,
                      shedding, Len(main') < Len(main)
               PROVE  \E w \in Workers :
                        wpc[w] = "drainMain" /\ why[w] \in {"flush", "stop"}
    OBVIOUS
  <2> USE DEF TypeInv, TypeOK
  <2>1. ~UNCHANGED <<main, prot>> /\ ~PopProtected
    BY PopShortens
  <2>2. ASSUME NEW c \in Callers, EnqueueOk(c)
        PROVE  FALSE
    <3>1. hand[c] \in Events
      BY <2>2 DEF EnqueueOk, HandHeld
    <3> QED
      BY <2>2, <3>1, PutLengthens, PopShortens DEF EnqueueOk
  <2>3. ~CountMain /\ \A w \in Workers : ~TakeMain(w)
    BY DEF CountMain, TakeMain, LoopInv, MainIsOpen, MainVisible
  <2>4. PICK w \in Workers : DrainMain(w)
    BY <2>1, <2>2, <2>3, QueueSteps DEF QueuesMove
  <2> QED
    BY <2>4 DEF DrainMain, LoopInv, MainIsOpen
<1> QED
  BY <1>1, LoopInvAlways, PTL DEF Spec, SheddingHoldsMain

-----------------------------------------------------------------------------
(* What a sequence holds.                                                  *)

Once(s) == \A i, j \in DOMAIN s : s[i] = s[j] => i = j

LEMMA MembersEmpty == Members(<<>>) = {} /\ Once(<<>>)
BY DEF Members, Once

LEMMA MembersIn ==
  ASSUME NEW S, NEW s \in Seq(S), NEW e
  PROVE  /\ e \in Members(s) <=> \E i \in 1..Len(s) : s[i] = e
         /\ Members(s) \subseteq S
BY DEF Members

LEMMA MembersAppend ==
  ASSUME NEW S, NEW s \in Seq(S), NEW e \in S
  PROVE  /\ Members(Append(s, e)) = Members(s) \cup {e}
         /\ Once(s) /\ e \notin Members(s) => Once(Append(s, e))
<1>1. /\ Append(s, e) \in Seq(S) /\ Len(Append(s, e)) = Len(s) + 1
      /\ \A i \in 1..Len(s) : Append(s, e)[i] = s[i]
      /\ Append(s, e)[Len(s) + 1] = e
  BY AppendProperties
<1>2. DOMAIN s = 1..Len(s) /\ DOMAIN Append(s, e) = 1..(Len(s) + 1) /\ Len(s) \in Nat
  BY <1>1
<1>3. \A i : i \in 1..(Len(s) + 1) <=> (i \in 1..Len(s) \/ i = Len(s) + 1)
  BY <1>2
<1> DEFINE t == Append(s, e)
<1> HIDE DEF t
<1>4. Members(t) = Members(s) \cup {e}
  BY <1>1, <1>2, <1>3 DEF Members, t
<1>5. ASSUME Once(s), e \notin Members(s)
      PROVE  Once(t)
  <2>1. \A i \in 1..Len(s) : s[i] # e
    BY <1>5, <1>2 DEF Members
  <2> SUFFICES ASSUME NEW i \in DOMAIN t, NEW j \in DOMAIN t, t[i] = t[j]
               PROVE  i = j
    BY DEF Once
  <2>2. CASE i \in 1..Len(s) /\ j \in 1..Len(s)
    BY <1>1, <1>2, <1>5, <2>2 DEF Once, t
  <2>3. CASE ~(i \in 1..Len(s) /\ j \in 1..Len(s))
    BY <1>1, <1>2, <1>3, <2>1, <2>3 DEF t
  <2> QED BY <2>2, <2>3
<1> QED
  BY <1>4, <1>5 DEF t

LEMMA MembersTail ==
  ASSUME NEW S, NEW s \in Seq(S), s # <<>>
  PROVE  /\ Head(s) \in Members(s)
         /\ Members(s) = Members(Tail(s)) \cup {Head(s)}
         /\ Once(s) => /\ Once(Tail(s))
                       /\ Head(s) \notin Members(Tail(s))
<1>1. /\ Tail(s) \in Seq(S) /\ Len(Tail(s)) = Len(s) - 1
      /\ \A i \in 1..Len(Tail(s)) : Tail(s)[i] = s[i + 1]
      /\ Head(s) = s[1] /\ Len(s) \in Nat \ {0}
  BY HeadTailProperties, EmptySeq
<1> DEFINE t == Tail(s)
           n == Len(s)
<1>2. DOMAIN s = 1..n /\ DOMAIN t = 1..(n - 1) /\ n \in Nat \ {0}
  BY <1>1
<1>3. \A i \in 1..(n - 1) : t[i] = s[i + 1] /\ i + 1 \in 1..n /\ i + 1 # 1
  BY <1>1
<1>4. \A i \in 1..n : i # 1 => i - 1 \in 1..(n - 1) /\ t[i - 1] = s[i]
  BY <1>1
<1>5. 1 \in 1..n /\ Head(s) = s[1]
  BY <1>1
<1> HIDE DEF t, n
<1>6. Head(s) \in Members(s)
  BY <1>2, <1>5 DEF Members
<1>7. Members(s) = Members(t) \cup {Head(s)}
  <2>1. ASSUME NEW e \in Members(s)
        PROVE  e \in Members(t) \cup {Head(s)}
    <3>1. PICK i \in 1..n : s[i] = e
      BY <1>2 DEF Members
    <3>2. CASE i = 1
      BY <1>5, <3>1, <3>2
    <3>3. CASE i # 1
      BY <1>2, <1>4, <3>1, <3>3 DEF Members
    <3> QED BY <3>2, <3>3
  <2>2. Members(t) \subseteq Members(s)
    BY <1>2, <1>3 DEF Members
  <2> QED
    BY <1>6, <2>1, <2>2
<1>8. ASSUME Once(s)
      PROVE  Once(t) /\ Head(s) \notin Members(t)
  <2>1. Head(s) \notin Members(t)
    BY <1>2, <1>3, <1>5, <1>8 DEF Members, Once
  <2>2. ASSUME NEW i \in 1..(n - 1), NEW j \in 1..(n - 1), t[i] = t[j]
        PROVE  i = j
    <3>1. i + 1 = j + 1
      BY <1>2, <1>3, <1>8, <2>2 DEF Once
    <3> QED BY <3>1
  <2> QED
    BY <1>2, <2>1, <2>2 DEF Once
<1> QED
  BY <1>6, <1>7, <1>8 DEF t

-----------------------------------------------------------------------------
(* The places of events.                                                   *)

Held(e) == \E c \in Callers : hand[c] = e

(* No event is in two places, nor twice in one.                            *)
Apart ==
  /\ \A c, d \in Callers : hand[c] = hand[d] /\ hand[c] # NoOne => c = d
  /\ Once(main) /\ Once(prot) /\ \A w \in Workers : Once(batch[w])
  /\ Members(main) \cap Members(prot) = {}
  /\ \A e \in Events : Held(e) => ~Queued(e) /\ ~InSomeBatch(e)
  /\ \A e \in Events : Queued(e) => ~InSomeBatch(e)
  /\ \A v, w \in Workers : v # w => Members(batch[v]) \cap Members(batch[w]) = {}

(* An event that is live is somewhere; up to a batch all events are live.  *)
Followed ==
  /\ \A c \in Callers : pc[c] = "idle" => hand[c] = NoOne
  /\ \A e \in Events : Held(e) \/ Queued(e) => fate[e] = "live"
  /\ \A e \in Events : fate[e] = "live" => Held(e) \/ Queued(e) \/ InSomeBatch(e)
  /\ \A e \in Events : InSomeBatch(e) => fate[e] \notin {"new", "abandoned"}

PlaceInv == Apart /\ Followed

(* The ways an event moves.                                                *)
Takes(w) ==
  /\ \/ PopProtected /\ batch' = [batch EXCEPT ![w] = Append(batch[w], Head(prot))]
     \/ PopMain /\ batch' = [batch EXCEPT ![w] = Append(batch[w], Head(main))]
  /\ UNCHANGED <<pc, hand, fate>>

Orphans ==
  /\ \/ PopProtected /\ fate' = [fate EXCEPT ![Head(prot)] = "discarded"]
     \/ PopMain /\ fate' = [fate EXCEPT ![Head(main)] = "discarded"]
  /\ UNCHANGED <<pc, hand, batch>>

Decides ==
  /\ \A e \in Events :
       fate'[e] = fate[e]
         \/ (InSomeBatch(e) /\ fate'[e] \in {"written", "discarded", "filtered"})
  /\ UNCHANGED <<main, prot, pc, hand, batch>>

Empties ==
  /\ \A w \in Workers : batch'[w] = batch[w] \/ batch'[w] = <<>>
  /\ \A e \in Events :
       fate'[e] = IF fate[e] = "live" /\ InSomeBatch(e) /\ ~InSomeBatch(e)'
                    THEN "abandoned" ELSE fate[e]
  /\ UNCHANGED <<main, prot, pc, hand>>

Aside ==
  /\ \A c \in Callers : pc'[c] = "idle" => pc[c] = "idle"
  /\ UNCHANGED <<main, prot, hand, batch, fate>>

Moves ==
  \/ Aside
  \/ \E c \in Callers : WriteDropped(c) \/ EnqueueOk(c) \/ \E e \in Events : Submit(c, e)
  \/ \E w \in Workers : Takes(w)
  \/ Orphans \/ Decides \/ Empties

LEMMA InitPlace == Init => PlaceInv
<1> SUFFICES ASSUME Init PROVE PlaceInv
  OBVIOUS
<1>1. main = <<>> /\ prot = <<>> /\ \A w \in Workers : batch[w] = <<>>
  BY DEF Init, QueueInit
<1>2. \A c \in Callers : hand[c] = NoOne
  BY DEF Init
<1>3. \A e \in Events : fate[e] = "new"
  BY DEF Init
<1>4. \A e \in Events : ~Held(e) /\ ~Queued(e) /\ ~InSomeBatch(e)
  BY <1>1, <1>2, MembersEmpty, PipelineAssumption DEF Held, Queued, InSomeBatch
<1>5. Apart
  BY <1>1, <1>2, <1>4, MembersEmpty DEF Apart
<1>6. Followed
  BY <1>2, <1>3, <1>4 DEF Followed
<1> QED
  BY <1>5, <1>6 DEF PlaceInv

LEMMA PlaceAside ==
  ASSUME PlaceInv, Aside
  PROVE  PlaceInv'
BY DEF PlaceInv, Apart, Followed, Aside, Held, Queued, InSomeBatch

(* The queues without their first event, and with one more.                *)
LEMMA PopFacts ==
  ASSUME TypeInv, PlaceInv, NEW e,
         \/ prot # <<>> /\ e = Head(prot) /\ prot' = Tail(prot) /\ main' = main
         \/ main # <<>> /\ e = Head(main) /\ main' = Tail(main) /\ prot' = prot
  PROVE  /\ Once(main') /\ Once(prot')
         /\ \/ /\ Members(prot) = Members(prot') \cup {e} /\ e \notin Members(prot')
               /\ Members(main') = Members(main) /\ e \notin Members(main)
            \/ /\ Members(main) = Members(main') \cup {e} /\ e \notin Members(main')
               /\ Members(prot') = Members(prot) /\ e \notin Members(prot)
<1>0. main \in Seq(Events) /\ prot \in Seq(Events)
  BY DEF TypeInv, TypeOK, QueueTypeOK
<1>1. Once(main) /\ Once(prot) /\ Members(main) \cap Members(prot) = {}
  BY DEF PlaceInv, Apart
<1>2. CASE prot # <<>> /\ e = Head(prot) /\ prot' = Tail(prot) /\ main' = main
  <2>1. /\ Members(prot) = Members(Tail(prot)) \cup {Head(prot)}
        /\ Head(prot) \notin Members(Tail(prot)) /\ Once(Tail(prot))
    BY <1>0, <1>1, <1>2, MembersTail
  <2> QED
    BY <1>1, <1>2, <2>1
<1>3. CASE main # <<>> /\ e = Head(main) /\ main' = Tail(main) /\ prot' = prot
  <2>1. /\ Members(main) = Members(Tail(main)) \cup {Head(main)}
        /\ Head(main) \notin Members(Tail(main)) /\ Once(Tail(main))
    BY <1>0, <1>1, <1>3, MembersTail
  <2> QED
    BY <1>1, <1>3, <2>1
<1> QED
  BY <1>2, <1>3

LEMMA PutFacts ==
  ASSUME TypeInv, PlaceInv, NEW e \in Events, Put(e), ~Queued(e)
  PROVE  /\ Once(main') /\ Once(prot')
         /\ \/ Members(prot') = Members(prot) \cup {e} /\ Members(main') = Members(main)
            \/ Members(main') = Members(main) \cup {e} /\ Members(prot') = Members(prot)
<1>0. main \in Seq(Events) /\ prot \in Seq(Events)
  BY DEF TypeInv, TypeOK, QueueTypeOK
<1>1. Once(main) /\ Once(prot) /\ e \notin Members(main) /\ e \notin Members(prot)
  BY DEF PlaceInv, Apart, Queued
<1>2. CASE e \in Protected
  <2>1. prot' = Append(prot, e) /\ main' = main
    BY <1>2 DEF Put
  <2> QED
    BY <1>0, <1>1, <2>1, MembersAppend
<1>3. CASE e \notin Protected
  <2>1. main' = Append(main, e) /\ prot' = prot
    BY <1>3 DEF Put
  <2> QED
    BY <1>0, <1>1, <2>1, MembersAppend
<1> QED
  BY <1>2, <1>3

LEMMA PlaceTakes ==
  ASSUME TypeInv, PlaceInv, NEW w \in Workers, Takes(w)
  PROVE  PlaceInv'
<1> USE DEF TypeInv, TypeOK, QueueTypeOK, WorkerTypeOK
<1>1. PICK e \in Events :
        /\ batch' = [batch EXCEPT ![w] = Append(batch[w], e)]
        /\ \/ prot # <<>> /\ e = Head(prot) /\ prot' = Tail(prot) /\ main' = main
           \/ main # <<>> /\ e = Head(main) /\ main' = Tail(main) /\ prot' = prot
  BY HeadType DEF Takes, PopProtected, PopMain
<1>2. UNCHANGED <<pc, hand, fate>>
  BY DEF Takes
<1>3. Queued(e) /\ ~InSomeBatch(e) /\ ~Held(e)
  BY <1>1, MembersTail DEF PlaceInv, Apart, Queued
<1>4. /\ Once(main') /\ Once(prot')
      /\ \/ /\ Members(prot) = Members(prot') \cup {e} /\ e \notin Members(prot')
            /\ Members(main') = Members(main) /\ e \notin Members(main)
         \/ /\ Members(main) = Members(main') \cup {e} /\ e \notin Members(main')
            /\ Members(prot') = Members(prot) /\ e \notin Members(prot)
  BY <1>1, PopFacts
<1>5. \A v \in Workers : v # w => batch'[v] = batch[v]
  BY <1>1
<1>6. batch'[w] = Append(batch[w], e)
  BY <1>1
<1>7. e \notin Members(batch[w])
  BY <1>3 DEF InSomeBatch
<1>8. Members(batch'[w]) = Members(batch[w]) \cup {e} /\ Once(batch'[w])
  BY <1>6, <1>7, MembersAppend DEF PlaceInv, Apart
<1>9. \A f : InSomeBatch(f)' <=> (InSomeBatch(f) \/ f = e)
  BY <1>5, <1>8 DEF InSomeBatch
<1>10. \A f : Queued(f)' <=> (Queued(f) /\ f # e)
  BY <1>4 DEF Queued
<1>11. \A f : Held(f)' <=> Held(f)
  BY <1>2 DEF Held
<1>12. Apart'
  <2>1. Members(main') \cap Members(prot') = {}
    BY <1>4 DEF PlaceInv, Apart
  <2>2. \A v \in Workers : Once(batch'[v])
    BY <1>5, <1>8 DEF PlaceInv, Apart
  <2>3. ASSUME NEW u \in Workers, NEW v \in Workers, u # v
        PROVE  Members(batch'[u]) \cap Members(batch'[v]) = {}
    <3>1. Members(batch[u]) \cap Members(batch[v]) = {}
      BY <2>3 DEF PlaceInv, Apart
    <3>2. e \notin Members(batch[u]) /\ e \notin Members(batch[v])
      BY <1>3 DEF InSomeBatch
    <3>3. /\ u # w => Members(batch'[u]) = Members(batch[u])
          /\ v # w => Members(batch'[v]) = Members(batch[v])
      BY <1>5
    <3> QED
      BY <1>8, <2>3, <3>1, <3>2, <3>3
  <2>4. \A f \in Events : Held(f)' => ~Queued(f)' /\ ~InSomeBatch(f)'
    BY <1>3, <1>9, <1>10, <1>11 DEF PlaceInv, Apart
  <2>5. \A f \in Events : Queued(f)' => ~InSomeBatch(f)'
    BY <1>9, <1>10 DEF PlaceInv, Apart
  <2> QED
    BY <1>2, <1>4, <2>1, <2>2, <2>3, <2>4, <2>5 DEF PlaceInv, Apart
<1>13. Followed'
  BY <1>2, <1>3, <1>9, <1>10, <1>11 DEF PlaceInv, Followed
<1> QED
  BY <1>12, <1>13 DEF PlaceInv

LEMMA PlaceOrphans ==
  ASSUME TypeInv, PlaceInv, Orphans
  PROVE  PlaceInv'
<1> USE DEF TypeInv, TypeOK, QueueTypeOK, HistoryTypeOK
<1>1. PICK e \in Events :
        /\ fate' = [fate EXCEPT ![e] = "discarded"]
        /\ \/ prot # <<>> /\ e = Head(prot) /\ prot' = Tail(prot) /\ main' = main
           \/ main # <<>> /\ e = Head(main) /\ main' = Tail(main) /\ prot' = prot
  BY HeadType DEF Orphans, PopProtected, PopMain
<1>2. UNCHANGED <<pc, hand, batch>>
  BY DEF Orphans
<1>3. Queued(e) /\ ~InSomeBatch(e) /\ ~Held(e)
  BY <1>1, MembersTail DEF PlaceInv, Apart, Queued
<1>4. /\ Once(main') /\ Once(prot')
      /\ \/ /\ Members(prot) = Members(prot') \cup {e} /\ e \notin Members(prot')
            /\ Members(main') = Members(main) /\ e \notin Members(main)
         \/ /\ Members(main) = Members(main') \cup {e} /\ e \notin Members(main')
            /\ Members(prot') = Members(prot) /\ e \notin Members(prot)
  BY <1>1, PopFacts
<1>5. \A f : Queued(f)' <=> (Queued(f) /\ f # e)
  BY <1>4 DEF Queued
<1>6. \A f : (Held(f)' <=> Held(f)) /\ (InSomeBatch(f)' <=> InSomeBatch(f))
  BY <1>2 DEF Held, InSomeBatch
<1>7. \A f \in Events : fate'[f] = IF f = e THEN "discarded" ELSE fate[f]
  BY <1>1
<1>8. Apart'
  BY <1>2, <1>4, <1>5, <1>6 DEF PlaceInv, Apart
<1>9. Followed'
  BY <1>2, <1>3, <1>5, <1>6, <1>7 DEF PlaceInv, Followed
<1> QED
  BY <1>8, <1>9 DEF PlaceInv

LEMMA PlaceDecides ==
  ASSUME PlaceInv, Decides
  PROVE  PlaceInv'
<1>1. \A e : (Held(e)' <=> Held(e)) /\ (InSomeBatch(e)' <=> InSomeBatch(e))
               /\ (Queued(e)' <=> Queued(e))
  BY DEF Decides, Held, InSomeBatch, Queued
<1>2. Apart'
  BY <1>1 DEF PlaceInv, Apart, Decides
<1>3. Followed'
  <2>1. ASSUME NEW e \in Events, Held(e)' \/ Queued(e)'
        PROVE  fate'[e] = "live"
    BY <1>1, <2>1 DEF PlaceInv, Apart, Followed, Decides
  <2>2. ASSUME NEW e \in Events, fate'[e] = "live"
        PROVE  Held(e)' \/ Queued(e)' \/ InSomeBatch(e)'
    BY <1>1, <2>2 DEF PlaceInv, Followed, Decides
  <2>3. ASSUME NEW e \in Events, InSomeBatch(e)'
        PROVE  fate'[e] \notin {"new", "abandoned"}
    BY <1>1, <2>3 DEF PlaceInv, Followed, Decides
  <2>4. \A c \in Callers : pc'[c] = "idle" => hand'[c] = NoOne
    BY DEF PlaceInv, Followed, Decides
  <2> QED
    BY <2>1, <2>2, <2>3, <2>4 DEF Followed
<1> QED
  BY <1>2, <1>3 DEF PlaceInv

LEMMA PlaceEmpties ==
  ASSUME PlaceInv, Empties
  PROVE  PlaceInv'
<1>1. \A e : (Held(e)' <=> Held(e)) /\ (Queued(e)' <=> Queued(e))
  BY DEF Empties, Held, Queued
<1>2. \A w \in Workers : /\ batch'[w] = batch[w] \/ batch'[w] = <<>>
                         /\ Members(batch'[w]) \subseteq Members(batch[w])
                         /\ Once(batch'[w])
  BY MembersEmpty DEF Empties, PlaceInv, Apart
<1>3. \A e : InSomeBatch(e)' => InSomeBatch(e)
  BY <1>2 DEF InSomeBatch
<1>4. Apart'
  BY <1>1, <1>2, <1>3 DEF PlaceInv, Apart, Empties
<1>5. Followed'
  BY <1>1, <1>3 DEF PlaceInv, Apart, Followed, Empties
<1> QED
  BY <1>4, <1>5 DEF PlaceInv

LEMMA PlaceSubmit ==
  ASSUME TypeInv, PlaceInv, NEW c \in Callers, NEW e \in Events, Submit(c, e)
  PROVE  PlaceInv'
<1> USE DEF TypeInv, TypeOK, CallerTypeOK, HistoryTypeOK
<1>1. /\ fate[e] = "new" /\ fate' = [fate EXCEPT ![e] = "live"]
      /\ hand' = [hand EXCEPT ![c] = e]
      /\ pc' = [pc EXCEPT ![c] = "start"]
      /\ UNCHANGED <<main, prot, batch>> /\ pc[c] = "idle"
  BY DEF Submit, queueVars, besidesCaller, workerVars
<1>2. hand[c] = NoOne /\ NoOne \notin Events
  BY <1>1, PipelineAssumption DEF PlaceInv, Followed
<1>3. ~Held(e) /\ ~Queued(e) /\ ~InSomeBatch(e)
  BY <1>1 DEF PlaceInv, Followed
<1>4. \A d \in Callers : hand'[d] = IF d = c THEN e ELSE hand[d]
  BY <1>1
<1>5. \A f \in Events : Held(f)' <=> (Held(f) \/ f = e)
  BY <1>2, <1>4 DEF Held
<1>6. \A f : (Queued(f)' <=> Queued(f)) /\ (InSomeBatch(f)' <=> InSomeBatch(f))
  BY <1>1 DEF Queued, InSomeBatch
<1>7. \A d, b \in Callers : hand'[d] = hand'[b] /\ hand'[d] # NoOne => d = b
  BY <1>3, <1>4 DEF PlaceInv, Apart, Held
<1>8. Apart'
  BY <1>1, <1>3, <1>5, <1>6, <1>7 DEF PlaceInv, Apart
<1>9. Followed'
  BY <1>1, <1>3, <1>4, <1>5, <1>6 DEF PlaceInv, Followed
<1> QED
  BY <1>8, <1>9 DEF PlaceInv

(* The event that c holds leaves its hand.                                 *)
LEMMA HandEmptied ==
  ASSUME TypeInv, PlaceInv, NEW c \in Callers, hand[c] \in Events,
         hand' = [hand EXCEPT ![c] = NoOne]
  PROVE  /\ \A f \in Events : Held(f)' <=> (Held(f) /\ f # hand[c])
         /\ \A d, b \in Callers : hand'[d] = hand'[b] /\ hand'[d] # NoOne => d = b
         /\ \A d \in Callers : hand'[d] = IF d = c THEN NoOne ELSE hand[d]
<1>1. \A d \in Callers : hand'[d] = IF d = c THEN NoOne ELSE hand[d]
  BY DEF TypeInv, TypeOK, CallerTypeOK
<1>2. NoOne \notin Events
  BY PipelineAssumption
<1> QED
  BY <1>1, <1>2 DEF PlaceInv, Apart, Held

LEMMA PlaceEnqueue ==
  ASSUME TypeInv, PlaceInv, NEW c \in Callers, EnqueueOk(c)
  PROVE  PlaceInv'
<1> USE DEF TypeInv, TypeOK, CallerTypeOK, QueueTypeOK, HandHeld
<1> DEFINE e == hand[c]
<1>1. /\ hand' = [hand EXCEPT ![c] = NoOne]
      /\ pc' = [pc EXCEPT ![c] = "idle"]
      /\ UNCHANGED <<batch, fate>> /\ Put(e) /\ pc[c] = "put"
  BY DEF EnqueueOk, besidesCaller, workerVars
<1>2. e \in Events /\ Held(e) /\ ~Queued(e) /\ ~InSomeBatch(e)
  BY <1>1 DEF PlaceInv, Apart, Held
<1>3. e \notin Members(main) /\ e \notin Members(prot)
  BY <1>2 DEF Queued
<1>4. /\ Once(main') /\ Once(prot')
      /\ \/ Members(prot') = Members(prot) \cup {e} /\ Members(main') = Members(main)
         \/ Members(main') = Members(main) \cup {e} /\ Members(prot') = Members(prot)
  BY <1>1, <1>2, PutFacts
<1>5. \A f : Queued(f)' <=> (Queued(f) \/ f = e)
  BY <1>4 DEF Queued
<1>6. \A f : InSomeBatch(f)' <=> InSomeBatch(f)
  BY <1>1 DEF InSomeBatch
<1>7. /\ \A f \in Events : Held(f)' <=> (Held(f) /\ f # e)
      /\ \A d, b \in Callers : hand'[d] = hand'[b] /\ hand'[d] # NoOne => d = b
      /\ \A d \in Callers : hand'[d] = IF d = c THEN NoOne ELSE hand[d]
  BY <1>1, <1>2, HandEmptied
<1> HIDE DEF e
<1>8. Apart'
  BY <1>1, <1>2, <1>3, <1>4, <1>5, <1>6, <1>7 DEF PlaceInv, Apart
<1>9. Followed'
  BY <1>1, <1>2, <1>5, <1>6, <1>7 DEF PlaceInv, Followed
<1> QED
  BY <1>8, <1>9 DEF PlaceInv

LEMMA PlaceDropped ==
  ASSUME TypeInv, PlaceInv, NEW c \in Callers, WriteDropped(c)
  PROVE  PlaceInv'
<1> USE DEF TypeInv, TypeOK, CallerTypeOK, HistoryTypeOK, HandHeld
<1> DEFINE e == hand[c]
<1>1. /\ hand' = [hand EXCEPT ![c] = NoOne]
      /\ pc' = [pc EXCEPT ![c] = "idle"]
      /\ fate' = [fate EXCEPT ![e] = "discarded"]
      /\ UNCHANGED <<main, prot, batch>> /\ pc[c] = "writeDropped"
  BY DEF WriteDropped, queueVars, besidesCaller, workerVars
<1>2. e \in Events /\ Held(e) /\ ~Queued(e) /\ ~InSomeBatch(e)
  BY <1>1 DEF PlaceInv, Apart, Held
<1>3. \A f : (Queued(f)' <=> Queued(f)) /\ (InSomeBatch(f)' <=> InSomeBatch(f))
  BY <1>1 DEF Queued, InSomeBatch
<1>4. /\ \A f \in Events : Held(f)' <=> (Held(f) /\ f # e)
      /\ \A d, b \in Callers : hand'[d] = hand'[b] /\ hand'[d] # NoOne => d = b
      /\ \A d \in Callers : hand'[d] = IF d = c THEN NoOne ELSE hand[d]
  BY <1>1, <1>2, HandEmptied
<1>5. \A f \in Events : fate'[f] = IF f = e THEN "discarded" ELSE fate[f]
  BY <1>1, <1>2
<1> HIDE DEF e
<1>6. Apart'
  BY <1>1, <1>2, <1>3, <1>4 DEF PlaceInv, Apart
<1>7. Followed'
  BY <1>1, <1>2, <1>3, <1>4, <1>5 DEF PlaceInv, Followed
<1> QED
  BY <1>6, <1>7 DEF PlaceInv

LEMMA MovesCaller ==
  ASSUME TypeInv, NEW c \in Callers, CallerStep(c)
  PROVE  WriteDropped(c) \/ EnqueueOk(c) \/ Aside
<1>1. ASSUME CallStart(c) \/ EnqueueRetry(c) \/ EnqueueGiveUp(c) \/ ReadDropped(c)
      PROVE  Aside
  <2>1. UNCHANGED <<main, prot, hand, batch, fate>>
    BY <1>1 DEF CallStart, EnqueueRetry, EnqueueGiveUp, ReadDropped, Refuse,
                besidesCaller, workerVars, queueVars, historyVars
  <2>2. /\ pc' \in {pc, [pc EXCEPT ![c] = "restart"], [pc EXCEPT ![c] = "put"],
                    [pc EXCEPT ![c] = "readDropped"], [pc EXCEPT ![c] = "writeDropped"]}
    BY <1>1 DEF CallStart, EnqueueRetry, EnqueueGiveUp, ReadDropped
  <2>3. \A d \in Callers : pc'[d] = "idle" => pc[d] = "idle"
    BY <2>2 DEF TypeInv, TypeOK, CallerTypeOK
  <2> QED
    BY <2>1, <2>3 DEF Aside
<1> QED
  BY <1>1 DEF CallerStep

LEMMA TakesProtected ==
  ASSUME NEW w \in Workers, TakeProtected(w) \/ DrainProtected(w)
  PROVE  Takes(w) \/ Aside
BY DEF TakeProtected, DrainProtected, Collect, Takes, Aside, besidesLoop, callerVars,
       historyVars, queueVars, PopProtected

LEMMA TakesMain ==
  ASSUME NEW w \in Workers, TakeMain(w) \/ DrainMain(w)
  PROVE  Takes(w) \/ Aside
BY DEF TakeMain, DrainMain, Collect, Takes, Aside, besidesLoop, callerVars,
       historyVars, queueVars, PopMain

LEMMA MovesAlong ==
  ASSUME NEW w \in Workers,
         \/ Resume(w) \/ CheckStop(w) \/ CheckFlush(w) \/ NoProtected(w)
         \/ NoMain(w) \/ DeadlineFlush(w) \/ Sleep(w) \/ Enrich(w) \/ FlushNothing(w)
         \/ ClearRequest(w) \/ SignalFlushed(w)
  PROVE  Aside
BY DEF Resume, CheckStop, CheckFlush, NoProtected, NoMain, DeadlineFlush, Sleep,
       Enrich, FlushNothing, ClearRequest, SignalFlushed, Aside, besidesLoop, callerVars,
       historyVars, queueVars

LEMMA PrepareDecides ==
  ASSUME TypeInv, NEW w \in Workers, Prepare(w)
  PROVE  Decides
<1>1. PICK verdict \in [Members(batch[w]) -> Verdicts] :
        fate' = [e \in Events |->
                  IF e \in Members(batch[w])
                    THEN CASE verdict[e] = "keep"   -> fate[e]
                           [] verdict[e] = "filter" -> "filtered"
                           [] OTHER                 -> "discarded"
                    ELSE fate[e]]
  BY DEF Prepare
<1>2. UNCHANGED <<main, prot, pc, hand, batch>>
  BY DEF Prepare, besidesLoop, callerVars, queueVars
<1>3. ASSUME NEW e \in Events
      PROVE  \/ fate'[e] = fate[e]
             \/ InSomeBatch(e) /\ fate'[e] \in {"written", "discarded", "filtered"}
  BY <1>1 DEF InSomeBatch
<1> QED
  BY <1>2, <1>3 DEF Decides

LEMMA WriteDecides ==
  ASSUME TypeInv, NEW w \in Workers, SinkStep(w)
  PROVE  Decides
<1>1. PICK i \in DOMAIN batch[w], o \in SinkResults : WriteDone(w, i, o)
  BY DEF SinkStep
<1>2. UNCHANGED <<main, prot, pc, hand, batch>>
  BY <1>1 DEF WriteDone, besidesLoop, callerVars, queueVars, workerVars
<1>3. fate' = [fate EXCEPT ![batch[w][i]] = o] /\ o \in {"written", "discarded"}
  BY <1>1, PipelineAssumption DEF WriteDone
<1>4. InSomeBatch(batch[w][i])
  BY DEF InSomeBatch, Members
<1>5. \A e \in Events : fate'[e] = IF e = batch[w][i] THEN o ELSE fate[e]
  BY <1>3 DEF TypeInv, TypeOK, HistoryTypeOK
<1> QED
  BY <1>2, <1>3, <1>4, <1>5 DEF Decides

LEMMA AccountEmpties ==
  ASSUME TypeInv, NEW w \in Workers, Account(w)
  PROVE  Empties
<1>1. /\ batch' = [batch EXCEPT ![w] = <<>>] /\ Unwritten(w) = {}
      /\ UNCHANGED <<main, prot, pc, hand, fate>>
  BY DEF Account, besidesLoop, callerVars, queueVars, historyVars
<1>2. \A v \in Workers : batch'[v] = IF v = w THEN <<>> ELSE batch[v]
  BY <1>1 DEF TypeInv, TypeOK, WorkerTypeOK
<1>3. \A e \in Members(batch[w]) : fate[e] # "live"
  BY <1>1 DEF Unwritten, Members
<1>4. \A e \in Events : fate[e] = "live" /\ InSomeBatch(e) => InSomeBatch(e)'
  BY <1>2, <1>3 DEF InSomeBatch
<1> QED
  BY <1>1, <1>2, <1>4 DEF Empties

LEMMA EndEmpties ==
  ASSUME TypeInv, ThreadEnds
  PROVE  Empties
<1>1. /\ fate' = [e \in Events |-> IF fate[e] = "live" /\ InSomeBatch(e)
                                     THEN "abandoned" ELSE fate[e]]
      /\ batch' = [w \in Workers |-> <<>>]
      /\ UNCHANGED <<main, prot, pc, hand>>
  BY DEF ThreadEnds, callerVars, queueVars
<1>2. \A w \in Workers : batch'[w] = <<>>
  BY <1>1
<1>3. \A e : ~InSomeBatch(e)'
  BY <1>2, MembersEmpty DEF InSomeBatch
<1> QED
  BY <1>1, <1>2, <1>3 DEF Empties

LEMMA MovesMonitor ==
  ASSUME \/ BeginTick \/ MonitorStep
         \/ \E w \in Dynamic : AddWorker(w) \/ RetireWorker(w)
  PROVE  Aside
BY DEF BeginTick, MonitorStep, SampleProtected, EvaluateShedding, SetShedding, AddWorker,
       RetireWorker, Aside, besidesLoop, callerVars, historyVars, queueVars, workerVars

LEMMA MovesFlusher ==
  ASSUME \/ CallFlush \/ RequestFlush \/ FlushReturns \/ FlushTimesOut
         \/ BeginDrain \/ RaiseStop \/ Join \/ ReadOrphans \/ AddOrphans \/ Report
         \/ UNCHANGED vars
  PROVE  Aside
<1>1. UNCHANGED <<main, prot, batch, callerVars, fate>>
  <2>1. CASE \/ CallFlush \/ RequestFlush \/ FlushReturns \/ FlushTimesOut
             \/ BeginDrain \/ UNCHANGED vars
    BY <2>1 DEF CallFlush, RequestFlush, FlushReturns, FlushTimesOut, BeginDrain, vars,
                besidesFlush, historyVars, queueVars, workerVars
  <2>2. CASE RaiseStop \/ Join \/ ReadOrphans \/ AddOrphans \/ Report
    BY <2>2 DEF RaiseStop, Join, ReadOrphans, AddOrphans, Report, besidesDrain,
                historyVars, queueVars, workerVars
  <2> QED
    BY <2>1, <2>2
<1> QED
  BY <1>1 DEF callerVars, Aside

LEMMA MovesOrphans ==
  ASSUME CountProtected \/ CountMain
  PROVE  Orphans \/ Aside
BY DEF CountProtected, CountMain, Orphans, Aside, besidesDrain, callerVars, workerVars,
       queueVars, PopProtected, PopMain

LEMMA PlaceMoves ==
  ASSUME TypeInv, [Next]_vars
  PROVE  Moves
<1>1. ASSUME NEW c \in Callers, CallerStep(c) \/ \E e \in Events : Submit(c, e)
      PROVE  Moves
  BY <1>1, MovesCaller DEF Moves
<1>2. ASSUME NEW w \in Workers,
             Resume(w) \/ LoopStep(w) \/ Prepare(w) \/ SinkStep(w) \/ Account(w)
      PROVE  Moves
  BY <1>2, TakesProtected, TakesMain, MovesAlong, PrepareDecides, WriteDecides,
     AccountEmpties DEF Moves, LoopStep
<1>3. ASSUME \/ ThreadEnds \/ BeginTick \/ MonitorStep
             \/ \E w \in Dynamic : AddWorker(w) \/ RetireWorker(w)
      PROVE  Moves
  BY <1>3, EndEmpties, MovesMonitor DEF Moves
<1>4. ASSUME \/ CallFlush \/ RequestFlush \/ FlushReturns \/ FlushTimesOut
             \/ BeginDrain \/ DrainStep \/ UNCHANGED vars
      PROVE  Moves
  BY <1>4, MovesFlusher, MovesOrphans DEF Moves, DrainStep
<1> QED
  BY <1>1, <1>2, <1>3, <1>4 DEF Next, Finished

LEMMA PlaceNext ==
  ASSUME TypeInv, PlaceInv, [Next]_vars
  PROVE  PlaceInv'
BY PlaceMoves, PlaceAside, PlaceTakes, PlaceOrphans, PlaceDecides, PlaceEmpties,
   PlaceSubmit, PlaceEnqueue, PlaceDropped DEF Moves

PipelineInv == TypeInv /\ LoopInv /\ PlaceInv

LEMMA PipelineInvariant == Spec => []PipelineInv
<1>1. Init => PipelineInv
  BY InitType, LoopInvInit, InitPlace DEF PipelineInv
<1>2. PipelineInv /\ [Next]_vars => PipelineInv'
  BY NextType, LoopInvNext, PlaceNext DEF PipelineInv
<1> QED
  BY <1>1, <1>2, PTL DEF Spec

(* The holders of an event, as a set with at most one element.             *)
LEMMA HoldersApart ==
  ASSUME TypeInv, Apart, NEW e \in Events
  PROVE  /\ (Held(e) \/ Queued(e) \/ InSomeBatch(e)) => \E h : Holders(e) = {h}
         /\ ~(Held(e) \/ Queued(e) \/ InSomeBatch(e)) => Holders(e) = {}
<1> DEFINE A == {c \in Callers : hand[c] = e}
           M == {<<"main", i>> : i \in {j \in DOMAIN main : main[j] = e}}
           P == {<<"prot", i>> : i \in {j \in DOMAIN prot : prot[j] = e}}
           B(w) == {<<w, i>> : i \in {j \in DOMAIN batch[w] : batch[w][j] = e}}
           Bs == UNION {B(w) : w \in Workers}
<1>1. Holders(e) = A \cup M \cup P \cup Bs
  BY DEF Holders
<1>2. e # NoOne
  BY PipelineAssumption
<1>3. /\ Held(e) => \E h : A = {h}
      /\ ~Held(e) => A = {}
  BY <1>2 DEF Held, Apart
<1>4. /\ e \in Members(main) => \E h : M = {h}
      /\ e \notin Members(main) => M = {}
  <2>1. ASSUME NEW i \in DOMAIN main, main[i] = e
        PROVE  M = {<<"main", i>>}
    BY <2>1 DEF Apart, Once
  <2> QED
    BY <2>1 DEF Members
<1>5. /\ e \in Members(prot) => \E h : P = {h}
      /\ e \notin Members(prot) => P = {}
  <2>1. ASSUME NEW i \in DOMAIN prot, prot[i] = e
        PROVE  P = {<<"prot", i>>}
    BY <2>1 DEF Apart, Once
  <2> QED
    BY <2>1 DEF Members
<1>6. ASSUME NEW w \in Workers
      PROVE  /\ e \in Members(batch[w]) => \E h : B(w) = {h}
             /\ e \notin Members(batch[w]) => B(w) = {}
  <2>1. ASSUME NEW i \in DOMAIN batch[w], batch[w][i] = e
        PROVE  B(w) = {<<w, i>>}
    BY <2>1 DEF Apart, Once
  <2> QED
    BY <2>1 DEF Members
<1>7. /\ InSomeBatch(e) => \E h : Bs = {h}
      /\ ~InSomeBatch(e) => Bs = {}
  <2>1. ASSUME NEW w \in Workers, e \in Members(batch[w])
        PROVE  \E h : Bs = {h}
    <3>1. \A v \in Workers : v # w => B(v) = {}
      BY <2>1, <1>6 DEF Apart
    <3>2. PICK h : B(w) = {h}
      BY <2>1, <1>6
    <3> HIDE DEF B
    <3> QED
      BY <3>1, <3>2
  <2>2. ASSUME ~InSomeBatch(e)
        PROVE  Bs = {}
    <3>1. \A v \in Workers : B(v) = {}
      BY <2>2, <1>6 DEF InSomeBatch
    <3> HIDE DEF B
    <3> QED
      BY <3>1
  <2> QED
    BY <2>1, <2>2 DEF InSomeBatch
<1> HIDE DEF A, M, P, Bs
<1>8. ~Held(e) \/ (~Queued(e) /\ ~InSomeBatch(e))
  BY DEF Apart
<1>9. ~Queued(e) \/ ~InSomeBatch(e)
  BY DEF Apart
<1>10. e \notin Members(main) \/ e \notin Members(prot)
  BY DEF Apart
<1> QED
  BY <1>1, <1>3, <1>4, <1>5, <1>7, <1>8, <1>9, <1>10 DEF Queued

(* Between its submission and its fate every event is in exactly one        *)
(* place - a caller's hand, a slot of a queue, a slot of a batch -, whatever *)
(* threads and tasks interleave.                                           *)
THEOREM EventsHaveOnePlace == Spec => []OnePlace
<1>1. PipelineInv => OnePlace
  <2> SUFFICES ASSUME PipelineInv, NEW e \in Events
               PROVE  /\ fate[e] = "live" => Cardinality(Holders(e)) = 1
                      /\ fate[e] \in {"new", "abandoned"} => Holders(e) = {}
                      /\ Decided(e) => ~Queued(e) /\ Cardinality(Holders(e)) <= 1
    BY DEF OnePlace
  <2>1. TypeInv /\ Apart /\ Followed
    BY DEF PipelineInv, PlaceInv
  <2>2. Cardinality({}) = 0 /\ \A h : Cardinality({h}) = 1
    BY FS_EmptySet, FS_Singleton
  <2>3. CASE fate[e] = "live"
    BY <2>1, <2>2, <2>3, HoldersApart DEF Followed, Decided
  <2>4. CASE fate[e] \in {"new", "abandoned"}
    BY <2>1, <2>2, <2>4, HoldersApart DEF Followed, Decided
  <2>5. CASE fate[e] \notin {"live", "new", "abandoned"}
    <3>1. ~Queued(e)
      BY <2>1, <2>5 DEF Followed
    <3>2. Cardinality(Holders(e)) \in {0, 1}
      BY <2>1, <2>2, HoldersApart
    <3> QED
      BY <2>5, <3>1, <3>2
  <2> QED
    BY <2>3, <2>4, <2>5
<1> QED
  BY <1>1, PipelineInvariant, PTL

-----------------------------------------------------------------------------
(* What has been counted.                                                  *)

(* The events whose fate is f for which a worker has nothing left to count. *)
Settled(f) == {e \in Events : fate[e] = f /\ ~InSomeBatch(e)}

Touched == {e \in Events : fate[e] # "new"}

(* Orphans the drainer has found and not yet added.                        *)
Pending == IF dpc \in {"report", "returned"} THEN 0 ELSE orphaned

Counted == Cardinality(Settled("discarded")) - Pending

(* `dropped', and each value of it that is about to be written back, is at *)
(* most the number of drops that may have been counted.                    *)
DropsInv ==
  /\ dropped <= Counted
  /\ \A c \in Callers : pc[c] = "writeDropped" => seen[c] <= Counted
  /\ dpc = "addOrphans" => dseen <= Counted

ProcessedInv ==
  loop = "up" \/ (\A w \in Dynamic : wpc[w] = "off") =>
    processed = Cardinality(Settled("written"))

SubmittedInv == IsFiniteSet(Touched) /\ submitted = Cardinality(Touched)

CountInv == DropsInv /\ ProcessedInv /\ SubmittedInv

LEMMA SettledFinite ==
  ASSUME IsFiniteSet(Touched), NEW f \in Fates \ {"new"}
  PROVE  IsFiniteSet(Settled(f)) /\ Cardinality(Settled(f)) \in Nat
<1>1. Settled(f) \subseteq Touched
  BY DEF Settled, Touched
<1> QED
  BY <1>1, FS_Subset, FS_CardinalityType

(* The events of a batch with fate f, counted by InBatch slot by slot.     *)
BatchWith(w, f) == {e \in Members(batch[w]) : fate[e] = f}

LEMMA InBatchCounts ==
  ASSUME TypeInv, Apart, NEW w \in Workers, NEW f
  PROVE  IsFiniteSet(BatchWith(w, f)) /\ Cardinality(BatchWith(w, f)) = InBatch(w, f)
<1> DEFINE I == {i \in DOMAIN batch[w] : fate[batch[w][i]] = f}
           E == BatchWith(w, f)
           g == [i \in I |-> batch[w][i]]
<1>1. DOMAIN batch[w] = 1..Len(batch[w]) /\ Len(batch[w]) \in Nat
  BY DEF TypeInv, TypeOK, WorkerTypeOK
<1>2. IsFiniteSet(I)
  <2>1. IsFiniteSet(1..Len(batch[w]))
    BY <1>1, FS_Interval
  <2> QED
    BY <1>1, <2>1, FS_Subset
<1>3. g \in Bijection(I, E)
  <2>1. g \in [I -> E]
    BY DEF BatchWith, Members
  <2>2. \A i, j \in I : g[i] = g[j] => i = j
    BY DEF Apart, Once
  <2>3. \A e \in E : \E i \in I : g[i] = e
    BY DEF BatchWith, Members
  <2> QED
    BY <2>1, <2>2, <2>3, Fun_IsBij
<1>4. ExistsBijection(I, E)
  BY <1>3 DEF ExistsBijection
<1> QED
  BY <1>2, <1>4, FS_Bijection DEF InBatch

LEMMA InitCounts == Init => CountInv
<1> SUFFICES ASSUME Init PROVE CountInv
  OBVIOUS
<1>1. \A e \in Events : fate[e] = "new"
  BY DEF Init
<1>2. Touched = {} /\ Settled("written") = {} /\ Settled("discarded") = {}
  BY <1>1 DEF Touched, Settled
<1>3. IsFiniteSet({}) /\ Cardinality({}) = 0
  BY FS_EmptySet
<1>4. /\ submitted = 0 /\ processed = 0 /\ dropped = 0 /\ orphaned = 0 /\ dpc = "idle"
      /\ \A c \in Callers : pc[c] # "writeDropped"
  BY DEF Init
<1> QED
  BY <1>2, <1>3, <1>4 DEF CountInv, DropsInv, ProcessedInv, SubmittedInv, Counted, Pending

-----------------------------------------------------------------------------
(* How steps change the settled events.                                    *)

LEMMA TouchedSame ==
  ASSUME TypeInv, PlaceInv, Moves, \A c \in Callers, e \in Events : ~Submit(c, e)
  PROVE  Touched' = Touched
<1> USE DEF TypeInv, TypeOK, HistoryTypeOK
<1>1. CASE Aside \/ (\E c \in Callers : EnqueueOk(c)) \/ (\E w \in Workers : Takes(w))
  BY <1>1 DEF Aside, EnqueueOk, Takes, Touched
<1>2. ASSUME NEW c \in Callers, WriteDropped(c)
      PROVE  Touched' = Touched
  <2>1. hand[c] \in Events /\ Held(hand[c])
    BY <1>2 DEF WriteDropped, HandHeld, Held
  <2>2. fate[hand[c]] = "live"
    BY <2>1 DEF PlaceInv, Followed
  <2>3. fate' = [fate EXCEPT ![hand[c]] = "discarded"]
    BY <1>2 DEF WriteDropped
  <2> QED
    BY <2>1, <2>2, <2>3 DEF Touched
<1>3. CASE Orphans
  <2>1. PICK e \in Events : Queued(e) /\ fate' = [fate EXCEPT ![e] = "discarded"]
    BY <1>3, HeadType, MembersTail DEF Orphans, PopProtected, PopMain, QueueTypeOK, Queued
  <2>2. fate[e] = "live"
    BY <2>1 DEF PlaceInv, Followed
  <2> QED
    BY <2>1, <2>2 DEF Touched
<1>4. CASE Decides
  BY <1>4 DEF Decides, PlaceInv, Followed, Touched
<1>5. CASE Empties
  BY <1>5 DEF Empties, Touched
<1> QED
  BY <1>1, <1>2, <1>3, <1>4, <1>5 DEF Moves

(* Steps that settle nothing.                                              *)
LEMMA SettledSame ==
  ASSUME TypeInv, PlaceInv, NEW f \in {"written", "discarded"},
         \/ Aside \/ Decides
         \/ \E c \in Callers : EnqueueOk(c) \/ \E e \in Events : Submit(c, e)
         \/ \E w \in Workers : Takes(w)
  PROVE  Settled(f)' = Settled(f)
<1> USE DEF TypeInv, TypeOK, HistoryTypeOK
<1>1. CASE Aside \/ (\E c \in Callers : EnqueueOk(c))
  BY <1>1 DEF Aside, EnqueueOk, Settled, InSomeBatch, besidesCaller, workerVars
<1>2. CASE Decides
  BY <1>2 DEF Decides, Settled, InSomeBatch
<1>3. ASSUME NEW c \in Callers, NEW e \in Events, Submit(c, e)
      PROVE  Settled(f)' = Settled(f)
  <2>1. \A d \in Events : InSomeBatch(d)' <=> InSomeBatch(d)
    BY <1>3 DEF Submit, besidesCaller, workerVars, InSomeBatch
  <2>2. \A d \in Events : fate'[d] = f <=> fate[d] = f
    BY <1>3 DEF Submit
  <2> QED
    BY <2>1, <2>2 DEF Settled
<1>4. ASSUME NEW w \in Workers, Takes(w)
      PROVE  Settled(f)' = Settled(f)
  <2>1. PICK e \in Events : /\ batch' = [batch EXCEPT ![w] = Append(batch[w], e)]
                            /\ Queued(e)
    BY <1>4, HeadType, MembersTail DEF Takes, PopProtected, PopMain, QueueTypeOK, Queued
  <2>2. fate[e] = "live"
    BY <2>1 DEF PlaceInv, Followed
  <2>3. /\ \A v \in Workers : v # w => batch'[v] = batch[v]
        /\ Members(batch'[w]) = Members(batch[w]) \cup {e}
    BY <2>1, MembersAppend DEF WorkerTypeOK
  <2>4. \A d : InSomeBatch(d)' <=> InSomeBatch(d) \/ d = e
    BY <2>3 DEF InSomeBatch
  <2>5. fate' = fate
    BY <1>4 DEF Takes
  <2> QED
    BY <2>2, <2>4, <2>5 DEF Settled
<1> QED
  BY <1>1, <1>2, <1>3, <1>4

(* A drop outside the worker settles one event.                            *)
LEMMA SettledByDrop ==
  ASSUME TypeInv, PlaceInv, IsFiniteSet(Touched),
         Orphans \/ \E c \in Callers : WriteDropped(c)
  PROVE  /\ Settled("written")' = Settled("written")
         /\ Cardinality(Settled("discarded"))' = Cardinality(Settled("discarded")) + 1
<1> USE DEF TypeInv, TypeOK, HistoryTypeOK
<1>1. PICK e \in Events : /\ fate' = [fate EXCEPT ![e] = "discarded"]
                          /\ Queued(e) \/ Held(e)
                          /\ batch' = batch
  <2>1. CASE Orphans
    BY <2>1, HeadType, MembersTail DEF Orphans, PopProtected, PopMain, QueueTypeOK, Queued
  <2>2. CASE \E c \in Callers : WriteDropped(c)
    BY <2>2 DEF WriteDropped, HandHeld, Held, besidesCaller, workerVars
  <2> QED
    BY <2>1, <2>2
<1>2. fate[e] = "live" /\ ~InSomeBatch(e)
  BY <1>1 DEF PlaceInv, Followed, Apart
<1>3. \A d : InSomeBatch(d)' <=> InSomeBatch(d)
  BY <1>1 DEF InSomeBatch
<1>4. Settled("written")' = Settled("written")
  BY <1>1, <1>2, <1>3 DEF Settled
<1>5. Settled("discarded")' = Settled("discarded") \cup {e} /\ e \notin Settled("discarded")
  BY <1>1, <1>2, <1>3 DEF Settled
<1>6. IsFiniteSet(Settled("discarded"))
  BY SettledFinite DEF Fates
<1> QED
  BY <1>4, <1>5, <1>6, FS_AddElement

(* A batch that is done settles what it holds.                             *)
LEMMA SettledByAccount ==
  ASSUME TypeInv, PlaceInv, IsFiniteSet(Touched), NEW w \in Workers, Account(w),
         NEW f \in {"written", "discarded"}
  PROVE  Cardinality(Settled(f))' = Cardinality(Settled(f)) + InBatch(w, f)
<1>1. batch' = [batch EXCEPT ![w] = <<>>] /\ fate' = fate
  BY DEF Account, historyVars
<1>2. \A v \in Workers : batch'[v] = IF v = w THEN <<>> ELSE batch[v]
  BY <1>1 DEF TypeInv, TypeOK, WorkerTypeOK
<1>3. \A e : InSomeBatch(e)' <=> InSomeBatch(e) /\ e \notin Members(batch[w])
  BY <1>2, MembersEmpty DEF InSomeBatch, PlaceInv, Apart
<1>4. Members(batch[w]) \subseteq Events
  BY MembersIn DEF TypeInv, TypeOK, WorkerTypeOK
<1>5. Settled(f)' = Settled(f) \cup BatchWith(w, f)
  BY <1>1, <1>3, <1>4 DEF Settled, BatchWith, InSomeBatch
<1>6. Settled(f) \cap BatchWith(w, f) = {}
  BY DEF Settled, BatchWith, InSomeBatch
<1>7. /\ IsFiniteSet(Settled(f)) /\ Cardinality(Settled(f)) \in Nat
      /\ IsFiniteSet(BatchWith(w, f)) /\ Cardinality(BatchWith(w, f)) = InBatch(w, f)
      /\ InBatch(w, f) \in Nat
  BY SettledFinite, InBatchCounts, InBatchType DEF Fates, PlaceInv, TypeInv, TypeOK
<1>8. Cardinality(Settled(f) \cup BatchWith(w, f)) =
        Cardinality(Settled(f)) + InBatch(w, f) - Cardinality({})
  BY <1>6, <1>7, FS_Union
<1> QED
  BY <1>5, <1>7, <1>8, FS_EmptySet

(* The end of the thread settles what cancelled batches hold.              *)
LEMMA SettledByEnd ==
  ASSUME TypeInv, LoopInv, PlaceInv, IsFiniteSet(Touched), ThreadEnds,
         NEW f \in {"written", "discarded"}
  PROVE  /\ Cardinality(Settled(f)) <= Cardinality(Settled(f))'
         /\ (\A w \in Dynamic : wpc[w] = "off") => Settled(f)' = Settled(f)
<1>1. Empties
  BY EndEmpties
<1>2. \A w \in Workers : batch'[w] = <<>>
  BY DEF ThreadEnds
<1>3. \A e \in Events : ~InSomeBatch(e)'
  BY <1>2, MembersEmpty DEF InSomeBatch
<1>4. \A e \in Events : fate[e] = f <=> fate'[e] = f
  BY <1>1 DEF Empties
<1>5. Settled(f)' = {e \in Events : fate[e] = f}
  BY <1>3, <1>4 DEF Settled
<1>6. Settled(f) \in SUBSET Settled(f)'
  BY <1>5 DEF Settled
<1>7. IsFiniteSet({e \in Events : fate[e] = f})
  <2>1. {e \in Events : fate[e] = f} \subseteq Touched
    BY DEF Touched
  <2> QED
    BY <2>1, FS_Subset
<1>8. Cardinality(Settled(f)) <= Cardinality(Settled(f))'
  BY <1>5, <1>6, <1>7, FS_Subset
<1>9. ASSUME \A w \in Dynamic : wpc[w] = "off"
      PROVE  Settled(f)' = Settled(f)
  <2>1. \A w \in Workers : batch[w] = <<>>
    BY <1>9 DEF ThreadEnds, WorkersDone, LoopInv, EmptyHanded, Workers
  <2>2. \A e \in Events : ~InSomeBatch(e)
    BY <2>1, MembersEmpty DEF InSomeBatch
  <2> QED
    BY <1>5, <2>2 DEF Settled
<1> QED
  BY <1>8, <1>9

-----------------------------------------------------------------------------
(* How steps change the counters.                                          *)

(* A step that neither reads a counter to change it nor changes one.       *)
Uncounting ==
  /\ UNCHANGED <<submitted, processed, dropped, dseen, orphaned>>
  /\ \A c \in Callers :
       pc'[c] = "writeDropped" => pc[c] = "writeDropped" /\ seen'[c] = seen[c]
  /\ dpc' = "addOrphans" => dpc = "addOrphans"
  /\ dpc' \in {"report", "returned"} <=> dpc \in {"report", "returned"}

CountsAside ==
  /\ Uncounting
  /\ \/ Aside \/ Decides
     \/ \E c \in Callers : EnqueueOk(c)
     \/ \E w \in Workers : Takes(w)

CountsMove ==
  \/ CountsAside
  \/ \E c \in Callers : ReadDropped(c) \/ WriteDropped(c) \/ \E e \in Events : Submit(c, e)
  \/ \E w \in Workers : Account(w)
  \/ ThreadEnds
  \/ Orphans /\ (CountProtected \/ CountMain)
  \/ ReadOrphans \/ AddOrphans

LEMMA CallerUncounting ==
  ASSUME TypeInv, NEW c \in Callers,
         CallStart(c) \/ EnqueueOk(c) \/ EnqueueRetry(c) \/ EnqueueGiveUp(c)
  PROVE  Uncounting
<1>1. UNCHANGED <<submitted, processed, dropped, dseen, orphaned, dpc, seen>>
  BY DEF CallStart, EnqueueOk, EnqueueRetry, EnqueueGiveUp, besidesCaller, drainVars, countVars
<1>2. pc' \in {pc, [pc EXCEPT ![c] = "restart"], [pc EXCEPT ![c] = "put"],
               [pc EXCEPT ![c] = "readDropped"], [pc EXCEPT ![c] = "idle"]}
  BY DEF CallStart, EnqueueRetry, EnqueueGiveUp, EnqueueOk
<1>3. \A d \in Callers : pc'[d] = "writeDropped" => pc[d] = "writeDropped"
  BY <1>2 DEF TypeInv, TypeOK, CallerTypeOK
<1> QED
  BY <1>1, <1>3 DEF Uncounting

LEMMA LoopUncounting ==
  ASSUME \/ \E w \in Workers : Resume(w) \/ LoopStep(w) \/ Prepare(w) \/ SinkStep(w)
         \/ BeginTick \/ MonitorStep
         \/ \E w \in Dynamic : AddWorker(w) \/ RetireWorker(w)
  PROVE  Uncounting
<1>1. UNCHANGED <<submitted, processed, dropped, pc, seen, dseen, orphaned, dpc>>
  <2>1. ASSUME NEW w \in Workers, Resume(w) \/ LoopStep(w) \/ Prepare(w)
        PROVE  UNCHANGED <<submitted, processed, dropped, callerVars, drainVars>>
    BY <2>1 DEF Resume, LoopStep, CheckStop, CheckFlush, TakeProtected, TakeMain, NoProtected,
       NoMain, DeadlineFlush, Sleep, DrainProtected, DrainMain, Prepare, Enrich, FlushNothing,
       ClearRequest, SignalFlushed, besidesLoop, countVars
  <2>2. ASSUME NEW w \in Workers, SinkStep(w)
        PROVE  UNCHANGED <<submitted, processed, dropped, callerVars, drainVars>>
    BY <2>2 DEF SinkStep, WriteDone, besidesLoop, countVars
  <2>3. CASE \/ BeginTick \/ MonitorStep
             \/ \E w \in Dynamic : AddWorker(w) \/ RetireWorker(w)
    BY <2>3 DEF BeginTick, MonitorStep, SampleProtected, EvaluateShedding, AddWorker,
       RetireWorker, besidesLoop, callerVars, drainVars, countVars
  <2> QED
    BY <2>1, <2>2, <2>3 DEF callerVars, drainVars
<1> QED
  BY <1>1 DEF Uncounting

LEMMA DrainUncounting ==
  ASSUME \/ CallFlush \/ RequestFlush \/ FlushReturns \/ FlushTimesOut
         \/ BeginDrain \/ RaiseStop \/ Join \/ Report \/ UNCHANGED vars
  PROVE  Uncounting
<1>1. CASE CallFlush \/ RequestFlush \/ FlushReturns \/ FlushTimesOut \/ UNCHANGED vars
  BY <1>1 DEF CallFlush, RequestFlush, FlushReturns, FlushTimesOut, vars, besidesFlush,
              callerVars, drainVars, countVars, Uncounting
<1>2. CASE BeginDrain \/ RaiseStop \/ Join \/ Report
  BY <1>2 DEF BeginDrain, RaiseStop, Join, Report, besidesDrain, callerVars, countVars,
              Uncounting
<1> QED
  BY <1>1, <1>2

LEMMA OrphansUncounting ==
  ASSUME CountProtected \/ CountMain
  PROVE  (Orphans /\ (CountProtected \/ CountMain)) \/ (Aside /\ Uncounting)
<1>1. CASE CountProtected
  BY <1>1 DEF CountProtected, Orphans, Aside, Uncounting, besidesDrain, callerVars,
     workerVars, queueVars, countVars, PopProtected
<1>2. CASE CountMain
  BY <1>2 DEF CountMain, Orphans, Aside, Uncounting, besidesDrain, callerVars,
     workerVars, queueVars, countVars, PopMain
<1> QED
  BY <1>1, <1>2

LEMMA StepsCount ==
  ASSUME TypeInv, [Next]_vars
  PROVE  CountsMove
<1>1. ASSUME NEW c \in Callers, CallerStep(c) \/ \E e \in Events : Submit(c, e)
      PROVE  CountsMove
  BY <1>1, MovesCaller, CallerUncounting DEF CallerStep, CountsMove, CountsAside
<1>2. ASSUME NEW w \in Workers,
             Resume(w) \/ LoopStep(w) \/ Prepare(w) \/ SinkStep(w) \/ Account(w)
      PROVE  CountsMove
  BY <1>2, LoopUncounting, TakesProtected, TakesMain, MovesAlong, PrepareDecides,
     WriteDecides DEF LoopStep, CountsMove, CountsAside
<1>3. ASSUME \/ ThreadEnds \/ BeginTick \/ MonitorStep
             \/ \E w \in Dynamic : AddWorker(w) \/ RetireWorker(w)
      PROVE  CountsMove
  BY <1>3, LoopUncounting, MovesMonitor DEF CountsMove, CountsAside
<1>4. ASSUME \/ CallFlush \/ RequestFlush \/ FlushReturns \/ FlushTimesOut
             \/ BeginDrain \/ DrainStep \/ UNCHANGED vars
      PROVE  CountsMove
  BY <1>4, DrainUncounting, MovesFlusher, OrphansUncounting
     DEF DrainStep, CountsMove, CountsAside
<1> QED
  BY <1>1, <1>2, <1>3, <1>4 DEF Next, Finished

(* Once the thread is gone no worker moves.                                *)
LEMMA LoopGone ==
  ASSUME TypeInv, LoopInv, [Next]_vars, loop # "up"
  PROVE  loop' # "up" /\ wpc' = wpc
<1>1. ASSUME NEW c \in Callers, CallerStep(c) \/ \E e \in Events : Submit(c, e)
      PROVE  UNCHANGED <<loop, wpc>>
  BY <1>1 DEF CallerStep, Submit, CallStart, EnqueueOk, EnqueueRetry, EnqueueGiveUp,
              ReadDropped, WriteDropped, besidesCaller, workerVars
<1>2. holder = NoOne /\ monitor = "asleep"
  BY PipelineAssumption DEF LoopInv, LoopQuiet, HolderRuns
<1>3. NoOne \notin Workers
  BY PipelineAssumption
<1>4. ASSUME NEW w \in Workers
      PROVE  ~(Resume(w) \/ LoopStep(w) \/ Prepare(w) \/ SinkStep(w) \/ Account(w))
  BY <1>2, <1>3, <1>4
     DEF Resume, LoopStep, CheckStop, CheckFlush, TakeProtected, TakeMain, NoProtected,
         NoMain, DeadlineFlush, Sleep, DrainProtected, DrainMain, Prepare, Enrich, FlushNothing,
         ClearRequest, SignalFlushed, SinkStep, WriteDone, Account
<1>5. ~ThreadEnds /\ ~BeginTick /\ ~MonitorStep /\ ~\E w \in Dynamic : AddWorker(w)
  BY <1>2 DEF ThreadEnds, BeginTick, MonitorStep, SampleProtected, EvaluateShedding, AddWorker
<1>6. ASSUME \/ CallFlush \/ RequestFlush \/ FlushReturns \/ FlushTimesOut
             \/ \E w \in Dynamic : RetireWorker(w)
             \/ BeginDrain \/ UNCHANGED vars
      PROVE  UNCHANGED <<loop, wpc>>
  BY <1>6 DEF CallFlush, RequestFlush, FlushReturns, FlushTimesOut, RetireWorker, BeginDrain,
              vars, besidesFlush, besidesLoop, workerVars
<1>7. ASSUME DrainStep
      PROVE  loop' \in {loop, "none"} /\ wpc' = wpc
  BY <1>7 DEF DrainStep, RaiseStop, Join, CountProtected, CountMain, ReadOrphans, AddOrphans,
              Report, besidesDrain, workerVars
<1> QED
  BY <1>1, <1>4, <1>5, <1>6, <1>7 DEF Next, Finished

-----------------------------------------------------------------------------
(* The counters keep up with the settled events.                           *)

LEMMA SubmittedStep ==
  ASSUME TypeInv, PlaceInv, SubmittedInv, [Next]_vars
  PROVE  SubmittedInv'
<1> USE DEF TypeInv, TypeOK, HistoryTypeOK
<1>1. ASSUME NEW c \in Callers, NEW e \in Events, Submit(c, e)
      PROVE  SubmittedInv'
  <2>1. Touched' = Touched \cup {e} /\ e \notin Touched
    BY <1>1 DEF Submit, Touched
  <2>2. submitted' = submitted + 1
    BY <1>1 DEF Submit
  <2> QED
    BY <2>1, <2>2, FS_AddElement DEF SubmittedInv
<1>2. CASE \A c \in Callers, e \in Events : ~Submit(c, e)
  <2>1. Touched' = Touched
    BY <1>2, PlaceMoves, TouchedSame
  <2>2. submitted' = submitted
    BY <1>2, StepsCount DEF CountsMove, CountsAside, Uncounting, ReadDropped, WriteDropped,
       Account, ThreadEnds, CountProtected, CountMain, ReadOrphans, AddOrphans, countVars
  <2> QED
    BY <2>1, <2>2 DEF SubmittedInv
<1> QED
  BY <1>1, <1>2

LEMMA AsideSettles ==
  ASSUME TypeInv, PlaceInv, NEW f \in {"written", "discarded"},
         \/ CountsAside
         \/ \E c \in Callers : ReadDropped(c) \/ \E e \in Events : Submit(c, e)
         \/ ReadOrphans \/ AddOrphans
  PROVE  Settled(f)' = Settled(f)
<1>1. ASSUME NEW c \in Callers, ReadDropped(c)
      PROVE  Aside
  BY <1>1, MovesCaller DEF CallerStep, ReadDropped, WriteDropped, EnqueueOk
<1>2. ASSUME ReadOrphans \/ AddOrphans
      PROVE  Aside
  BY <1>2, MovesFlusher
<1> QED
  BY <1>1, <1>2, SettledSame DEF CountsAside

LEMMA ProcessedStep ==
  ASSUME TypeInv, LoopInv, PlaceInv, SubmittedInv, ProcessedInv, [Next]_vars
  PROVE  ProcessedInv'
<1> DEFINE Counting == loop = "up" \/ \A w \in Dynamic : wpc[w] = "off"
<1>0. IsFiniteSet(Touched)
  BY DEF SubmittedInv
<1>1. SUFFICES ASSUME Counting'
               PROVE  processed' = Cardinality(Settled("written"))'
  BY DEF ProcessedInv
<1>2. CASE ThreadEnds
  <2>1. loop' = "ended" /\ processed' = processed
    BY <1>2 DEF ThreadEnds, countVars
  <2>2. \A w \in Dynamic : wpc[w] = "off"
    BY <1>1, <1>2, <2>1 DEF ThreadEnds, Workers
  <2>3. Settled("written")' = Settled("written")
    BY <1>0, <1>2, <2>2, SettledByEnd
  <2> QED
    BY <2>1, <2>2, <2>3 DEF ProcessedInv
<1>3. CASE ~ThreadEnds
  <2>1. Counting
    BY <1>1, LoopGone
  <2>2. processed = Cardinality(Settled("written"))
    BY <2>1 DEF ProcessedInv
  <2>3. ASSUME NEW w \in Workers, Account(w)
        PROVE  processed' = Cardinality(Settled("written"))'
    <3>1. processed' = processed + InBatch(w, "written")
      BY <2>3 DEF Account
    <3>2. Cardinality(Settled("written"))' =
            Cardinality(Settled("written")) + InBatch(w, "written")
      BY <1>0, <2>3, SettledByAccount
    <3> QED
      BY <2>2, <3>1, <3>2
  <2>4. ASSUME NEW c \in Callers, WriteDropped(c)
        PROVE  processed' = Cardinality(Settled("written"))'
    <3>1. processed' = processed
      BY <2>4 DEF WriteDropped
    <3>2. Settled("written")' = Settled("written")
      BY <1>0, <2>4, SettledByDrop
    <3> QED
      BY <2>2, <3>1, <3>2
  <2>5. ASSUME Orphans, CountProtected \/ CountMain
        PROVE  processed' = Cardinality(Settled("written"))'
    <3>1. processed' = processed
      BY <2>5 DEF CountProtected, CountMain, countVars
    <3>2. Settled("written")' = Settled("written")
      BY <1>0, <2>5, SettledByDrop
    <3> QED
      BY <2>2, <3>1, <3>2
  <2>6. ASSUME \/ CountsAside
               \/ \E c \in Callers : ReadDropped(c) \/ \E e \in Events : Submit(c, e)
               \/ ReadOrphans \/ AddOrphans
        PROVE  processed' = Cardinality(Settled("written"))'
    <3>1. processed' = processed
      BY <2>6 DEF CountsAside, Uncounting, ReadDropped, Submit, ReadOrphans, AddOrphans, countVars
    <3>2. Settled("written")' = Settled("written")
      BY <2>6, AsideSettles
    <3> QED
      BY <2>2, <3>1, <3>2
  <2> QED
    BY <1>3, <2>3, <2>4, <2>5, <2>6, StepsCount DEF CountsMove
<1> QED
  BY <1>2, <1>3

LEMMA CountedInt ==
  ASSUME TypeInv, SubmittedInv
  PROVE  /\ Counted \in Int /\ Pending \in Nat
         /\ Cardinality(Settled("discarded")) \in Nat
         /\ dropped \in Nat /\ orphaned \in Nat /\ dseen \in Nat
         /\ \A c \in Callers : seen[c] \in Nat
<1>1. Cardinality(Settled("discarded")) \in Nat
  BY SettledFinite DEF SubmittedInv, Fates
<1> QED
  BY <1>1 DEF Counted, Pending, TypeInv, TypeOK, DrainTypeOK, CountTypeOK, CallerTypeOK

(* The drops counted so far only grow, and nobody writes one too many.     *)
LEMMA DropsStep ==
  ASSUME TypeInv, TypeInv', LoopInv, PlaceInv, SubmittedInv, SubmittedInv', DropsInv,
         [Next]_vars
  PROVE  DropsInv'
<1> DEFINE D == Cardinality(Settled("discarded"))
<1>0. IsFiniteSet(Touched)
  BY DEF SubmittedInv
<1>1. /\ Counted = D - Pending /\ Counted' = D' - Pending'
      /\ D \in Nat /\ D' \in Nat /\ Counted \in Int /\ Counted' \in Int
      /\ Pending \in Nat /\ Pending' \in Nat
      /\ dropped \in Nat /\ dropped' \in Nat /\ orphaned \in Nat
      /\ dseen \in Nat /\ dseen' \in Nat
      /\ \A c \in Callers : seen[c] \in Nat /\ seen'[c] \in Nat
  <2>1. D' \in Nat
    <3>1. Settled("discarded")' \subseteq Touched' /\ IsFiniteSet(Touched')
      BY DEF Settled, Touched, SubmittedInv
    <3> QED
      BY <3>1, FS_Subset, FS_CardinalityType
  <2>2. /\ Pending' \in Nat /\ dropped' \in Nat /\ dseen' \in Nat
        /\ \A c \in Callers : seen'[c] \in Nat
    BY DEF Pending, TypeInv, TypeOK, DrainTypeOK, CountTypeOK, CallerTypeOK
  <2>3. Counted' = D' - Pending'
    BY DEF Counted
  <2> QED
    BY <2>1, <2>2, <2>3, CountedInt DEF Counted
<1> HIDE DEF D
<1>a. Counted \in Int /\ Counted' \in Int
  BY <1>1
<1>b. dropped \in Nat /\ dropped' \in Nat /\ orphaned \in Nat /\ dseen \in Nat
  BY <1>1
<1>c. \A c \in Callers : seen[c] \in Nat /\ seen'[c] \in Nat
  BY <1>1
<1>2. CASE CountsAside
  <2>1. D' = D
    BY <1>2, AsideSettles DEF D
  <2>2. Pending' = Pending
    BY <1>2 DEF CountsAside, Uncounting, Pending
  <2>3. Counted' = Counted
    BY <1>1, <2>1, <2>2
  <2> QED
    BY <1>2, <2>3 DEF DropsInv, CountsAside, Uncounting
<1>3. ASSUME NEW c \in Callers, NEW e \in Events, Submit(c, e)
      PROVE  DropsInv'
  <2>1. D' = D
    BY <1>3, AsideSettles DEF D
  <2>2. UNCHANGED <<dropped, dseen, orphaned, dpc, seen>>
    BY <1>3 DEF Submit, besidesCaller, drainVars
  <2>3. Counted' = Counted
    BY <1>1, <2>1, <2>2 DEF Pending
  <2>4. \A d \in Callers : pc'[d] = "writeDropped" => pc[d] = "writeDropped"
    BY <1>3 DEF Submit, TypeInv, TypeOK, CallerTypeOK
  <2> QED
    BY <2>2, <2>3, <2>4 DEF DropsInv
<1>4. ASSUME NEW c \in Callers, ReadDropped(c)
      PROVE  DropsInv'
  <2>1. D' = D
    BY <1>4, AsideSettles DEF D
  <2>2. UNCHANGED <<dropped, dseen, orphaned, dpc>>
    BY <1>4 DEF ReadDropped, besidesCaller, drainVars, countVars
  <2>3. Counted' = Counted
    BY <1>1, <2>1, <2>2 DEF Pending
  <2>4. /\ seen'[c] = dropped
        /\ \A d \in Callers : d # c => seen'[d] = seen[d] /\ pc'[d] = pc[d]
    BY <1>4 DEF ReadDropped, TypeInv, TypeOK, CallerTypeOK
  <2> QED
    BY <2>2, <2>3, <2>4 DEF DropsInv
<1>5. ASSUME NEW c \in Callers, WriteDropped(c)
      PROVE  DropsInv'
  <2>1. D' = D + 1
    BY <1>0, <1>5, SettledByDrop DEF D
  <2>2. UNCHANGED <<dseen, orphaned, dpc>>
    BY <1>5 DEF WriteDropped, besidesCaller, drainVars
  <2>3. Counted' = Counted + 1
    BY <1>1, <2>1, <2>2 DEF Pending
  <2>4. /\ dropped' = seen[c] + 1 /\ pc[c] = "writeDropped" /\ pc'[c] = "idle"
        /\ \A d \in Callers : d # c => seen'[d] = seen[d] /\ pc'[d] = pc[d]
    BY <1>5 DEF WriteDropped, TypeInv, TypeOK, CallerTypeOK
  <2>5. seen[c] <= Counted
    BY <2>4 DEF DropsInv
  <2>6. \A d \in Callers : pc'[d] = "writeDropped" => seen'[d] <= Counted
    BY <2>4 DEF DropsInv
  <2>7. dpc' = "addOrphans" => dseen' <= Counted
    BY <2>2 DEF DropsInv
  <2>8. dropped' <= Counted'
    BY <1>a, <1>c, <2>3, <2>4, <2>5
  <2>9. \A n \in Nat : n <= Counted => n <= Counted'
    BY <1>a, <2>3
  <2> QED
    BY <1>1, <2>6, <2>7, <2>8, <2>9 DEF DropsInv
<1>6. ASSUME NEW w \in Workers, Account(w)
      PROVE  DropsInv'
  <2>1. D' = D + InBatch(w, "discarded")
    BY <1>0, <1>6, SettledByAccount DEF D
  <2>2. UNCHANGED <<dseen, orphaned, dpc, pc, seen>>
    BY <1>6 DEF Account, besidesLoop, callerVars, drainVars
  <2>3. InBatch(w, "discarded") \in Nat
    BY InBatchType DEF TypeInv, TypeOK
  <2>4. Counted' = Counted + InBatch(w, "discarded")
    BY <1>1, <2>1, <2>2, <2>3 DEF Pending
  <2>5. dropped' = dropped + InBatch(w, "discarded")
    BY <1>6 DEF Account
  <2>6. dropped <= Counted
    BY DEF DropsInv
  <2>7. dropped' <= Counted'
    BY <1>a, <1>b, <2>3, <2>4, <2>5, <2>6
  <2>8. \A n \in Nat : n <= Counted => n <= Counted'
    BY <1>a, <2>3, <2>4
  <2> QED
    BY <1>1, <2>2, <2>7, <2>8 DEF DropsInv
<1>7. CASE ThreadEnds
  <2>1. D <= D'
    BY <1>0, <1>7, SettledByEnd DEF D
  <2>2. UNCHANGED <<dropped, dseen, orphaned, dpc, pc, seen>>
    BY <1>7 DEF ThreadEnds, callerVars, drainVars, countVars
  <2>3. Pending' = Pending
    BY <2>2 DEF Pending
  <2>4. Counted <= Counted'
    <3>1. /\ Counted = D - Pending /\ Counted' = D' - Pending
          /\ D \in Nat /\ D' \in Nat /\ Pending \in Nat
      BY <1>1, <2>3
    <3>2. \A a, b, p \in Nat : a <= b => a - p <= b - p
      OBVIOUS
    <3>3. D - Pending <= D' - Pending
      BY <2>1, <3>1, <3>2
    <3> QED
      BY <3>1, <3>3
  <2>5. \A n \in Nat : n <= Counted => n <= Counted'
    BY <1>a, <2>4
  <2> QED
    BY <1>1, <2>2, <2>5 DEF DropsInv
<1>8. CASE Orphans /\ (CountProtected \/ CountMain)
  <2>1. D' = D + 1
    BY <1>0, <1>8, SettledByDrop DEF D
  <2>2. /\ UNCHANGED <<dropped, dseen, pc, seen>> /\ orphaned' = orphaned + 1
        /\ dpc \in {"count", "countMain"} /\ dpc' \in {"count", "countMain"}
    BY <1>8, EmptySeq DEF CountProtected, CountMain, Orphans, PopProtected, PopMain, besidesDrain,
       callerVars, countVars, queueVars, TypeInv, TypeOK, QueueTypeOK
  <2>3. Pending' = Pending + 1
    BY <2>2 DEF Pending
  <2>4. Counted' = Counted
    BY <1>1, <2>1, <2>3
  <2> QED
    BY <2>2, <2>4 DEF DropsInv
<1>9. CASE ReadOrphans
  <2>1. D' = D
    BY <1>9, AsideSettles DEF D
  <2>2. /\ UNCHANGED <<dropped, pc, seen, orphaned>> /\ dpc = "counted"
        /\ \/ dpc' = "addOrphans" /\ dseen' = dropped
           \/ dpc' = "report" /\ orphaned = 0
    BY <1>1, <1>9 DEF ReadOrphans, besidesDrain, callerVars, countVars
  <2>3. Pending' = Pending
    BY <2>2 DEF Pending
  <2>4. Counted' = Counted
    BY <1>1, <2>1, <2>3
  <2> QED
    BY <2>2, <2>4 DEF DropsInv
<1>10. CASE AddOrphans
  <2>1. D' = D
    BY <1>10, AsideSettles DEF D
  <2>2. /\ UNCHANGED <<pc, seen, orphaned>> /\ dpc = "addOrphans" /\ dpc' = "report"
        /\ dropped' = dseen + orphaned
    BY <1>10 DEF AddOrphans, besidesDrain, callerVars
  <2>3. Pending' = 0 /\ Pending = orphaned
    BY <2>2 DEF Pending
  <2>4. Counted' = Counted + orphaned
    BY <1>1, <2>1, <2>3
  <2>5. dseen <= Counted
    BY <2>2 DEF DropsInv
  <2>6. dropped' <= Counted'
    BY <1>a, <1>b, <2>2, <2>4, <2>5
  <2>7. \A n \in Nat : n <= Counted => n <= Counted'
    BY <1>a, <1>b, <2>4
  <2> QED
    BY <1>1, <2>2, <2>6, <2>7 DEF DropsInv
<1> QED
  BY <1>2, <1>3, <1>4, <1>5, <1>6, <1>7, <1>8, <1>9, <1>10, StepsCount DEF CountsMove

BooksKept == PipelineInv /\ CountInv

LEMMA CountInvariant == Spec => []BooksKept
<1>1. Init => BooksKept
  BY InitType, LoopInvInit, InitPlace, InitCounts DEF BooksKept, PipelineInv
<1>2. BooksKept /\ [Next]_vars => BooksKept'
  BY NextType, LoopInvNext, PlaceNext, SubmittedStep, ProcessedStep, DropsStep
     DEF BooksKept, PipelineInv, CountInv
<1> QED
  BY <1>1, <1>2, PTL DEF Spec

(* Whatever read-modify-write updates of callers, workers and the drainer   *)
(* overlap, `dropped' never claims a drop that did not happen.             *)
THEOREM DropsNeverOverReported == Spec => []NeverOverReported
<1>1. ASSUME BooksKept
      PROVE  NeverOverReported
  <2> DEFINE T == {e \in Events : fate[e] = "discarded"}
  <2>1. IsFiniteSet(Touched) /\ T \subseteq Touched /\ Settled("discarded") \subseteq T
    BY <1>1 DEF BooksKept, CountInv, SubmittedInv, Touched, Settled
  <2>2. IsFiniteSet(T)
    BY <2>1, FS_Subset
  <2>3. /\ Cardinality(Settled("discarded")) <= Cardinality(T)
        /\ Cardinality(T) \in Nat
    BY <2>1, <2>2, FS_Subset, FS_CardinalityType
  <2>4. dropped <= Counted
    BY <1>1 DEF BooksKept, CountInv, DropsInv
  <2>5. /\ Counted = Cardinality(Settled("discarded")) - Pending
        /\ Counted \in Int /\ Pending \in Nat
        /\ Cardinality(Settled("discarded")) \in Nat /\ dropped \in Nat
    BY <1>1, CountedInt DEF Counted, BooksKept, PipelineInv, CountInv
  <2> HIDE DEF T
  <2>6. dropped <= Cardinality(T)
    BY <2>3, <2>4, <2>5
  <2> QED
    BY <2>6 DEF NeverOverReported, Total, T
<1> QED
  BY <1>1, CountInvariant, PTL

(* While the thread runs, and after it unless a dynamic worker was         *)
(* cancelled, `processed' and the batches not yet counted make up every     *)
(* event the sinks took: none is counted twice and none is forgotten.      *)
THEOREM ProcessedIsExact == Spec => []ProcessedExact
<1>1. ASSUME BooksKept
      PROVE  ProcessedExact
  <2> DEFINE T == {e \in Events : fate[e] = "written"}
             U == {e \in Events : fate[e] = "written" /\ InSomeBatch(e)}
             S == Settled("written")
  <2>1. IsFiniteSet(Touched) /\ S \subseteq Touched /\ U \subseteq Touched
    BY <1>1 DEF BooksKept, CountInv, SubmittedInv, Touched, Settled
  <2>2. IsFiniteSet(S) /\ IsFiniteSet(U)
    BY <2>1, FS_Subset
  <2>3. T = S \cup U /\ S \cap U = {}
    BY DEF Settled
  <2> HIDE DEF S, T, U
  <2>4. Cardinality(S) \in Nat /\ Cardinality(U) \in Nat /\ Cardinality({}) = 0
    BY <2>2, FS_CardinalityType, FS_EmptySet
  <2>5. Cardinality(T) = Cardinality(S) + Cardinality(U) - Cardinality({})
    BY <2>2, <2>3, FS_Union
  <2>6. Cardinality(T) = Cardinality(S) + Cardinality(U)
    BY <2>4, <2>5
  <2> QED
    BY <1>1, <2>6 DEF ProcessedExact, Total, Uncounted, BooksKept, CountInv, ProcessedInv, S, T, U
<1> QED
  BY <1>1, CountInvariant, PTL

-----------------------------------------------------------------------------
(* A batch is decided only in its flush.                                   *)

Undecided ==
  \A w \in Workers : wpc[w] # "writing" => \A e \in Members(batch[w]) : fate[e] = "live"

KeepsWriting == \A w \in Workers : wpc[w] = "writing" => wpc'[w] = "writing"

LEMMA InitUndecided == Init => Undecided
BY MembersEmpty DEF Init, Undecided

(* Only its Account and the end of the thread end the writes of a batch.    *)
LEMMA WritingKept ==
  ASSUME TypeInv, [Next]_vars, ~ThreadEnds, \A w \in Workers : ~Account(w)
  PROVE  KeepsWriting
<1> USE DEF TypeInv, TypeOK, WorkerTypeOK, KeepsWriting
<1>1. ASSUME NEW c \in Callers, CallerStep(c) \/ \E e \in Events : Submit(c, e)
      PROVE  wpc' = wpc
  BY <1>1 DEF CallerStep, Submit, CallStart, EnqueueOk, EnqueueRetry, EnqueueGiveUp,
              ReadDropped, WriteDropped, besidesCaller, workerVars
<1>2. ASSUME NEW w \in Workers, Resume(w) \/ LoopStep(w) \/ Prepare(w)
      PROVE  KeepsWriting
  <2>1. wpc[w] # "writing"
    BY <1>2 DEF Resume, LoopStep, CheckStop, CheckFlush, TakeProtected, TakeMain,
       NoProtected, NoMain, DeadlineFlush, Sleep, DrainProtected, DrainMain, Prepare, Enrich,
       FlushNothing, ClearRequest, SignalFlushed
  <2>2. \E p : wpc' = [wpc EXCEPT ![w] = p]
    <3>1. wpc = [wpc EXCEPT ![w] = wpc[w]]
      OBVIOUS
    <3> QED
      BY <1>2, <3>1 DEF Resume, LoopStep, CheckStop, CheckFlush, TakeProtected, TakeMain, Collect,
       NoProtected, NoMain, DeadlineFlush, Sleep, DrainProtected, DrainMain, Prepare, Enrich,
       FlushNothing, ClearRequest, SignalFlushed
  <2> QED
    BY <2>1, <2>2
<1>3. ASSUME NEW w \in Workers, SinkStep(w)
      PROVE  wpc' = wpc
  BY <1>3 DEF SinkStep, WriteDone, workerVars
<1>4. ASSUME NEW w \in Dynamic, AddWorker(w) \/ RetireWorker(w)
      PROVE  KeepsWriting
  BY <1>4 DEF AddWorker, RetireWorker, Workers
<1>5. ASSUME \/ BeginTick \/ MonitorStep
             \/ CallFlush \/ RequestFlush \/ FlushReturns \/ FlushTimesOut
             \/ BeginDrain \/ UNCHANGED vars
      PROVE  wpc' = wpc
  BY <1>5 DEF BeginTick, MonitorStep, SampleProtected, EvaluateShedding, CallFlush,
     RequestFlush, FlushReturns, FlushTimesOut, BeginDrain, vars, besidesFlush, workerVars
<1>6. ASSUME DrainStep
      PROVE  wpc' = wpc
  BY <1>6 DEF DrainStep, RaiseStop, Join, CountProtected, CountMain, ReadOrphans, AddOrphans,
              Report, besidesDrain, workerVars
<1> QED
  BY <1>1, <1>2, <1>3, <1>4, <1>5, <1>6 DEF Next, Finished

(* What a step decides was live.                                           *)
LEMMA DecidesLive ==
  ASSUME TypeInv, Undecided, NEW w \in Workers, Prepare(w) \/ SinkStep(w),
         NEW e \in Events, fate'[e] # fate[e]
  PROVE  /\ fate[e] = "live" /\ fate'[e] \in {"written", "discarded", "filtered"}
         /\ e \in Members(batch[w])
<1> USE DEF TypeInv, TypeOK, HistoryTypeOK
<1>1. CASE Prepare(w)
  <2>1. PICK verdict \in [Members(batch[w]) -> Verdicts] :
          fate' = [d \in Events |->
                    IF d \in Members(batch[w])
                      THEN CASE verdict[d] = "keep"   -> fate[d]
                             [] verdict[d] = "filter" -> "filtered"
                             [] OTHER                 -> "discarded"
                      ELSE fate[d]]
    BY <1>1 DEF Prepare
  <2>2. e \in Members(batch[w]) /\ fate'[e] \in {"filtered", "discarded"}
    BY <2>1
  <2>3. wpc[w] # "writing"
    BY <1>1 DEF Prepare
  <2> QED
    BY <2>2, <2>3 DEF Undecided
<1>2. CASE SinkStep(w)
  <2>1. PICK i \in DOMAIN batch[w], o \in SinkResults : WriteDone(w, i, o)
    BY <1>2 DEF SinkStep
  <2>2. /\ fate' = [fate EXCEPT ![batch[w][i]] = o] /\ o \in {"written", "discarded"}
        /\ i \in Unwritten(w)
    BY <2>1, PipelineAssumption DEF WriteDone, InFlight
  <2>3. e = batch[w][i] /\ fate'[e] = o
    BY <2>2
  <2> QED
    BY <2>2, <2>3 DEF Unwritten, Members
<1> QED
  BY <1>1, <1>2

LEMMA DecideSteps ==
  ASSUME TypeInv, [Next]_vars
  PROVE  \/ Aside
         \/ \E c \in Callers : WriteDropped(c) \/ EnqueueOk(c) \/ \E e \in Events : Submit(c, e)
         \/ \E w \in Workers : Takes(w) \/ Account(w) \/ Prepare(w) \/ SinkStep(w)
         \/ Orphans /\ (CountProtected \/ CountMain)
         \/ ThreadEnds
<1> DEFINE Goal == \/ Aside
                   \/ \E c \in Callers : WriteDropped(c) \/ EnqueueOk(c) \/ \E e \in Events : Submit(c, e)
                   \/ \E w \in Workers : Takes(w) \/ Account(w) \/ Prepare(w) \/ SinkStep(w)
                   \/ Orphans /\ (CountProtected \/ CountMain)
                   \/ ThreadEnds
<1>1. ASSUME NEW c \in Callers, CallerStep(c) \/ \E e \in Events : Submit(c, e)
      PROVE  Goal
  BY <1>1, MovesCaller
<1>2. ASSUME NEW w \in Workers,
             Resume(w) \/ LoopStep(w) \/ Prepare(w) \/ SinkStep(w) \/ Account(w)
      PROVE  Goal
  BY <1>2, TakesProtected, TakesMain, MovesAlong DEF LoopStep
<1>3. ASSUME \/ ThreadEnds \/ BeginTick \/ MonitorStep
             \/ \E w \in Dynamic : AddWorker(w) \/ RetireWorker(w)
      PROVE  Goal
  BY <1>3, MovesMonitor
<1>4. ASSUME \/ CallFlush \/ RequestFlush \/ FlushReturns \/ FlushTimesOut
             \/ BeginDrain \/ DrainStep \/ UNCHANGED vars
      PROVE  Goal
  BY <1>4, MovesFlusher, OrphansUncounting DEF DrainStep
<1> QED
  BY <1>1, <1>2, <1>3, <1>4 DEF Next, Finished

(* An event that changes its fate while it is in a batch is in one being    *)
(* flushed.                                                                *)
LEMMA UndecidedStep ==
  ASSUME TypeInv, LoopInv, PlaceInv, Undecided, [Next]_vars
  PROVE  Undecided'
<1> USE DEF TypeInv, TypeOK, HistoryTypeOK, WorkerTypeOK
<1>1. ASSUME NEW w \in Workers, Account(w)
      PROVE  Undecided'
  <2>1. /\ fate' = fate /\ \E p : wpc' = [wpc EXCEPT ![w] = p]
        /\ batch' = [batch EXCEPT ![w] = <<>>]
    BY <1>1 DEF Account, historyVars
  <2>2. batch'[w] = <<>> /\ \A v \in Workers : v # w => wpc'[v] = wpc[v] /\ batch'[v] = batch[v]
    BY <2>1
  <2> QED
    BY <2>1, <2>2, MembersEmpty DEF Undecided
<1>2. ASSUME ThreadEnds
      PROVE  Undecided'
  BY <1>2, MembersEmpty DEF ThreadEnds, Undecided
<1>3. ASSUME ~ThreadEnds, \A w \in Workers : ~Account(w)
      PROVE  Undecided'
  <2>1. KeepsWriting
    BY <1>3, WritingKept
  <2>2. SUFFICES ASSUME NEW v \in Workers, wpc[v] # "writing", wpc'[v] # "writing",
                        NEW e \in Members(batch'[v])
                 PROVE  fate'[e] = "live"
    BY <2>1 DEF Undecided, KeepsWriting
  <2>3. CASE Aside
    BY <2>2, <2>3 DEF Aside, Undecided
  <2>4. ASSUME NEW c \in Callers, EnqueueOk(c)
        PROVE  fate'[e] = "live"
    BY <2>2, <2>4 DEF EnqueueOk, Undecided, besidesCaller, workerVars
  <2>5. ASSUME NEW c \in Callers, NEW d \in Events, Submit(c, d)
        PROVE  fate'[e] = "live"
    <3>1. batch' = batch /\ fate' = [fate EXCEPT ![d] = "live"]
      BY <2>5 DEF Submit, besidesCaller, workerVars
    <3> QED
      BY <2>2, <3>1, MembersIn DEF Undecided
  <2>6. ASSUME NEW c \in Callers, WriteDropped(c)
        PROVE  fate'[e] = "live"
    <3>1. batch' = batch /\ fate' = [fate EXCEPT ![hand[c]] = "discarded"]
      BY <2>6 DEF WriteDropped, besidesCaller, workerVars
    <3>2. hand[c] \in Events /\ Held(hand[c])
      BY <2>6 DEF WriteDropped, HandHeld, Held
    <3>3. e \in Events /\ InSomeBatch(e)
      BY <2>2, <3>1, MembersIn DEF InSomeBatch
    <3>4. e # hand[c]
      BY <3>2, <3>3 DEF PlaceInv, Apart
    <3> QED
      BY <2>2, <3>1, <3>3, <3>4 DEF Undecided
  <2>7. ASSUME NEW w \in Workers, Takes(w)
        PROVE  fate'[e] = "live"
    <3>1. PICK d \in Events : /\ batch' = [batch EXCEPT ![w] = Append(batch[w], d)]
                              /\ Queued(d)
      BY <2>7, HeadType, MembersTail DEF Takes, PopProtected, PopMain, QueueTypeOK, Queued
    <3>2. fate[d] = "live" /\ fate' = fate
      BY <2>7, <3>1 DEF PlaceInv, Followed, Takes
    <3>3. Members(batch'[v]) \subseteq Members(batch[v]) \cup {d}
      BY <3>1, MembersAppend
    <3> QED
      BY <2>2, <3>2, <3>3 DEF Undecided
  <2>8. ASSUME NEW w \in Workers, Prepare(w) \/ SinkStep(w)
        PROVE  fate'[e] = "live"
    <3>1. batch' = batch
      BY <2>8, PrepareDecides, WriteDecides DEF Decides
    <3>2. wpc'[w] = "writing"
      BY <2>8 DEF Prepare, SinkStep, WriteDone, workerVars
    <3>3. v # w
      BY <2>2, <3>2
    <3>4. e \in Events /\ e \notin Members(batch[w])
      BY <2>2, <3>1, <3>3, MembersIn DEF PlaceInv, Apart
    <3>5. fate'[e] = fate[e]
      BY <2>8, <3>4, DecidesLive
    <3> QED
      BY <2>2, <3>1, <3>5 DEF Undecided
  <2>9. CASE Orphans
    <3>1. PICK d \in Events : Queued(d) /\ fate' = [fate EXCEPT ![d] = "discarded"]
      BY <2>9, HeadType, MembersTail DEF Orphans, PopProtected, PopMain, QueueTypeOK, Queued
    <3>2. batch' = batch
      BY <2>9 DEF Orphans
    <3>3. e \in Events /\ InSomeBatch(e)
      BY <2>2, <3>2, MembersIn DEF InSomeBatch
    <3>4. e # d
      BY <3>1, <3>3 DEF PlaceInv, Apart
    <3> QED
      BY <2>2, <3>1, <3>2, <3>3, <3>4 DEF Undecided
  <2> QED
    BY <1>3, <2>3, <2>4, <2>5, <2>6, <2>7, <2>8, <2>9, DecideSteps
<1> QED
  BY <1>1, <1>2, <1>3

-----------------------------------------------------------------------------
(* The graceful drain of a logger used by one thread: the thread does not   *)
(* log any more once it drains, the worker pool does not scale, and no      *)
(* event is dropped inside the worker, so `dropped' has one writer.        *)

Graceful ==
  /\ \A c, d \in Callers : c = d
  /\ ~LateCalls
  /\ Dynamic = {}
  /\ "refuse" \notin Verdicts /\ "discarded" \notin SinkResults

(* A worker that stops has seen both queues empty for good.                *)
StopsLast(w) ==
  /\ wpc[w] # "off"
  /\ wpc[w] = "exited" => why[w] = "stop"
  /\ why[w] = "stop" =>
       /\ stopFlag
       /\ wpc[w] \in {"drain", "drainMain", "flush", "enriching", "writing", "exited"}
       /\ wpc[w] # "drain" => prot = <<>>
       /\ wpc[w] \notin {"drain", "drainMain"} => main = <<>>

QuietInv ==
  /\ dpc # "idle" => \A c \in Callers : pc[c] = "idle"
  /\ stopFlag => dpc \notin {"idle", "stop"}
  /\ \A w \in Workers : StopsLast(w)

LEMMA InitQuiet == Graceful /\ Init => QuietInv
BY PipelineAssumption DEF Init, Graceful, QuietInv, StopsLast, Workers

LEMMA QuietAside ==
  ASSUME QuietInv, UNCHANGED <<pc, dpc, stopFlag, why, wpc, main, prot>>
  PROVE  QuietInv'
BY DEF QuietInv, StopsLast

LEMMA QuietCaller ==
  ASSUME Graceful, QuietInv, NEW c \in Callers,
         CallerStep(c) \/ \E e \in Events : Submit(c, e)
  PROVE  QuietInv'
<1>1. dpc = "idle" /\ UNCHANGED <<dpc, stopFlag, why, wpc>>
  <2>1. UNCHANGED besidesCaller
    BY DEF CallerStep, Submit, CallStart, EnqueueOk, EnqueueRetry, EnqueueGiveUp,
           ReadDropped, WriteDropped
  <2>2. CASE CallerStep(c)
    <3>1. pc[c] # "idle"
      BY <2>2 DEF CallerStep, CallStart, EnqueueOk, EnqueueRetry, EnqueueGiveUp,
         ReadDropped, WriteDropped
    <3> QED
      BY <2>1, <3>1 DEF QuietInv, besidesCaller, workerVars, drainVars
  <2>3. CASE \E e \in Events : Submit(c, e)
    BY <2>1, <2>3 DEF Graceful, Submit, besidesCaller, workerVars, drainVars
  <2> QED
    BY <2>2, <2>3
<1> QED
  BY <1>1 DEF QuietInv, StopsLast

LEMMA QuietWorker ==
  ASSUME Graceful, TypeInv, LoopInv, QuietInv, NEW w \in Workers,
         Resume(w) \/ LoopStep(w) \/ Prepare(w) \/ SinkStep(w) \/ Account(w)
  PROVE  QuietInv'
<1> USE DEF TypeInv, TypeOK, WorkerTypeOK, QuietInv, StopsLast, besidesLoop, callerVars,
            drainVars, queueVars
<1>1. CASE Resume(w)
  BY <1>1 DEF Resume
<1>2. CASE CheckStop(w)
  <2>1. StopRequested(w) => stopFlag
    BY DEF StopRequested, Graceful
  <2> QED
    BY <1>2, <2>1 DEF CheckStop
<1>3. CASE CheckFlush(w)
  <2>1. why[w] # "stop" /\ UNCHANGED <<pc, dpc, stopFlag, main, prot>>
    BY <1>3 DEF CheckFlush
  <2>2. /\ why' \in {why, [why EXCEPT ![w] = "flush"]}
        /\ wpc' \in {[wpc EXCEPT ![w] = "drain"], [wpc EXCEPT ![w] = "take"]}
    BY <1>3 DEF CheckFlush
  <2> QED
    BY <2>1, <2>2
<1>4. CASE TakeProtected(w)
  <2>1. why[w] # "stop" /\ prot # <<>> /\ UNCHANGED main
    BY <1>4 DEF TakeProtected, PopProtected
  <2>2. /\ why' \in {why, [why EXCEPT ![w] = "size"]}
        /\ wpc' \in {[wpc EXCEPT ![w] = "flush"], [wpc EXCEPT ![w] = "top"]}
        /\ UNCHANGED <<pc, dpc, stopFlag>>
    BY <1>4 DEF TakeProtected, Collect
  <2> QED
    BY <2>1, <2>2
<1>5. CASE TakeMain(w)
  <2>1. why[w] # "stop" /\ main # <<>> /\ UNCHANGED prot
    BY <1>5 DEF TakeMain, PopMain
  <2>2. /\ why' \in {why, [why EXCEPT ![w] = "size"]}
        /\ wpc' \in {[wpc EXCEPT ![w] = "flush"], [wpc EXCEPT ![w] = "top"]}
        /\ UNCHANGED <<pc, dpc, stopFlag>>
    BY <1>5 DEF TakeMain, Collect
  <2> QED
    BY <2>1, <2>2
<1>6. CASE NoProtected(w) \/ NoMain(w)
  <2>1. /\ why[w] # "stop" /\ UNCHANGED <<pc, dpc, stopFlag, why, main, prot>>
        /\ wpc' \in {[wpc EXCEPT ![w] = "takeMain"], [wpc EXCEPT ![w] = "pause"]}
    BY <1>6 DEF NoProtected, NoMain
  <2> QED
    BY <2>1
<1>7. CASE DeadlineFlush(w) \/ Sleep(w)
  BY <1>7 DEF DeadlineFlush, Sleep
<1>8. CASE DrainProtected(w)
  BY <1>8 DEF DrainProtected, PopProtected
<1>9. CASE DrainMain(w)
  BY <1>9 DEF DrainMain, PopMain
<1>10. CASE Enrich(w) \/ Prepare(w)
  <2>1. /\ wpc[w] \in {"flush", "enriching"}
        /\ wpc' \in {[wpc EXCEPT ![w] = "enriching"], [wpc EXCEPT ![w] = "writing"]}
        /\ UNCHANGED <<pc, dpc, stopFlag, why, main, prot>>
    BY <1>10 DEF Enrich, Prepare
  <2> QED
    BY <2>1
<1>11. CASE FlushNothing(w)
  BY <1>11 DEF FlushNothing, AfterFlush
<1>12. CASE SinkStep(w)
  BY <1>12 DEF SinkStep, WriteDone, workerVars
<1>13. CASE Account(w)
  BY <1>13 DEF Account, AfterFlush
<1>14. CASE ClearRequest(w) \/ SignalFlushed(w)
  BY <1>14 DEF ClearRequest, SignalFlushed
<1> QED
  BY <1>1, <1>2, <1>3, <1>4, <1>5, <1>6, <1>7, <1>8, <1>9, <1>10, <1>11, <1>12, <1>13, <1>14
     DEF LoopStep

LEMMA QuietDrain ==
  ASSUME Graceful, TypeInv, LoopInv, QuietInv, ThreadEnds \/ BeginDrain \/ DrainStep
  PROVE  QuietInv'
<1> USE DEF TypeInv, TypeOK, WorkerTypeOK, QueueTypeOK, DrainTypeOK, QuietInv, StopsLast,
            besidesDrain, drainVars, callerVars, workerVars, queueVars
<1>1. CASE ThreadEnds
  <2>1. /\ \A w \in Workers : wpc[w] = "exited" /\ wpc'[w] = "exited"
        /\ UNCHANGED <<pc, dpc, stopFlag, why, main, prot>>
    BY <1>1 DEF ThreadEnds, WorkersDone, Workers, Graceful
  <2> QED
    BY <2>1
<1>2. CASE BeginDrain
  BY <1>2 DEF BeginDrain, Graceful
<1>3. CASE RaiseStop \/ Join
  BY <1>3 DEF RaiseStop, Join
<1>4. CASE CountProtected
  BY <1>4 DEF CountProtected, PopProtected
<1>5. CASE CountMain
  BY <1>5 DEF CountMain, PopMain
<1>6. CASE ReadOrphans \/ AddOrphans \/ Report
  BY <1>6 DEF ReadOrphans, AddOrphans, Report
<1> QED
  BY <1>1, <1>2, <1>3, <1>4, <1>5, <1>6 DEF DrainStep

LEMMA QuietStep ==
  ASSUME Graceful, TypeInv, LoopInv, QuietInv, [Next]_vars
  PROVE  QuietInv'
<1>1. ASSUME \/ BeginTick \/ MonitorStep
             \/ CallFlush \/ RequestFlush \/ FlushReturns \/ FlushTimesOut
             \/ UNCHANGED vars
      PROVE  QuietInv'
  <2>1. UNCHANGED <<pc, dpc, stopFlag, why, wpc, main, prot>>
    BY <1>1 DEF BeginTick, MonitorStep, SampleProtected, EvaluateShedding, SetShedding,
       CallFlush, RequestFlush, FlushReturns, FlushTimesOut, vars, besidesFlush, besidesLoop,
       callerVars, workerVars, queueVars, drainVars
  <2> QED
    BY <2>1, QuietAside
<1>2. Dynamic = {}
  BY DEF Graceful
<1> QED
  BY <1>1, <1>2, QuietCaller, QuietWorker, QuietDrain DEF Next, Finished

(* Once the thread has ended nothing is queued or batched.                 *)
LEMMA QuietEnd ==
  ASSUME Graceful, TypeInv, LoopInv, QuietInv, loop # "up"
  PROVE  \A e : ~Queued(e) /\ ~InSomeBatch(e)
<1>1. \A w \in Workers : wpc[w] = "exited" /\ batch[w] = <<>>
  BY DEF LoopInv, LoopQuiet, EmptyHanded, QuietInv, StopsLast
<1>2. PICK w \in Workers : TRUE
  BY PipelineAssumption DEF Workers
<1>3. main = <<>> /\ prot = <<>>
  BY <1>1, <1>2 DEF QuietInv, StopsLast
<1> QED
  BY <1>1, <1>3, MembersEmpty DEF Queued, InSomeBatch

(* The counters of a graceful drain, exactly.                              *)
BooksInv ==
  /\ orphaned = 0 /\ dpc # "addOrphans"
  /\ dropped = Cardinality(Settled("discarded"))
  /\ \A e \in Events : InSomeBatch(e) => fate[e] # "discarded"
  /\ \A c \in Callers : pc[c] = "writeDropped" => seen[c] = dropped
  /\ dpc # "returned" => result = NoResult

LEMMA InitBooks == Init => BooksInv
<1> SUFFICES ASSUME Init PROVE BooksInv
  OBVIOUS
<1>1. \A e \in Events : fate[e] = "new"
  BY DEF Init
<1>2. Settled("discarded") = {} /\ Cardinality({}) = 0
  BY <1>1, FS_EmptySet DEF Settled
<1> QED
  BY <1>1, <1>2 DEF Init, BooksInv

LEMMA BatchesKept ==
  ASSUME Graceful, TypeInv, PlaceInv, Undecided, BooksInv, [Next]_vars
  PROVE  \A e \in Events : InSomeBatch(e)' => fate'[e] # "discarded"
<1> USE DEF TypeInv, TypeOK, HistoryTypeOK
<1> SUFFICES ASSUME NEW e \in Events, InSomeBatch(e)'
             PROVE  fate'[e] # "discarded"
  OBVIOUS
<1>1. CASE Aside \/ \E c \in Callers : EnqueueOk(c)
  BY <1>1 DEF Aside, EnqueueOk, BooksInv, InSomeBatch, besidesCaller, workerVars
<1>2. ASSUME NEW c \in Callers, NEW d \in Events, Submit(c, d)
      PROVE  fate'[e] # "discarded"
  BY <1>2 DEF Submit, BooksInv, InSomeBatch, besidesCaller, workerVars
<1>3. CASE (Orphans /\ (CountProtected \/ CountMain)) \/ \E c \in Callers : WriteDropped(c)
  <2>1. PICK d \in Events : /\ fate' = [fate EXCEPT ![d] = "discarded"]
                            /\ Queued(d) \/ Held(d)
                            /\ batch' = batch
    <3>1. CASE Orphans
      BY <3>1, HeadType, MembersTail DEF Orphans, PopProtected, PopMain, QueueTypeOK, Queued
    <3>2. CASE \E c \in Callers : WriteDropped(c)
      BY <3>2 DEF WriteDropped, HandHeld, Held, besidesCaller, workerVars
    <3> QED
      BY <1>3, <3>1, <3>2
  <2>2. InSomeBatch(e)
    BY <2>1 DEF InSomeBatch
  <2>3. e # d
    BY <2>1, <2>2 DEF PlaceInv, Apart
  <2> QED
    BY <2>1, <2>2, <2>3 DEF BooksInv
<1>4. ASSUME NEW w \in Workers, Takes(w)
      PROVE  fate'[e] # "discarded"
  <2>1. PICK d \in Events : /\ batch' = [batch EXCEPT ![w] = Append(batch[w], d)]
                            /\ Queued(d)
    BY <1>4, HeadType, MembersTail DEF Takes, PopProtected, PopMain, QueueTypeOK, Queued
  <2>2. fate[d] = "live" /\ fate' = fate
    BY <1>4, <2>1 DEF PlaceInv, Followed, Takes
  <2>3. \A v \in Workers : Members(batch'[v]) \subseteq Members(batch[v]) \cup {d}
    BY <2>1, MembersAppend DEF WorkerTypeOK
  <2>4. InSomeBatch(e) \/ e = d
    BY <2>3 DEF InSomeBatch
  <2> QED
    BY <2>2, <2>4 DEF BooksInv
<1>5. CASE ThreadEnds \/ \E w \in Workers : Account(w)
  <2>1. Empties
    BY <1>5, EndEmpties, AccountEmpties
  <2>2. InSomeBatch(e)
    BY <2>1, MembersEmpty DEF Empties, InSomeBatch
  <2> QED
    BY <2>1, <2>2 DEF Empties, BooksInv
<1>6. ASSUME NEW w \in Workers, SinkStep(w)
      PROVE  fate'[e] # "discarded"
  <2>1. PICK i \in DOMAIN batch[w], o \in SinkResults : WriteDone(w, i, o)
    BY <1>6 DEF SinkStep
  <2>2. fate' = [fate EXCEPT ![batch[w][i]] = o] /\ o # "discarded" /\ batch' = batch
    BY <2>1 DEF WriteDone, Graceful, workerVars
  <2> QED
    BY <2>2 DEF BooksInv, InSomeBatch
<1>7. ASSUME NEW w \in Workers, Prepare(w)
      PROVE  fate'[e] # "discarded"
  <2>1. PICK verdict \in [Members(batch[w]) -> Verdicts] :
          fate' = [d \in Events |->
                    IF d \in Members(batch[w])
                      THEN CASE verdict[d] = "keep"   -> fate[d]
                             [] verdict[d] = "filter" -> "filtered"
                             [] OTHER                 -> "discarded"
                      ELSE fate[d]]
    BY <1>7 DEF Prepare
  <2>2. InSomeBatch(e)
    BY <1>7 DEF Prepare, InSomeBatch
  <2>3. e \in Members(batch[w]) => verdict[e] \in {"keep", "filter"}
    BY <2>1, PipelineAssumption DEF Graceful
  <2>4. fate'[e] \in {fate[e], "filtered"}
    BY <2>1, <2>3
  <2> QED
    BY <2>2, <2>4 DEF BooksInv
<1> QED
  BY <1>1, <1>2, <1>3, <1>4, <1>5, <1>6, <1>7, DecideSteps

(* Only Report makes a result.                                             *)
LEMMA ResultKept ==
  ASSUME [Next]_vars, ~Report
  PROVE  result' = result /\ (dpc' = "returned" <=> dpc = "returned")
<1>1. ASSUME NEW c \in Callers, CallerStep(c) \/ \E e \in Events : Submit(c, e)
      PROVE  UNCHANGED drainVars
  BY <1>1 DEF CallerStep, Submit, CallStart, EnqueueOk, EnqueueRetry, EnqueueGiveUp,
              ReadDropped, WriteDropped, besidesCaller
<1>2. ASSUME NEW w \in Workers,
             Resume(w) \/ LoopStep(w) \/ Prepare(w) \/ SinkStep(w) \/ Account(w)
      PROVE  UNCHANGED drainVars
  BY <1>2 DEF Resume, LoopStep, CheckStop, CheckFlush, TakeProtected, TakeMain,
     NoProtected, NoMain, DeadlineFlush, Sleep, DrainProtected, DrainMain, Prepare, Enrich,
     FlushNothing, ClearRequest, SignalFlushed, SinkStep, WriteDone, Account, besidesLoop
<1>3. ASSUME \/ ThreadEnds \/ BeginTick \/ MonitorStep
             \/ \E w \in Dynamic : AddWorker(w) \/ RetireWorker(w)
             \/ CallFlush \/ RequestFlush \/ FlushReturns \/ FlushTimesOut
             \/ UNCHANGED vars
      PROVE  UNCHANGED drainVars
  BY <1>3 DEF ThreadEnds, BeginTick, MonitorStep, SampleProtected, EvaluateShedding, AddWorker,
     RetireWorker, CallFlush, RequestFlush, FlushReturns, FlushTimesOut, vars, besidesFlush,
     besidesLoop
<1>4. ASSUME BeginDrain \/ RaiseStop \/ Join \/ CountProtected \/ CountMain \/ ReadOrphans
             \/ AddOrphans
      PROVE  result' = result /\ (dpc' = "returned" <=> dpc = "returned")
  BY <1>4 DEF BeginDrain, RaiseStop, Join, CountProtected, CountMain, ReadOrphans, AddOrphans
<1> QED
  BY <1>1, <1>2, <1>3, <1>4 DEF Next, Finished, DrainStep, drainVars

BooksIInv == BooksKept /\ Undecided /\ QuietInv /\ BooksInv

(* No orphan is left for the drainer to count.                             *)
LEMMA NoOrphans ==
  ASSUME Graceful, TypeInv, LoopInv, QuietInv, CountProtected \/ CountMain
  PROVE  ~Orphans
<1>1. \A e : ~Queued(e)
  BY QuietEnd DEF LoopInv, CountsAfterJoin, CountProtected, CountMain
<1>2. (main # <<>> => Head(main) \in Members(main)) /\ (prot # <<>> => Head(prot) \in Members(prot))
  BY MembersTail DEF TypeInv, TypeOK, QueueTypeOK
<1> QED
  BY <1>1, <1>2 DEF Orphans, PopProtected, PopMain, Queued

LEMMA BooksStep ==
  ASSUME Graceful, BooksIInv, TypeInv', [Next]_vars
  PROVE  BooksInv'
<1>0. /\ TypeInv /\ LoopInv /\ PlaceInv /\ IsFiniteSet(Touched) /\ Undecided /\ QuietInv /\ BooksInv
      /\ ProcessedInv /\ SubmittedInv
  BY DEF BooksIInv, BooksKept, PipelineInv, CountInv, SubmittedInv
<1>1. \A e \in Events : InSomeBatch(e)' => fate'[e] # "discarded"
  BY <1>0, BatchesKept
<1>2. dpc' # "returned" => result' = NoResult
  BY <1>0, ResultKept DEF BooksInv, Report
<1> DEFINE D == Cardinality(Settled("discarded"))
           Rest == /\ orphaned' = 0 /\ dpc' # "addOrphans"
                   /\ dropped' = D'
                   /\ \A c \in Callers : pc'[c] = "writeDropped" => seen'[c] = dropped'
<1>b. /\ orphaned = 0 /\ dpc # "addOrphans" /\ dropped = D
      /\ \A c \in Callers : pc[c] = "writeDropped" => seen[c] = dropped
  BY <1>0 DEF BooksInv
<1> HIDE DEF D
<1>3. ASSUME CountsAside
      PROVE  Rest
  <2>1. D' = D
    BY <1>0, <1>3, AsideSettles DEF D
  <2> QED
    BY <1>3, <1>b, <2>1 DEF CountsAside, Uncounting
<1>4. ASSUME NEW c \in Callers, NEW e \in Events, Submit(c, e)
      PROVE  Rest
  <2>1. D' = D
    BY <1>0, <1>4, AsideSettles DEF D
  <2>2. UNCHANGED <<dropped, orphaned, dpc, seen>>
    BY <1>4 DEF Submit, besidesCaller, drainVars
  <2>3. \A d \in Callers : pc'[d] = "start"
    BY <1>0, <1>4 DEF Submit, Graceful, TypeInv, TypeOK, CallerTypeOK
  <2> QED
    BY <1>b, <2>1, <2>2, <2>3
<1>5. ASSUME NEW c \in Callers, ReadDropped(c)
      PROVE  Rest
  <2>1. D' = D
    BY <1>0, <1>5, AsideSettles DEF D
  <2>2. UNCHANGED <<dropped, orphaned, dpc>>
    BY <1>5 DEF ReadDropped, besidesCaller, drainVars, countVars
  <2>3. \A d \in Callers : seen'[d] = dropped
    BY <1>0, <1>5 DEF ReadDropped, Graceful, TypeInv, TypeOK, CallerTypeOK
  <2> QED
    BY <1>b, <2>1, <2>2, <2>3
<1>6. ASSUME NEW c \in Callers, WriteDropped(c)
      PROVE  Rest
  <2>1. D' = D + 1
    BY <1>0, <1>6, SettledByDrop DEF D
  <2>2. UNCHANGED <<orphaned, dpc>> /\ dropped' = seen[c] + 1 /\ pc[c] = "writeDropped"
    BY <1>6 DEF WriteDropped, besidesCaller, drainVars
  <2>3. \A d \in Callers : pc'[d] = "idle"
    BY <1>0, <1>6 DEF WriteDropped, Graceful, TypeInv, TypeOK, CallerTypeOK
  <2>4. dropped' = D'
    BY <1>b, <2>1, <2>2
  <2> QED
    BY <1>b, <2>2, <2>3, <2>4
<1>7. ASSUME NEW w \in Workers, Account(w)
      PROVE  Rest
  <2>1. D' = D + InBatch(w, "discarded")
    BY <1>0, <1>7, SettledByAccount DEF D
  <2>2. InBatch(w, "discarded") = 0
    <3>1. {i \in DOMAIN batch[w] : fate[batch[w][i]] = "discarded"} = {}
      <4>1. ASSUME NEW i \in DOMAIN batch[w] PROVE fate[batch[w][i]] # "discarded"
        <5>1. batch[w][i] \in Members(batch[w]) /\ batch[w][i] \in Events
          BY <1>0 DEF Members, TypeInv, TypeOK, WorkerTypeOK
        <5> QED
          BY <1>0, <5>1 DEF BooksInv, InSomeBatch
      <4> QED
        BY <4>1
    <3> QED
      BY <3>1, FS_EmptySet DEF InBatch
  <2>3. UNCHANGED <<orphaned, dpc, pc, seen>>
    BY <1>7 DEF Account, besidesLoop, callerVars, drainVars
  <2>4. dropped' = dropped + InBatch(w, "discarded")
    BY <1>7 DEF Account
  <2>5. dropped \in Nat
    BY <1>0 DEF TypeInv, TypeOK, CountTypeOK
  <2>6. dropped' = dropped /\ D' = dropped
    BY <1>b, <2>1, <2>2, <2>4, <2>5
  <2> QED
    BY <1>b, <2>3, <2>6
<1>8. ASSUME ThreadEnds
      PROVE  Rest
  <2>1. D' = D
    BY <1>0, <1>8, SettledByEnd DEF D, Graceful
  <2>2. UNCHANGED <<dropped, orphaned, dpc, pc, seen>>
    BY <1>8 DEF ThreadEnds, callerVars, drainVars, countVars
  <2> QED
    BY <1>b, <2>1, <2>2
<1>9. ASSUME Orphans /\ (CountProtected \/ CountMain)
      PROVE  Rest
  BY <1>0, <1>9, NoOrphans
<1>10. ASSUME ReadOrphans
      PROVE  Rest
  <2>1. D' = D
    BY <1>0, <1>10, AsideSettles DEF D
  <2>2. UNCHANGED <<dropped, orphaned, pc, seen>> /\ dpc' = "report"
    BY <1>b, <1>10 DEF ReadOrphans, besidesDrain, callerVars, countVars
  <2> QED
    BY <1>b, <2>1, <2>2
<1>11. ASSUME AddOrphans
      PROVE  Rest
  BY <1>b, <1>11 DEF AddOrphans
<1> HIDE DEF Rest
<1>12. Rest
  BY <1>0, <1>3, <1>4, <1>5, <1>6, <1>7, <1>8, <1>9, <1>10, <1>11, StepsCount DEF CountsMove
<1> QED
  BY <1>1, <1>2, <1>12 DEF Rest, D, BooksInv

LEMMA BooksInvariant ==
  ASSUME Graceful
  PROVE  Spec => []BooksIInv
<1>1. Init => BooksIInv
  BY InitType, LoopInvInit, InitPlace, InitCounts, InitUndecided, InitQuiet, InitBooks
     DEF BooksIInv, BooksKept, PipelineInv
<1>2. BooksIInv /\ [Next]_vars => BooksIInv'
  BY NextType, LoopInvNext, PlaceNext, SubmittedStep, ProcessedStep, DropsStep, UndecidedStep,
     QuietStep, BooksStep
     DEF BooksIInv, BooksKept, PipelineInv, CountInv
<1> QED
  BY <1>1, <1>2, PTL DEF Spec

-----------------------------------------------------------------------------
(* Each step of the pipeline is a step of the ledger, or none.             *)

(* The events whose fate a step changes are decided by it.                 *)
LEMMA DecideIsDecide ==
  ASSUME TypeInv, TypeInv', result' = result,
         \A e \in Events : fate'[e] # fate[e] =>
           fate[e] = "live" /\ fate'[e] \in {"written", "discarded", "filtered"}
  PROVE  [Ledger!LedgerNext]_<<fate, result>>
<1> USE DEF TypeInv, TypeOK, HistoryTypeOK
<1> DEFINE chosen == {e \in Events : fate'[e] # fate[e]}
           outcome == [e \in chosen |-> fate'[e]]
<1>1. CASE chosen = {}
  <2>1. \A e \in Events : fate'[e] = fate[e]
    BY <1>1
  <2>2. fate' = fate
    BY <2>1
  <2> QED
    BY <2>2
<1>2. CASE chosen # {}
  <2>1. chosen \subseteq Ledger!With("live") /\ chosen \in SUBSET Events
    BY DEF Ledger!With
  <2>2. outcome \in [chosen -> Ledger!Outcomes]
    BY DEF Ledger!Outcomes
  <2>3. fate' = [e \in Events |-> IF e \in chosen THEN outcome[e] ELSE fate[e]]
    OBVIOUS
  <2> HIDE DEF chosen, outcome
  <2>4. Ledger!Decide(chosen)
    BY <1>2, <2>1, <2>2, <2>3 DEF Ledger!Decide
  <2> QED
    BY <2>1, <2>4 DEF Ledger!LedgerNext
<1> QED
  BY <1>1, <1>2

LEMMA ReportCloses ==
  ASSUME Graceful, BooksIInv, Report
  PROVE  Ledger!Close
<1>0. /\ TypeInv /\ LoopInv /\ PlaceInv /\ QuietInv /\ BooksInv /\ ProcessedInv /\ SubmittedInv
  BY DEF BooksIInv, BooksKept, PipelineInv, CountInv
<1>1. /\ dpc = "report" /\ fate' = fate
      /\ result' = [submitted |-> submitted, processed |-> processed, dropped |-> dropped]
  BY DEF Report, historyVars
<1>2. result = NoResult
  BY <1>0, <1>1 DEF BooksInv
<1>3. loop # "up"
  BY <1>0, <1>1 DEF LoopInv, CountsAfterJoin
<1>4. \A e : ~Queued(e) /\ ~InSomeBatch(e)
  BY <1>0, <1>3, QuietEnd
<1>5. \A e \in Events : ~Held(e)
  BY <1>0, <1>1, PipelineAssumption DEF QuietInv, PlaceInv, Followed, Held
<1>6. Ledger!With("live") = {}
  BY <1>0, <1>4, <1>5 DEF Ledger!With, PlaceInv, Followed
<1>7. submitted = Cardinality(Events \ Ledger!With("new"))
  <2>1. Touched = Events \ Ledger!With("new")
    BY DEF Touched, Ledger!With
  <2> QED
    BY <1>0, <2>1 DEF SubmittedInv
<1>8. \A f : Settled(f) = Ledger!With(f)
  BY <1>4 DEF Settled, Ledger!With
<1>9. processed = Cardinality(Ledger!With("written"))
  BY <1>0, <1>8 DEF ProcessedInv, Graceful
<1>10. dropped = Cardinality(Ledger!With("discarded"))
  BY <1>0, <1>8 DEF BooksInv
<1>11. \A S : Ledger!Cardinality(S) = Cardinality(S)
  BY Zenon DEF Ledger!Cardinality, Cardinality
<1>12. result' = [submitted |-> Cardinality(Events \ Ledger!With("new")),
                  processed |-> Cardinality(Ledger!With("written")),
                  dropped   |-> Cardinality(Ledger!With("discarded"))]
  BY <1>1, <1>7, <1>9, <1>10, Zenon
<1> QED
  BY <1>1, <1>2, <1>6, <1>11, <1>12, Zenon DEF Ledger!Close

LEMMA StepsKeepTheBooks ==
  ASSUME Graceful, BooksIInv, TypeInv', [Next]_vars
  PROVE  [Ledger!LedgerNext]_<<fate, result>>
<1> USE DEF TypeInv, TypeOK, HistoryTypeOK
<1>0. /\ TypeInv /\ LoopInv /\ PlaceInv /\ Undecided /\ QuietInv /\ BooksInv
  BY DEF BooksIInv, BooksKept, PipelineInv
<1>1. CASE Report
  BY <1>1, ReportCloses DEF Ledger!LedgerNext
<1>2. CASE ~Report
  <2>1. result' = result
    BY <1>2, ResultKept
  <2>2. CASE \/ Aside
             \/ \E c \in Callers : EnqueueOk(c)
             \/ \E w \in Workers : Takes(w) \/ Account(w)
    <3>1. fate' = fate
      BY <2>2 DEF Aside, EnqueueOk, Takes, Account, historyVars
    <3> QED
      BY <2>1, <3>1
  <2>3. ASSUME NEW c \in Callers, NEW e \in Events, Submit(c, e)
        PROVE  [Ledger!LedgerNext]_<<fate, result>>
    <3>1. fate[e] = "new" /\ fate' = [fate EXCEPT ![e] = "live"] /\ dpc = "idle"
      BY <2>3 DEF Submit, Graceful
    <3>2. result = NoResult
      BY <1>0, <3>1 DEF BooksInv
    <3>3. Ledger!SubmitEvent(e)
      BY <2>1, <3>1, <3>2 DEF Ledger!SubmitEvent
    <3> QED
      BY <3>3 DEF Ledger!LedgerNext
  <2>4. ASSUME NEW c \in Callers, WriteDropped(c)
        PROVE  [Ledger!LedgerNext]_<<fate, result>>
    <3>1. fate' = [fate EXCEPT ![hand[c]] = "discarded"] /\ hand[c] \in Events
      BY <1>0, <2>4 DEF WriteDropped, HandHeld
    <3>2. fate[hand[c]] = "live"
      BY <1>0, <3>1 DEF PlaceInv, Followed, Held
    <3>3. \A e \in Events : fate'[e] # fate[e] =>
            fate[e] = "live" /\ fate'[e] \in {"written", "discarded", "filtered"}
      BY <3>1, <3>2
    <3> QED
      BY <1>0, <2>1, <3>3, DecideIsDecide
  <2>5. ASSUME NEW w \in Workers, Prepare(w) \/ SinkStep(w)
        PROVE  [Ledger!LedgerNext]_<<fate, result>>
    BY <1>0, <2>1, <2>5, DecidesLive, DecideIsDecide
  <2>6. CASE Orphans /\ (CountProtected \/ CountMain)
    BY <1>0, <2>6, NoOrphans
  <2>7. CASE ThreadEnds
    <3>1. \A w \in Workers : batch[w] = <<>>
      BY <1>0, <2>7 DEF ThreadEnds, WorkersDone, LoopInv, EmptyHanded, Workers, Graceful
    <3>2. \A e \in Events : ~InSomeBatch(e)
      BY <3>1, MembersEmpty DEF InSomeBatch
    <3>3. \A e \in Events : fate'[e] = fate[e]
      BY <2>7, <3>2 DEF ThreadEnds
    <3> QED
      BY <1>0, <2>1, <3>3, DecideIsDecide
  <2> QED
    BY <1>0, <2>2, <2>3, <2>4, <2>5, <2>6, <2>7, DecideSteps
<1> QED
  BY <1>1, <1>2

(* A graceful drain of a logger used by one thread implements EventLedger:  *)
(* every event is decided once and for good, and the DrainResult counts     *)
(* each of them where it belongs with nothing left pending.                *)
THEOREM GracefulDrainKeepsTheBooks ==
  ASSUME Graceful
  PROVE  Spec => KeepsTheBooks
<1>1. Init => Ledger!LedgerInit
  BY DEF Init, Ledger!LedgerInit
<1>2. BooksIInv /\ BooksIInv' /\ [Next]_vars => [Ledger!LedgerNext]_<<fate, result>>
  BY StepsKeepTheBooks DEF BooksIInv, BooksKept, PipelineInv
<1>3. [Ledger!LedgerNext]_<<fate, result>> => [Ledger!LedgerNext]_(Ledger!ledger)
  BY DEF Ledger!ledger
<1>4. Spec => []BooksIInv
  BY BooksInvariant
<1> QED
  BY <1>1, <1>2, <1>3, <1>4, PTL DEF Spec, KeepsTheBooks, Ledger!LedgerSpec

-----------------------------------------------------------------------------
(* The order of delivery.                                                  *)

(* Events of one queue that the sequence a lists in this order.            *)
Alike(e, f) == e \in Protected <=> f \in Protected

Before(a, e, f) == \E i, j \in DOMAIN a : i < j /\ a[i] = e /\ a[j] = f

Ordered(a, e, f) == Alike(e, f) => Before(a, e, f)

InOrder(a, s) == \A i, j \in DOMAIN s : i < j => Ordered(a, s[i], s[j])

Precede(a, S, T) == \A e \in S, f \in T : Ordered(a, e, f)

Waiting(w) == {batch[w][i] : i \in Unwritten(w)}

LEMMA InOrderEmpty == ASSUME NEW a PROVE InOrder(a, <<>>)
BY DEF InOrder

LEMMA InOrderAppend ==
  ASSUME NEW S, NEW a, NEW s \in Seq(S), NEW e \in S, InOrder(a, s),
         Precede(a, Members(s), {e})
  PROVE  InOrder(a, Append(s, e))
<1> DEFINE t == Append(s, e)
<1>1. /\ DOMAIN s = 1..Len(s) /\ DOMAIN t = 1..(Len(s) + 1) /\ Len(s) \in Nat
      /\ \A i \in 1..Len(s) : t[i] = s[i]
      /\ t[Len(s) + 1] = e
  BY AppendProperties
<1> HIDE DEF t
<1>2. SUFFICES ASSUME NEW i \in DOMAIN t, NEW j \in DOMAIN t, i < j
               PROVE  Ordered(a, t[i], t[j])
  BY DEF InOrder, t
<1>3. i \in 1..Len(s)
  BY <1>1, <1>2
<1>4. CASE j \in 1..Len(s)
  BY <1>1, <1>2, <1>3, <1>4 DEF InOrder
<1>5. CASE j = Len(s) + 1
  BY <1>1, <1>3, <1>5 DEF Precede, Members
<1> QED
  BY <1>1, <1>4, <1>5

LEMMA InOrderTail ==
  ASSUME NEW S, NEW a, NEW s \in Seq(S), s # <<>>, InOrder(a, s)
  PROVE  InOrder(a, Tail(s)) /\ Precede(a, {Head(s)}, Members(Tail(s)))
<1> DEFINE t == Tail(s)
           n == Len(s)
<1>1. /\ DOMAIN s = 1..n /\ DOMAIN t = 1..(n - 1) /\ n \in Nat \ {0}
      /\ Head(s) = s[1]
      /\ \A i \in 1..(n - 1) : t[i] = s[i + 1] /\ i + 1 \in 1..n
  BY HeadTailProperties, EmptySeq
<1> HIDE DEF t, n
<1>2. ASSUME NEW i \in 1..(n - 1), NEW j \in 1..(n - 1), i < j
      PROVE  Ordered(a, t[i], t[j])
  <2>1. i + 1 < j + 1
    BY <1>2
  <2> QED
    BY <1>1, <2>1 DEF InOrder
<1>3. ASSUME NEW j \in 1..(n - 1)
      PROVE  Ordered(a, s[1], t[j])
  <2>1. 1 \in 1..n /\ 1 < j + 1
    BY <1>1
  <2> QED
    BY <1>1, <2>1 DEF InOrder
<1> QED
  BY <1>1, <1>2, <1>3 DEF InOrder, Precede, Members, t

(* A sequence that grows keeps its order, and its last is last.            *)
LEMMA OrderGrows ==
  ASSUME NEW S, NEW a \in Seq(S), NEW x \in S
  PROVE  /\ \A e, f : Ordered(a, e, f) => Ordered(Append(a, x), e, f)
         /\ \A e \in Members(a) : Ordered(Append(a, x), e, x)
<1>1. /\ DOMAIN a = 1..Len(a) /\ DOMAIN Append(a, x) = 1..(Len(a) + 1) /\ Len(a) \in Nat
      /\ \A i \in 1..Len(a) : Append(a, x)[i] = a[i] /\ i \in 1..(Len(a) + 1) /\ i < Len(a) + 1
      /\ Append(a, x)[Len(a) + 1] = x /\ Len(a) + 1 \in 1..(Len(a) + 1)
  BY AppendProperties
<1>2. \A e, f : Before(a, e, f) => Before(Append(a, x), e, f)
  BY <1>1 DEF Before
<1>3. \A e \in Members(a) : Before(Append(a, x), e, x)
  BY <1>1 DEF Before, Members
<1> QED
  BY <1>2, <1>3 DEF Ordered

LEMMA InOrderGrows ==
  ASSUME NEW S, NEW a \in Seq(S), NEW x \in S
  PROVE  /\ \A s : InOrder(a, s) => InOrder(Append(a, x), s)
         /\ \A P, Q : Precede(a, P, Q) => Precede(Append(a, x), P, Q)
BY OrderGrows DEF InOrder, Precede

(* Each queue accepts an event once, and what it accepted goes the way of   *)
(* its level.                                                              *)
Accepted ==
  /\ Once(accepted)
  /\ \A e \in Events : fate[e] = "new" \/ Held(e) => e \notin Members(accepted)
  /\ Members(main) \subseteq Members(accepted) \ Protected
  /\ Members(prot) \subseteq Members(accepted) \cap Protected
  /\ Members(written) \subseteq Members(accepted)
  /\ \A w \in Workers : Members(batch[w]) \subseteq Members(accepted)

(* Written events come before those a worker still has to write, and these  *)
(* before those that are queued.                                           *)
Aligned ==
  /\ InOrder(accepted, main) /\ InOrder(accepted, prot) /\ InOrder(accepted, written)
  /\ Precede(accepted, Members(written), Members(main) \cup Members(prot))
  /\ \A w \in Workers :
       /\ InOrder(accepted, batch[w])
       /\ Precede(accepted, Members(written), Waiting(w))
       /\ Precede(accepted, Members(batch[w]), Members(main) \cup Members(prot))

OrderInv == Accepted /\ Aligned

(* One worker, one write at a time.                                        *)
Serial == (\A v, w \in Workers : v = w) /\ SinkConcurrency = 1

LEMMA InitOrder == Init => OrderInv
<1> SUFFICES ASSUME Init PROVE OrderInv
  OBVIOUS
<1>1. /\ main = <<>> /\ prot = <<>> /\ written = <<>> /\ accepted = <<>>
      /\ \A w \in Workers : batch[w] = <<>>
  BY DEF Init, QueueInit
<1>2. Accepted
  BY <1>1, MembersEmpty DEF Accepted
<1>3. \A S : Precede(accepted, {}, S)
  BY DEF Precede
<1> QED
  BY <1>1, <1>2, <1>3, InOrderEmpty, MembersEmpty DEF OrderInv, Aligned

(* A queue that stays, or loses its first event.                           *)
ShrinksTo(s, t) == t = s \/ (s # <<>> /\ t = Tail(s))

LEMMA ShrinkOrder ==
  ASSUME NEW S, NEW a, NEW s \in Seq(S), NEW t, ShrinksTo(s, t), InOrder(a, s)
  PROVE  InOrder(a, t) /\ Members(t) \subseteq Members(s)
<1>1. CASE t = s
  BY <1>1
<1>2. CASE s # <<>> /\ t = Tail(s)
  <2>1. InOrder(a, Tail(s))
    BY <1>2, InOrderTail
  <2>2. Members(s) = Members(Tail(s)) \cup {Head(s)}
    BY <1>2, MembersTail
  <2> QED
    BY <1>2, <2>1, <2>2
<1> QED
  BY <1>1, <1>2 DEF ShrinksTo

LEMMA OrderShrinks ==
  ASSUME TypeInv, OrderInv,
         UNCHANGED <<accepted, written>>,
         ShrinksTo(main, main'), ShrinksTo(prot, prot'),
         \A w \in Workers : batch'[w] = batch[w] \/ batch'[w] = <<>>,
         \A w \in Workers : Waiting(w)' \subseteq Waiting(w),
         \A e \in Events : (fate'[e] = "new" \/ Held(e)') => fate[e] = "new" \/ Held(e)
  PROVE  OrderInv'
<1>1. /\ InOrder(accepted, main') /\ Members(main') \subseteq Members(main)
      /\ InOrder(accepted, prot') /\ Members(prot') \subseteq Members(prot)
  BY ShrinkOrder DEF TypeInv, TypeOK, QueueTypeOK, OrderInv, Aligned
<1>2. \A w \in Workers : /\ Members(batch'[w]) \subseteq Members(batch[w])
                         /\ InOrder(accepted, batch'[w])
  BY InOrderEmpty, MembersEmpty DEF OrderInv, Aligned
<1>3. Accepted'
  BY <1>1, <1>2 DEF OrderInv, Accepted
<1>4. \A P, Q, R, T : Precede(accepted, P, Q) /\ R \subseteq P /\ T \subseteq Q
                        => Precede(accepted, R, T)
  BY DEF Precede
<1>5. Members(main') \cup Members(prot') \subseteq Members(main) \cup Members(prot)
  BY <1>1
<1>6. Aligned'
  <2>1. /\ InOrder(accepted', main') /\ InOrder(accepted', prot') /\ InOrder(accepted', written')
        /\ Precede(accepted', Members(written'), Members(main') \cup Members(prot'))
    BY <1>1, <1>4, <1>5 DEF OrderInv, Aligned
  <2>2. ASSUME NEW w \in Workers
        PROVE  /\ InOrder(accepted', batch'[w])
               /\ Precede(accepted', Members(written'), Waiting(w)')
               /\ Precede(accepted', Members(batch'[w]), Members(main') \cup Members(prot'))
    <3>1. Precede(accepted, Members(written), Waiting(w)')
      BY <1>4 DEF OrderInv, Aligned
    <3>2. Precede(accepted, Members(batch'[w]), Members(main') \cup Members(prot'))
      BY <1>2, <1>4, <1>5 DEF OrderInv, Aligned
    <3> QED
      BY <1>2, <3>1, <3>2
  <2> QED
    BY <2>1, <2>2 DEF Aligned
<1> QED
  BY <1>3, <1>6 DEF OrderInv

(* Only callers and writes touch the history of the queues and the sink.   *)
LEMMA HistoryKept ==
  ASSUME [Next]_vars
  PROVE  /\ (\A c \in Callers : ~EnqueueOk(c)) => accepted' = accepted
         /\ (\A w \in Workers : ~SinkStep(w)) => written' = written
<1>1. ASSUME NEW c \in Callers, CallerStep(c) \/ \E e \in Events : Submit(c, e)
      PROVE  written' = written /\ (~EnqueueOk(c) => accepted' = accepted)
  BY <1>1 DEF CallerStep, Submit, CallStart, EnqueueOk, EnqueueRetry, EnqueueGiveUp,
              ReadDropped, WriteDropped, historyVars
<1>2. ASSUME NEW w \in Workers,
             Resume(w) \/ LoopStep(w) \/ Prepare(w) \/ SinkStep(w) \/ Account(w)
      PROVE  accepted' = accepted /\ (~SinkStep(w) => written' = written)
  <2>1. CASE SinkStep(w)
    BY <2>1 DEF SinkStep, WriteDone
  <2>2. CASE Resume(w) \/ LoopStep(w) \/ Prepare(w) \/ Account(w)
    BY <2>2 DEF Resume, LoopStep, CheckStop, CheckFlush, TakeProtected, TakeMain,
       NoProtected, NoMain, DeadlineFlush, Sleep, DrainProtected, DrainMain, Prepare, Enrich,
       FlushNothing, ClearRequest, SignalFlushed, Account, historyVars
  <2> QED
    BY <1>2, <2>1, <2>2
<1>3. ASSUME \/ ThreadEnds \/ BeginTick \/ MonitorStep
             \/ \E w \in Dynamic : AddWorker(w) \/ RetireWorker(w)
             \/ CallFlush \/ RequestFlush \/ FlushReturns \/ FlushTimesOut
             \/ UNCHANGED vars
      PROVE  UNCHANGED <<accepted, written>>
  BY <1>3 DEF ThreadEnds, BeginTick, MonitorStep, SampleProtected, EvaluateShedding, AddWorker,
     RetireWorker, CallFlush, RequestFlush, FlushReturns, FlushTimesOut, vars, besidesFlush,
     historyVars
<1>4. ASSUME BeginDrain \/ DrainStep
      PROVE  UNCHANGED <<accepted, written>>
  BY <1>4 DEF BeginDrain, DrainStep, RaiseStop, Join, CountProtected, CountMain, ReadOrphans,
     AddOrphans, Report, historyVars
<1> QED
  BY <1>1, <1>2, <1>3, <1>4 DEF Next, Finished

LEMMA OrderEnqueue ==
  ASSUME TypeInv, PlaceInv, OrderInv, NEW c \in Callers, EnqueueOk(c)
  PROVE  OrderInv'
<1> USE DEF TypeInv, TypeOK, QueueTypeOK, HistoryTypeOK, CallerTypeOK
<1> DEFINE e == hand[c]
<1>1. /\ hand' = [hand EXCEPT ![c] = NoOne] /\ Put(e) /\ pc[c] = "put"
      /\ accepted' = Append(accepted, e)
      /\ UNCHANGED <<batch, fate, written>>
  BY DEF EnqueueOk, besidesCaller, workerVars
<1>2. e \in Events /\ Held(e) /\ fate[e] = "live"
  BY <1>1 DEF HandHeld, Held, PlaceInv, Followed
<1>3. e \notin Members(accepted) /\ ~Queued(e)
  BY <1>2 DEF OrderInv, Accepted, PlaceInv, Apart
<1>4. \A f \in Events : Held(f)' <=> (Held(f) /\ f # e)
  BY <1>1, <1>2, HandEmptied
<1> HIDE DEF e
<1>5. Members(accepted') = Members(accepted) \cup {e} /\ Once(accepted')
  BY <1>1, <1>2, <1>3, MembersAppend DEF OrderInv, Accepted
<1>6. /\ \A s : InOrder(accepted, s) => InOrder(accepted', s)
      /\ \A P, Q : Precede(accepted, P, Q) => Precede(accepted', P, Q)
      /\ \A f \in Members(accepted) : Ordered(accepted', f, e)
  BY <1>1, <1>2, InOrderGrows, OrderGrows
<1>7. \A P : P \subseteq Members(accepted) => Precede(accepted', P, {e})
  BY <1>6 DEF Precede
<1>8. \A P, Q : Precede(accepted', P, Q) /\ P \subseteq Members(accepted)
                  => Precede(accepted', P, Q \cup {e})
  BY <1>6 DEF Precede
<1>9. /\ InOrder(accepted', main') /\ InOrder(accepted', prot')
      /\ \/ /\ e \in Protected
            /\ Members(prot') = Members(prot) \cup {e} /\ main' = main
         \/ /\ e \notin Protected
            /\ Members(main') = Members(main) \cup {e} /\ prot' = prot
  <2>1. InOrder(accepted', main) /\ InOrder(accepted', prot)
    BY <1>6 DEF OrderInv, Aligned
  <2>2. /\ Precede(accepted', Members(main), {e}) /\ Precede(accepted', Members(prot), {e})
    BY <1>7 DEF OrderInv, Accepted
  <2>3. CASE e \in Protected
    <3>1. prot' = Append(prot, e) /\ main' = main
      BY <1>1, <2>3 DEF Put
    <3>2. InOrder(accepted', prot') /\ Members(prot') = Members(prot) \cup {e}
      BY <1>2, <2>1, <2>2, <3>1, InOrderAppend, MembersAppend
    <3> QED
      BY <2>1, <2>3, <3>1, <3>2
  <2>4. CASE e \notin Protected
    <3>1. main' = Append(main, e) /\ prot' = prot
      BY <1>1, <2>4 DEF Put
    <3>2. InOrder(accepted', main') /\ Members(main') = Members(main) \cup {e}
      BY <1>2, <2>1, <2>2, <3>1, InOrderAppend, MembersAppend
    <3> QED
      BY <2>1, <2>4, <3>1, <3>2
  <2> QED
    BY <2>3, <2>4
<1>10. Accepted'
  BY <1>1, <1>2, <1>4, <1>5, <1>9 DEF OrderInv, Accepted
<1>11. Members(main') \cup Members(prot') = Members(main) \cup Members(prot) \cup {e}
  BY <1>9
<1>12. Precede(accepted', Members(written'), Members(main') \cup Members(prot'))
  BY <1>1, <1>6, <1>8, <1>11 DEF OrderInv, Accepted, Aligned
<1>13. ASSUME NEW w \in Workers
       PROVE  /\ InOrder(accepted', batch'[w])
              /\ Precede(accepted', Members(written'), Waiting(w)')
              /\ Precede(accepted', Members(batch'[w]), Members(main') \cup Members(prot'))
  <2>1. Waiting(w)' = Waiting(w)
    BY <1>1 DEF Waiting, Unwritten
  <2>2. InOrder(accepted', batch'[w]) /\ Precede(accepted', Members(written'), Waiting(w)')
    BY <1>1, <1>6, <2>1 DEF OrderInv, Aligned
  <2>3. Precede(accepted', Members(batch'[w]), Members(main') \cup Members(prot'))
    BY <1>1, <1>6, <1>8, <1>11 DEF OrderInv, Accepted, Aligned
  <2> QED
    BY <2>2, <2>3
<1>14. Aligned'
  BY <1>1, <1>6, <1>9, <1>12, <1>13 DEF OrderInv, Aligned
<1> QED
  BY <1>10, <1>14 DEF OrderInv

LEMMA OrderTakes ==
  ASSUME Serial, TypeInv, PlaceInv, OrderInv, NEW w \in Workers, Takes(w),
         UNCHANGED <<accepted, written>>
  PROVE  OrderInv'
<1> USE DEF TypeInv, TypeOK, QueueTypeOK, WorkerTypeOK
<1>1. PICK e \in Events :
        /\ batch' = [batch EXCEPT ![w] = Append(batch[w], e)]
        /\ \/ prot # <<>> /\ e = Head(prot) /\ prot' = Tail(prot) /\ main' = main
           \/ main # <<>> /\ e = Head(main) /\ main' = Tail(main) /\ prot' = prot
  BY HeadType DEF Takes, PopProtected, PopMain
<1>2. /\ batch'[w] = Append(batch[w], e) /\ \A v \in Workers : v = w
      /\ UNCHANGED <<hand, fate>>
  BY <1>1 DEF Serial, Takes
<1>3. Queued(e) /\ fate[e] = "live"
  BY <1>1, MembersTail DEF Queued, PlaceInv, Followed
<1>4. /\ InOrder(accepted, main') /\ Members(main') \subseteq Members(main)
      /\ InOrder(accepted, prot') /\ Members(prot') \subseteq Members(prot)
  BY <1>1, ShrinkOrder DEF OrderInv, Aligned, ShrinksTo
<1>5. Precede(accepted, {e}, Members(main') \cup Members(prot'))
  <2>1. \A f \in Members(main), g \in Members(prot) : ~Alike(f, g) /\ ~Alike(g, f)
    BY DEF OrderInv, Accepted, Alike
  <2>2. CASE prot # <<>> /\ e = Head(prot) /\ prot' = Tail(prot) /\ main' = main
    <3>1. Precede(accepted, {e}, Members(prot')) /\ e \in Members(prot)
      BY <2>2, InOrderTail, MembersTail DEF OrderInv, Aligned
    <3> QED
      BY <2>1, <2>2, <3>1 DEF Precede, Ordered
  <2>3. CASE main # <<>> /\ e = Head(main) /\ main' = Tail(main) /\ prot' = prot
    <3>1. Precede(accepted, {e}, Members(main')) /\ e \in Members(main)
      BY <2>3, InOrderTail, MembersTail DEF OrderInv, Aligned
    <3> QED
      BY <2>1, <2>3, <3>1 DEF Precede, Ordered
  <2> QED
    BY <1>1, <2>2, <2>3
<1>6. Members(batch'[w]) = Members(batch[w]) \cup {e}
  BY <1>2, MembersAppend
<1>7. InOrder(accepted, batch'[w])
  <2>1. Precede(accepted, Members(batch[w]), {e})
    BY <1>3 DEF OrderInv, Aligned, Queued, Precede
  <2> QED
    BY <1>2, <2>1, InOrderAppend DEF OrderInv, Aligned
<1>8. Waiting(w)' \subseteq Waiting(w) \cup {e}
  <2>1. /\ DOMAIN batch[w] = 1..Len(batch[w]) /\ Len(batch[w]) \in Nat
        /\ DOMAIN batch'[w] = 1..(Len(batch[w]) + 1)
        /\ \A i \in 1..Len(batch[w]) : batch'[w][i] = batch[w][i]
        /\ batch'[w][Len(batch[w]) + 1] = e
    BY <1>2, AppendProperties
  <2>2. \A i \in 1..(Len(batch[w]) + 1) : i \in 1..Len(batch[w]) \/ i = Len(batch[w]) + 1
    BY <2>1
  <2> QED
    BY <1>2, <2>1, <2>2 DEF Waiting, Unwritten
<1>9. Members(main') \cup Members(prot') \subseteq Members(main) \cup Members(prot)
  BY <1>4
<1>10. Accepted'
  <2>1. \A f : Held(f)' <=> Held(f)
    BY <1>2 DEF Held
  <2>2. e \in Members(accepted)
    BY <1>3 DEF OrderInv, Accepted, Queued
  <2>3. \A v \in Workers : Members(batch'[v]) \subseteq Members(accepted)
    <3>1. Members(batch[w]) \subseteq Members(accepted)
      BY DEF OrderInv, Accepted
    <3>2. Members(batch'[w]) \subseteq Members(accepted)
      BY <1>6, <2>2, <3>1
    <3> QED
      BY <1>2, <3>2
  <2>4. /\ Members(main') \subseteq Members(accepted) \ Protected
        /\ Members(prot') \subseteq Members(accepted) \cap Protected
    BY <1>4 DEF OrderInv, Accepted
  <2> QED
    BY <1>2, <2>1, <2>3, <2>4 DEF OrderInv, Accepted
<1>11. Precede(accepted, Members(written), Members(main') \cup Members(prot'))
  BY <1>9 DEF OrderInv, Aligned, Precede
<1>12. Precede(accepted, Members(batch'[w]), Members(main') \cup Members(prot'))
  <2>1. Precede(accepted, Members(batch[w]), Members(main) \cup Members(prot))
    BY DEF OrderInv, Aligned
  <2> QED
    BY <1>5, <1>6, <1>9, <2>1 DEF Precede
<1>13. Precede(accepted, Members(written), Waiting(w)')
  <2>1. /\ Precede(accepted, Members(written), Waiting(w))
        /\ Precede(accepted, Members(written), Members(main) \cup Members(prot))
    BY DEF OrderInv, Aligned
  <2> QED
    BY <1>3, <1>8, <2>1 DEF Precede, Queued
<1>14. Aligned'
  BY <1>2, <1>4, <1>7, <1>11, <1>12, <1>13 DEF OrderInv, Aligned
<1> QED
  BY <1>10, <1>14 DEF OrderInv

LEMMA OrderWrites ==
  ASSUME Serial, TypeInv, PlaceInv, OrderInv, NEW w \in Workers, SinkStep(w),
         accepted' = accepted
  PROVE  OrderInv'
<1> USE DEF TypeInv, TypeOK, QueueTypeOK, WorkerTypeOK, HistoryTypeOK
<1>1. PICK i \in DOMAIN batch[w], o \in SinkResults : WriteDone(w, i, o)
  BY DEF SinkStep
<1> DEFINE e == batch[w][i]
<1>2. /\ fate' = [fate EXCEPT ![e] = o] /\ o \in {"written", "discarded"}
      /\ written' = written \/ written' = Append(written, e)
      /\ UNCHANGED <<main, prot, hand, batch>> /\ i \in InFlight(w)
  BY <1>1, PipelineAssumption DEF WriteDone, besidesLoop, callerVars, queueVars, workerVars
<1>3. \A v \in Workers : v = w
  BY DEF Serial
<1>4. DOMAIN batch[w] = 1..Len(batch[w]) /\ Len(batch[w]) \in Nat /\ e \in Events
  OBVIOUS
(* With one write at a time the event written is the first of the batch     *)
(* that is not.                                                            *)
<1>5. i \in Unwritten(w) /\ \A j \in Unwritten(w) : i <= j
  <2> DEFINE U == {j \in Unwritten(w) : j < i}
  <2>1. i \in Unwritten(w) /\ Cardinality(U) < 1
    BY <1>2 DEF InFlight, Serial
  <2>2. IsFiniteSet(U)
    <3>1. U \subseteq 1..Len(batch[w]) /\ IsFiniteSet(1..Len(batch[w]))
      BY <1>4, FS_Interval DEF Unwritten
    <3> QED
      BY <3>1, FS_Subset
  <2>3. Cardinality(U) = 0
    BY <2>1, <2>2, FS_CardinalityType
  <2>4. U = {}
    BY <2>2, <2>3, FS_EmptySet
  <2>5. \A j \in Unwritten(w) : ~(j < i)
    BY <2>4
  <2>6. Unwritten(w) \subseteq 1..Len(batch[w])
    BY <1>4 DEF Unwritten
  <2> QED
    BY <1>4, <2>1, <2>5, <2>6
<1>6. e \in Members(batch[w]) /\ e \in Waiting(w)
  BY <1>5 DEF Members, Waiting
<1>7. Waiting(w)' \subseteq Waiting(w) /\ Precede(accepted, {e}, Waiting(w)')
  <2>1. ASSUME NEW j \in DOMAIN batch[w], fate'[batch[w][j]] = "live"
        PROVE  j \in Unwritten(w) /\ j # i
    BY <1>2, <1>4, <2>1 DEF Unwritten
  <2>2. \A j \in Unwritten(w) : j # i => i < j /\ j \in DOMAIN batch[w]
    BY <1>4, <1>5 DEF Unwritten
  <2>3. InOrder(accepted, batch[w])
    BY DEF OrderInv, Aligned
  <2>4. \A j \in DOMAIN batch[w] :
          fate'[batch[w][j]] = "live" => Ordered(accepted, e, batch[w][j])
    BY <2>1, <2>2, <2>3 DEF InOrder
  <2> QED
    BY <1>2, <2>1, <2>4 DEF Waiting, Unwritten, Precede
<1>8. Members(written') \subseteq Members(written) \cup {e} /\ InOrder(accepted, written')
  <2>1. Precede(accepted, Members(written), {e}) /\ InOrder(accepted, written)
    BY <1>6 DEF OrderInv, Aligned, Precede
  <2>2. CASE written' = written
    BY <2>1, <2>2
  <2>3. CASE written' = Append(written, e)
    BY <1>4, <2>1, <2>3, InOrderAppend, MembersAppend
  <2> QED
    BY <1>2, <2>2, <2>3
<1>9. Accepted'
  <2>1. e \in Members(accepted)
    BY <1>6 DEF OrderInv, Accepted
  <2>2. Members(written') \subseteq Members(accepted)
    BY <1>8, <2>1 DEF OrderInv, Accepted
  <2>3. \A f \in Events : fate'[f] = "new" \/ Held(f)' => fate[f] = "new" \/ Held(f)
    BY <1>2 DEF Held
  <2> QED
    BY <1>2, <2>2, <2>3 DEF OrderInv, Accepted
<1> HIDE DEF e
<1>10. Precede(accepted, Members(written'), Members(main) \cup Members(prot))
  <2>1. /\ Precede(accepted, Members(written), Members(main) \cup Members(prot))
        /\ Precede(accepted, Members(batch[w]), Members(main) \cup Members(prot))
    BY DEF OrderInv, Aligned
  <2> QED
    BY <1>6, <1>8, <2>1 DEF Precede
<1>11. Precede(accepted, Members(written'), Waiting(w)')
  <2>1. Precede(accepted, Members(written), Waiting(w))
    BY DEF OrderInv, Aligned
  <2> QED
    BY <1>7, <1>8, <2>1 DEF Precede
<1>12. Aligned'
  BY <1>2, <1>3, <1>8, <1>10, <1>11 DEF OrderInv, Aligned
<1> QED
  BY <1>9, <1>12 DEF OrderInv

(* The other steps add to no sequence and put no event back.               *)
LEMMA OrderAside ==
  ASSUME TypeInv, PlaceInv, OrderInv, Undecided, UNCHANGED <<accepted, written>>,
         \/ Aside
         \/ \E c \in Callers : WriteDropped(c) \/ \E e \in Events : Submit(c, e)
         \/ \E w \in Workers : Account(w) \/ Prepare(w)
         \/ Orphans \/ ThreadEnds
  PROVE  OrderInv'
<1> USE DEF TypeInv, TypeOK, QueueTypeOK, WorkerTypeOK, HistoryTypeOK, CallerTypeOK
<1> DEFINE Fresh == \A e \in Events : fate'[e] = "new" \/ Held(e)' => fate[e] = "new" \/ Held(e)
           Stays == \A e \in Events : fate'[e] = "live" =>
                      fate[e] = "live" \/ (fate[e] = "new" /\ ~InSomeBatch(e))
           Shrinks == /\ ShrinksTo(main, main') /\ ShrinksTo(prot, prot')
                      /\ \A w \in Workers : batch'[w] = batch[w] \/ batch'[w] = <<>>
<1>1. CASE Aside
  BY <1>1, OrderShrinks DEF Aside, ShrinksTo, Waiting, Unwritten, Held
<1>2. ASSUME NEW c \in Callers, WriteDropped(c)
      PROVE  Fresh /\ Stays /\ Shrinks
  <2>1. /\ UNCHANGED <<main, prot, batch>> /\ fate' = [fate EXCEPT ![hand[c]] = "discarded"]
        /\ hand' = [hand EXCEPT ![c] = NoOne] /\ hand[c] \in Events
    BY <1>2 DEF WriteDropped, HandHeld, besidesCaller, workerVars, queueVars
  <2>2. \A f \in Events : Held(f)' => Held(f)
    BY <2>1, HandEmptied
  <2> QED
    BY <2>1, <2>2 DEF ShrinksTo
<1>3. ASSUME NEW c \in Callers, NEW e \in Events, Submit(c, e)
      PROVE  Fresh /\ Stays /\ Shrinks
  <2>1. /\ UNCHANGED <<main, prot, batch>> /\ fate' = [fate EXCEPT ![e] = "live"]
        /\ hand' = [hand EXCEPT ![c] = e] /\ fate[e] = "new"
    BY <1>3 DEF Submit, besidesCaller, workerVars, queueVars
  <2>2. \A d \in Callers : hand'[d] = hand[d] \/ hand'[d] = e
    BY <2>1
  <2>3. \A f \in Events : Held(f)' => Held(f) \/ f = e
    BY <2>2 DEF Held
  <2>4. ~InSomeBatch(e)
    BY <2>1 DEF PlaceInv, Followed
  <2> QED
    BY <2>1, <2>3, <2>4 DEF ShrinksTo
<1>4. ASSUME NEW w \in Workers, Prepare(w)
      PROVE  Fresh /\ Stays /\ Shrinks
  <2>1. UNCHANGED <<main, prot, batch, hand>>
    BY <1>4 DEF Prepare, besidesLoop, callerVars, queueVars
  <2>2. \A e \in Events : fate'[e] # fate[e] => fate'[e] \in {"written", "discarded", "filtered"}
    BY <1>4, DecidesLive
  <2> QED
    BY <2>1, <2>2 DEF ShrinksTo, Held
<1>5. ASSUME ThreadEnds \/ \E w \in Workers : Account(w)
      PROVE  Fresh /\ Stays /\ Shrinks
  <2>1. Empties
    BY <1>5, EndEmpties, AccountEmpties
  <2> QED
    BY <2>1 DEF Empties, ShrinksTo, Held
<1>6. ASSUME Orphans
      PROVE  Fresh /\ Stays /\ Shrinks
  <2>1. /\ ShrinksTo(main, main') /\ ShrinksTo(prot, prot')
        /\ UNCHANGED <<hand, batch>>
        /\ \E e \in Events : fate' = [fate EXCEPT ![e] = "discarded"]
    BY <1>6, HeadType DEF Orphans, PopProtected, PopMain, ShrinksTo
  <2> QED
    BY <2>1 DEF Held
<1>7. ASSUME Fresh, Stays, Shrinks
      PROVE  OrderInv'
  <2>1. ASSUME NEW w \in Workers
        PROVE  Waiting(w)' \subseteq Waiting(w)
    <3>1. CASE batch'[w] = <<>>
      BY <3>1 DEF Waiting, Unwritten
    <3>2. CASE batch'[w] = batch[w]
      <4>1. \A j \in DOMAIN batch[w] : batch[w][j] \in Events /\ InSomeBatch(batch[w][j])
        BY DEF InSomeBatch, Members
      <4> QED
        BY <1>7, <3>2, <4>1 DEF Waiting, Unwritten
    <3> QED
      BY <1>7, <3>1, <3>2
  <2> QED
    BY <1>7, <2>1, OrderShrinks
<1> HIDE DEF Fresh, Stays, Shrinks
<1> QED
  BY <1>1, <1>2, <1>3, <1>4, <1>5, <1>6, <1>7

LEMMA OrderStep ==
  ASSUME Serial, TypeInv, PlaceInv, OrderInv, Undecided, [Next]_vars
  PROVE  OrderInv'
<1>1. ASSUME NEW c \in Callers, EnqueueOk(c)
      PROVE  OrderInv'
  BY <1>1, OrderEnqueue
<1>2. ASSUME NEW w \in Workers, SinkStep(w)
      PROVE  OrderInv'
  <2>1. accepted' = accepted
    BY <1>2 DEF SinkStep, WriteDone
  <2> QED
    BY <1>2, <2>1, OrderWrites
<1>3. ASSUME \A c \in Callers : ~EnqueueOk(c), \A w \in Workers : ~SinkStep(w)
      PROVE  OrderInv'
  <2>1. UNCHANGED <<accepted, written>>
    BY <1>3, HistoryKept
  <2> QED
    BY <1>3, <2>1, OrderTakes, OrderAside, DecideSteps
<1> QED
  BY <1>1, <1>2, <1>3

OrderIInv == PipelineInv /\ Undecided /\ OrderInv

(* One worker that writes one event at a time delivers the events of each   *)
(* queue in the order the queue accepted them, whatever callers, flush,     *)
(* shedding and drain interleave.                                          *)
THEOREM SerialDeliveryInOrder ==
  ASSUME Serial
  PROVE  Spec => []DeliveryOrder
<1>1. Init => OrderIInv
  BY InitType, LoopInvInit, InitPlace, InitUndecided, InitOrder DEF OrderIInv, PipelineInv
<1>2. OrderIInv /\ [Next]_vars => OrderIInv'
  BY NextType, LoopInvNext, PlaceNext, UndecidedStep, OrderStep DEF OrderIInv, PipelineInv
<1>3. ASSUME OrderIInv
      PROVE  DeliveryOrder
  <2>1. TypeInv /\ Once(accepted) /\ InOrder(accepted, written)
    BY <1>3 DEF OrderIInv, PipelineInv, OrderInv, Accepted, Aligned
  <2>2. \A k \in DOMAIN accepted : Position(accepted, accepted[k]) = k
    BY <2>1 DEF Position, Once
  <2>3. \A e, f : Before(accepted, e, f) => Position(accepted, e) < Position(accepted, f)
    BY <2>2 DEF Before
  <2> QED
    BY <2>1, <2>3 DEF DeliveryOrder, InOrder, Ordered, Alike
<1> QED
  BY <1>1, <1>2, <1>3, PTL DEF Spec

-----------------------------------------------------------------------------
(* What a flush covers.                                                    *)

(* Which way events go: none is taken back from its queue, its batch or its *)
(* fate.                                                                   *)
Onward(e) ==
  /\ Held(e)' => Held(e) \/ fate[e] = "new"
  /\ e \in Members(main') => e \in Members(main) \/ Held(e)
  /\ e \in Members(prot') => e \in Members(prot) \/ Held(e)
  /\ fate[e] # "new" => fate'[e] # "new"
  /\ Decided(e) => Decided(e)'

LEMMA EventsOnward ==
  ASSUME TypeInv, PlaceInv, Undecided, [Next]_vars
  PROVE  \A e \in Events : Onward(e)
<1> USE DEF TypeInv, TypeOK, QueueTypeOK, HistoryTypeOK, CallerTypeOK
<1>1. CASE Aside
  BY <1>1 DEF Aside, Onward, Held, Decided
<1>2. ASSUME NEW c \in Callers, WriteDropped(c)
      PROVE  \A e \in Events : Onward(e)
  <2>1. /\ UNCHANGED <<main, prot>> /\ fate' = [fate EXCEPT ![hand[c]] = "discarded"]
        /\ hand' = [hand EXCEPT ![c] = NoOne] /\ hand[c] \in Events
    BY <1>2 DEF WriteDropped, HandHeld, queueVars
  <2>2. \A f \in Events : Held(f)' => Held(f)
    BY <2>1, HandEmptied
  <2> QED
    BY <2>1, <2>2 DEF Onward, Decided
<1>3. ASSUME NEW c \in Callers, EnqueueOk(c)
      PROVE  \A e \in Events : Onward(e)
  <2>1. /\ Put(hand[c]) /\ fate' = fate
        /\ hand' = [hand EXCEPT ![c] = NoOne] /\ hand[c] \in Events
    BY <1>3 DEF EnqueueOk, HandHeld
  <2>2. \A f \in Events : Held(f)' => Held(f)
    BY <2>1, HandEmptied
  <2>3. Held(hand[c])
    BY DEF Held
  <2>4. ~Queued(hand[c])
    BY <2>1, <2>3 DEF PlaceInv, Apart
  <2>5. \/ Members(prot') = Members(prot) \cup {hand[c]} /\ Members(main') = Members(main)
        \/ Members(main') = Members(main) \cup {hand[c]} /\ Members(prot') = Members(prot)
    BY <2>1, <2>4, PutFacts
  <2> QED
    BY <2>1, <2>2, <2>3, <2>5 DEF Onward, Decided
<1>4. ASSUME NEW c \in Callers, NEW d \in Events, Submit(c, d)
      PROVE  \A e \in Events : Onward(e)
  <2>1. /\ UNCHANGED <<main, prot>> /\ fate' = [fate EXCEPT ![d] = "live"]
        /\ hand' = [hand EXCEPT ![c] = d] /\ fate[d] = "new"
    BY <1>4 DEF Submit, queueVars
  <2>2. \A b \in Callers : hand'[b] = hand[b] \/ hand'[b] = d
    BY <2>1
  <2>3. \A f \in Events : Held(f)' => Held(f) \/ f = d
    BY <2>2 DEF Held
  <2> QED
    BY <2>1, <2>3 DEF Onward, Decided
<1>5. ASSUME Orphans \/ \E w \in Workers : Takes(w)
      PROVE  \A e \in Events : Onward(e)
  <2>1. /\ \/ prot # <<>> /\ prot' = Tail(prot) /\ main' = main
           \/ main # <<>> /\ main' = Tail(main) /\ prot' = prot
        /\ hand' = hand /\ (fate' = fate \/ \E d : fate' = [fate EXCEPT ![d] = "discarded"])
    BY <1>5 DEF Orphans, Takes, PopProtected, PopMain
  <2>2. /\ main # <<>> => Members(Tail(main)) \subseteq Members(main)
        /\ prot # <<>> => Members(Tail(prot)) \subseteq Members(prot)
    BY MembersTail
  <2>3. Members(main') \subseteq Members(main) /\ Members(prot') \subseteq Members(prot)
    BY <2>1, <2>2
  <2> QED
    BY <2>1, <2>3 DEF Onward, Decided, Held
<1>6. ASSUME ThreadEnds \/ \E w \in Workers : Account(w)
      PROVE  \A e \in Events : Onward(e)
  <2>1. Empties
    BY <1>6, EndEmpties, AccountEmpties
  <2> QED
    BY <2>1 DEF Empties, Onward, Held, Decided
<1>7. ASSUME NEW w \in Workers, Prepare(w) \/ SinkStep(w)
      PROVE  \A e \in Events : Onward(e)
  <2>1. UNCHANGED <<main, prot, hand>>
    BY <1>7, PrepareDecides, WriteDecides DEF Decides
  <2>2. \A e \in Events : fate'[e] # fate[e] =>
          fate[e] = "live" /\ fate'[e] \in {"written", "discarded", "filtered"}
    BY <1>7, DecidesLive
  <2> QED
    BY <2>1, <2>2 DEF Onward, Held, Decided
<1> QED
  BY <1>1, <1>2, <1>3, <1>4, <1>5, <1>6, <1>7, DecideSteps

(* The first flush() of a logger with one worker.                          *)
FirstFlush == (\A v, w \in Workers : v = w) /\ MaxFlushes <= 1

GoalMet == \A e \in goal : Decided(e)

(* The drain a flush causes leaves none of its goal behind: first not in    *)
(* the protected queue, then not in the main one, then not in the batch.    *)
Covering(w) ==
  /\ wpc[w] \in {"ack", "signal"} => why[w] = "flush"
  /\ why[w] = "flush" =>
       /\ wpc[w] = "drainMain" => \A e \in goal : e \notin Members(prot)
       /\ wpc[w] \in {"flush", "enriching", "writing"} => \A e \in goal : ~Queued(e)
       /\ wpc[w] \in {"ack", "signal"} => GoalMet

(* No worker flushes, and nothing is signalled, before the request is made. *)
Unasked == ~flushEvent /\ ~flushDone /\ \A w \in Workers : why[w] # "flush"

FlushInv ==
  /\ fpc = "idle" => goal = {}
  /\ flushes = 0 => fpc = "idle"
  /\ flushes = 0 \/ fpc = "request" => Unasked
  /\ \A e \in goal : ~Held(e) /\ fate[e] # "new"
  /\ \A w \in Workers : Covering(w)
  /\ flushDone => GoalMet

LEMMA InitFlush == Init => FlushInv
BY DEF Init, FlushInv, Unasked, Covering

(* Events of the goal only move towards their fate.                        *)
LEMMA GoalOnward ==
  ASSUME TypeInv, FlushInv, \A e \in Events : Onward(e), goal' = goal
  PROVE  /\ \A e \in goal : ~Held(e)' /\ fate'[e] # "new"
         /\ \A e \in goal : e \notin Members(prot) => e \notin Members(prot')
         /\ \A e \in goal : ~Queued(e) => ~Queued(e)'
         /\ GoalMet => GoalMet'
<1>1. goal \subseteq Events
  BY DEF TypeInv, TypeOK, FlushTypeOK
<1>2. \A e \in goal : Onward(e) /\ ~Held(e) /\ fate[e] # "new"
  BY <1>1 DEF FlushInv
<1> QED
  BY <1>2 DEF Onward, Queued, GoalMet

LEMMA FlushAside ==
  ASSUME TypeInv, FlushInv, \A e \in Events : Onward(e), UNCHANGED <<flushVars, wpc, why>>
  PROVE  FlushInv'
<1>1. goal' = goal
  BY DEF flushVars
<1>2. \A w \in Workers : Covering(w)'
  BY <1>1, GoalOnward DEF FlushInv, Covering
<1> QED
  BY <1>1, <1>2, GoalOnward DEF FlushInv, Unasked, flushVars

LEMMA FlushFlusher ==
  ASSUME FirstFlush, TypeInv, PlaceInv, FlushInv,
         CallFlush \/ RequestFlush \/ FlushReturns \/ FlushTimesOut
  PROVE  FlushInv'
<1> USE DEF TypeInv, TypeOK, FlushTypeOK, besidesFlush, workerVars, queueVars, callerVars,
            historyVars
<1>1. CASE CallFlush
  <2>0. MaxFlushes \in Nat /\ MaxFlushes <= 1
    BY PipelineAssumption DEF FirstFlush
  <2>1. /\ flushes = 0 /\ fpc' = "request" /\ flushDone' = FALSE /\ flushes' = 1
        /\ UNCHANGED <<flushEvent, wpc, why, hand, fate>>
    BY <1>1, <2>0 DEF CallFlush
  <2>2. Unasked /\ Unasked'
    BY <2>1 DEF FlushInv, Unasked
  <2>3. \A e \in goal' : ~Held(e)' /\ fate'[e] # "new"
    <3>1. \A e \in goal' : e \in Events /\ fate[e] = "live" /\ (Queued(e) \/ InSomeBatch(e))
      BY <1>1 DEF CallFlush
    <3> QED
      BY <2>1, <3>1 DEF Held, PlaceInv, Apart
  <2>4. \A w \in Workers : Covering(w)'
    BY <2>1, <2>2 DEF FlushInv, Covering, Unasked
  <2> QED
    BY <2>1, <2>2, <2>3, <2>4 DEF FlushInv
<1>2. CASE RequestFlush
  <2>1. /\ fpc = "request" /\ fpc' = "waiting"
        /\ UNCHANGED <<flushDone, flushes, goal, wpc, why, hand, fate, main, prot>>
    BY <1>2 DEF RequestFlush
  <2> QED
    BY <2>1 DEF FlushInv, Covering, GoalMet, Decided, Held, Queued
<1>3. CASE FlushReturns \/ FlushTimesOut
  <2>1. /\ fpc = "waiting" /\ fpc' = "idle" /\ goal' = {}
        /\ UNCHANGED <<flushEvent, flushDone, flushes, wpc, why>>
    BY <1>3 DEF FlushReturns, FlushTimesOut
  <2> QED
    BY <2>1 DEF FlushInv, Covering, GoalMet
<1> QED
  BY <1>1, <1>2, <1>3

(* All workers are w, so what a batch of the flush holds is in its batch.   *)
LEMMA CoveredByBatch ==
  ASSUME TypeInv, PlaceInv, FlushInv, NEW w \in Workers, \A v \in Workers : v = w,
         \A e \in goal : ~Queued(e),
         \A e \in Members(batch[w]) : fate[e] # "live"
  PROVE  GoalMet
<1>1. ASSUME NEW e \in goal
      PROVE  Decided(e)
  <2>1. e \in Events /\ fate[e] # "new" /\ ~Held(e) /\ ~Queued(e)
    BY DEF FlushInv, TypeInv, TypeOK, FlushTypeOK
  <2>2. fate[e] # "live"
    BY <2>1 DEF PlaceInv, Followed, InSomeBatch
  <2> QED
    BY <2>1, <2>2 DEF Decided
<1> QED
  BY <1>1 DEF GoalMet

(* The steps of the worker.                                                *)
LEMMA CoveringStep ==
  ASSUME TypeInv, PlaceInv, FlushInv, \A e \in Events : Onward(e),
         NEW w \in Workers, \A v \in Workers : v = w,
         Resume(w) \/ LoopStep(w) \/ Prepare(w) \/ Account(w)
  PROVE  Covering(w)'
<1> USE DEF TypeInv, TypeOK, WorkerTypeOK
<1>0. Covering(w)
  BY DEF FlushInv
<1>1. goal' = goal
  BY DEF Resume, LoopStep, CheckStop, CheckFlush, TakeProtected, TakeMain, NoProtected, NoMain,
     DeadlineFlush, Sleep, DrainProtected, DrainMain, Prepare, Enrich, FlushNothing,
     ClearRequest, SignalFlushed, Account, besidesLoop, flushVars
<1>2. /\ \A e \in goal : e \notin Members(prot) => e \notin Members(prot')
      /\ \A e \in goal : ~Queued(e) => ~Queued(e)'
      /\ GoalMet => GoalMet'
  BY <1>1, GoalOnward
<1>3. ASSUME wpc'[w] \notin {"drainMain", "flush", "enriching", "writing", "ack", "signal"}
      PROVE  Covering(w)'
  BY <1>3 DEF Covering
<1>4. CASE Resume(w) \/ CheckStop(w) \/ CheckFlush(w) \/ NoProtected(w) \/ NoMain(w) \/ Sleep(w)
  <2>1. \E p \in {"top", "checkFlush", "drain", "take", "takeMain", "pause", "ready"} :
          wpc' = [wpc EXCEPT ![w] = p]
    BY <1>4 DEF Resume, CheckStop, CheckFlush, NoProtected, NoMain, Sleep
  <2> QED
    BY <1>3, <2>1
<1>5. CASE TakeProtected(w) \/ TakeMain(w) \/ DeadlineFlush(w)
  <2>1. \/ wpc' = [wpc EXCEPT ![w] = "top"]
        \/ wpc' = [wpc EXCEPT ![w] = "flush"] /\ why' = [why EXCEPT ![w] = "size"]
        \/ wpc' = [wpc EXCEPT ![w] = "flush"] /\ why' = [why EXCEPT ![w] = "deadline"]
    BY <1>5 DEF TakeProtected, TakeMain, Collect, DeadlineFlush
  <2>2. wpc'[w] = "top" \/ (wpc'[w] = "flush" /\ why'[w] # "flush")
    BY <2>1
  <2> QED
    BY <1>3, <2>2 DEF Covering
<1>6. CASE DrainProtected(w)
  <2>1. /\ why' = why
        /\ \/ wpc' = wpc /\ wpc[w] = "drain"
           \/ wpc' = [wpc EXCEPT ![w] = "drainMain"] /\ prot = <<>>
    BY <1>6 DEF DrainProtected
  <2>2. CASE wpc' = wpc /\ wpc[w] = "drain"
    BY <1>3, <2>2
  <2>3. CASE wpc' = [wpc EXCEPT ![w] = "drainMain"] /\ prot = <<>>
    <3>1. \A e \in goal : e \notin Members(prot')
      BY <1>2, <2>3, MembersEmpty
    <3>2. wpc'[w] = "drainMain"
      BY <2>3
    <3> QED
      BY <1>1, <3>1, <3>2 DEF Covering
  <2> QED
    BY <2>1, <2>2, <2>3
<1>7. CASE DrainMain(w)
  <2>1. /\ why' = why /\ wpc[w] = "drainMain"
        /\ \/ wpc' = wpc
           \/ wpc' = [wpc EXCEPT ![w] = "flush"] /\ main = <<>>
    BY <1>7 DEF DrainMain
  <2>2. why[w] = "flush" => \A e \in goal : e \notin Members(prot)
    BY <1>0, <2>1 DEF Covering
  <2>3. CASE wpc' = wpc
    BY <1>1, <1>2, <2>1, <2>2, <2>3 DEF Covering
  <2>4. CASE wpc' = [wpc EXCEPT ![w] = "flush"] /\ main = <<>>
    <3>1. why[w] = "flush" => \A e \in goal : ~Queued(e)'
      BY <1>2, <2>2, <2>4, MembersEmpty DEF Queued
    <3>2. wpc'[w] = "flush"
      BY <2>4
    <3> QED
      BY <1>1, <2>1, <3>1, <3>2 DEF Covering
  <2> QED
    BY <2>1, <2>3, <2>4
<1>8. CASE Enrich(w) \/ Prepare(w)
  <2>1. /\ why' = why /\ wpc[w] \in {"flush", "enriching"}
        /\ wpc' \in {[wpc EXCEPT ![w] = "enriching"], [wpc EXCEPT ![w] = "writing"]}
    BY <1>8 DEF Enrich, Prepare
  <2>2. why[w] = "flush" => \A e \in goal : ~Queued(e)'
    BY <1>0, <1>2, <2>1 DEF Covering
  <2>3. wpc'[w] \in {"enriching", "writing"}
    BY <2>1
  <2> QED
    BY <1>1, <2>1, <2>2, <2>3 DEF Covering
<1>9. CASE FlushNothing(w) \/ Account(w)
  <2>1. /\ wpc[w] \in {"flush", "writing"} /\ why' = why
        /\ wpc' = [wpc EXCEPT ![w] = AfterFlush(w)]
        /\ \A e \in Members(batch[w]) : fate[e] # "live"
    BY <1>9, MembersEmpty DEF FlushNothing, Account, Unwritten, Members
  <2>2. why[w] = "flush" => GoalMet
    BY <1>0, <2>1, CoveredByBatch DEF Covering
  <2>3. wpc'[w] = AfterFlush(w) /\ AfterFlush(w) \in {"exited", "ack", "top"}
    BY <2>1 DEF AfterFlush
  <2>4. AfterFlush(w) = "ack" => why[w] = "flush"
    BY DEF AfterFlush
  <2> QED
    BY <1>1, <1>2, <2>1, <2>2, <2>3, <2>4 DEF Covering
<1>10. CASE ClearRequest(w) \/ SignalFlushed(w)
  <2>1. /\ why' = why /\ wpc[w] \in {"ack", "signal"}
        /\ \E p \in {"signal", "top"} : wpc' = [wpc EXCEPT ![w] = p]
    BY <1>10 DEF ClearRequest, SignalFlushed
  <2>2. why[w] = "flush" /\ GoalMet'
    BY <1>0, <1>2, <2>1 DEF Covering
  <2>3. wpc'[w] \in {"signal", "top"}
    BY <2>1
  <2> QED
    BY <2>1, <2>2, <2>3 DEF Covering
<1> QED
  BY <1>4, <1>5, <1>6, <1>7, <1>8, <1>9, <1>10 DEF LoopStep

LEMMA FlushWorker ==
  ASSUME TypeInv, PlaceInv, FlushInv, \A e \in Events : Onward(e),
         NEW w \in Workers, \A v \in Workers : v = w,
         Resume(w) \/ LoopStep(w) \/ Prepare(w) \/ Account(w)
  PROVE  FlushInv'
<1> USE DEF TypeInv, TypeOK, WorkerTypeOK
<1>1. Covering(w)'
  BY CoveringStep
<1>2. UNCHANGED <<fpc, flushes, goal>>
  BY DEF Resume, LoopStep, CheckStop, CheckFlush, TakeProtected, TakeMain, NoProtected, NoMain,
     DeadlineFlush, Sleep, DrainProtected, DrainMain, Prepare, Enrich, FlushNothing,
     ClearRequest, SignalFlushed, Account, besidesLoop, flushVars
<1>3. /\ flushDone' = flushDone \/ SignalFlushed(w)
      /\ flushEvent' = flushEvent \/ flushEvent' = FALSE
  BY DEF Resume, LoopStep, CheckStop, CheckFlush, TakeProtected, TakeMain, NoProtected, NoMain,
     DeadlineFlush, Sleep, DrainProtected, DrainMain, Prepare, Enrich, FlushNothing,
     ClearRequest, SignalFlushed, Account, besidesLoop, flushVars
<1>4. CASE SignalFlushed(w)
  <2>1. wpc[w] = "signal" /\ why' = why
    BY <1>4 DEF SignalFlushed
  <2>2. why[w] = "flush" /\ GoalMet
    BY <2>1 DEF FlushInv, Covering
  <2>3. ~Unasked
    BY <2>2 DEF Unasked
  <2> QED
    BY <1>1, <1>2, <2>2, <2>3, GoalOnward DEF FlushInv
<1>5. CASE ~SignalFlushed(w)
  <2>1. Unasked => Unasked'
    <3>1. why'[w] = "flush" => why[w] = "flush" \/ flushEvent
      <4>1. CASE CheckFlush(w)
        BY <4>1 DEF CheckFlush, FlushRequested
      <4>2. CASE CheckStop(w) \/ TakeProtected(w) \/ TakeMain(w) \/ DeadlineFlush(w)
        BY <4>2 DEF CheckStop, TakeProtected, TakeMain, Collect, DeadlineFlush
      <4>3. CASE ~(CheckFlush(w) \/ CheckStop(w) \/ TakeProtected(w) \/ TakeMain(w) \/ DeadlineFlush(w))
        BY <4>3 DEF Resume, LoopStep, NoProtected, NoMain, Sleep, DrainProtected, DrainMain,
           Prepare, Enrich, FlushNothing, ClearRequest, SignalFlushed, Account
      <4> QED
        BY <4>1, <4>2, <4>3
    <3> QED
      BY <1>3, <1>5, <3>1 DEF Unasked
  <2>2. flushDone' = flushDone
    BY <1>3, <1>5
  <2> QED
    BY <1>1, <1>2, <2>1, <2>2, GoalOnward DEF FlushInv
<1> QED
  BY <1>4, <1>5

LEMMA FlushEnds ==
  ASSUME FlushInv, TypeInv, \A e \in Events : Onward(e), ThreadEnds
  PROVE  FlushInv'
<1>1. /\ UNCHANGED <<flushVars, why>>
      /\ \A w \in Workers : wpc'[w] \in {"off", "exited"}
  BY DEF ThreadEnds
<1>2. \A w \in Workers : Covering(w)'
  BY <1>1 DEF Covering
<1>3. goal' = goal
  BY <1>1 DEF flushVars
<1> QED
  BY <1>1, <1>2, <1>3, GoalOnward DEF FlushInv, Unasked, flushVars

LEMMA FlushStep ==
  ASSUME FirstFlush, TypeInv, PlaceInv, Undecided, FlushInv, [Next]_vars
  PROVE  FlushInv'
<1>0. \A e \in Events : Onward(e)
  BY EventsOnward
<1>1. ASSUME NEW c \in Callers, CallerStep(c) \/ \E e \in Events : Submit(c, e)
      PROVE  UNCHANGED <<flushVars, wpc, why>>
  BY <1>1 DEF CallerStep, Submit, CallStart, EnqueueOk, EnqueueRetry, EnqueueGiveUp,
              ReadDropped, WriteDropped, besidesCaller, workerVars
<1>2. ASSUME \/ \E w \in Workers : SinkStep(w)
             \/ BeginTick \/ MonitorStep
             \/ BeginDrain \/ UNCHANGED vars
      PROVE  UNCHANGED <<flushVars, wpc, why>>
  BY <1>2 DEF SinkStep, WriteDone, BeginTick, MonitorStep, SampleProtected, EvaluateShedding,
     BeginDrain, vars, besidesLoop, workerVars
<1>3. ASSUME DrainStep
      PROVE  UNCHANGED <<flushVars, wpc, why>>
  BY <1>3 DEF DrainStep, RaiseStop, Join, CountProtected, CountMain, ReadOrphans, AddOrphans,
     Report, besidesDrain, workerVars
<1>4. Dynamic = {}
  BY PipelineAssumption DEF FirstFlush, Workers
<1> QED
  BY <1>0, <1>1, <1>2, <1>3, <1>4, FlushAside, FlushFlusher, FlushWorker, FlushEnds
     DEF Next, Finished, FirstFlush

FlushIInv == PipelineInv /\ Undecided /\ FlushInv

(* With one worker, a flush() that is acknowledged has delivered what was   *)
(* accepted before the call, in whatever queue or batch it was then.       *)
THEOREM FirstFlushCovers ==
  ASSUME FirstFlush
  PROVE  Spec => []FlushCovers
<1>1. Init => FlushIInv
  BY InitType, LoopInvInit, InitPlace, InitUndecided, InitFlush DEF FlushIInv, PipelineInv
<1>2. FlushIInv /\ [Next]_vars => FlushIInv'
  BY NextType, LoopInvNext, PlaceNext, UndecidedStep, FlushStep DEF FlushIInv, PipelineInv
<1>3. FlushIInv => FlushCovers
  BY DEF FlushIInv, FlushInv, FlushCovers, GoalMet
<1> QED
  BY <1>1, <1>2, <1>3, PTL DEF Spec

-----------------------------------------------------------------------------
(* The drain waits for the worker thread, the thread for its workers, the   *)
(* workers for their writes: nobody waits in that chain for one who cannot  *)
(* go on.                                                                  *)

(* The task that runs has a step to take; in the middle of a flush it runs  *)
(* only when no write of its batch is awaited.                             *)
RunsOn(w) ==
  /\ holder = w
  /\ wpc[w] \notin {"off", "ready", "exited"}
  /\ wpc[w] = "writing" => Unwritten(w) = {}

(* A task that awaits is due, or its batch is written, or the enrichers or  *)
(* a write are under way that end in the end.                              *)
IsDue(w) ==
  \/ wpc[w] \in {"ready", "enriching"}
  \/ wpc[w] = "writing" /\ (Unwritten(w) = {} \/ InFlight(w) # {})

LoopGoesOn ==
  \/ \E w \in Workers : RunsOn(w)
  \/ holder = Monitor /\ monitor # "asleep"
  \/ holder = NoOne /\ (WorkersDone \/ \E w \in Initial : IsDue(w))

(* A drain that joins meets a thread that has ended, or one that was told   *)
(* to stop and whose loop goes on.                                         *)
DrainGoesOn ==
  dpc = "join" => \/ loop = "ended"
                  \/ loop = "up" /\ stopFlag /\ LoopGoesOn

(* What that rests on: no initial worker is unborn, one that runs on after   *)
(* phase 1 awaits no write, and the join finds the thread and the stop flag. *)
Begun == \A w \in Initial : wpc[w] # "off"

NothingAwaited ==
  \A w \in Workers : holder = w /\ wpc[w] = "writing" => Unwritten(w) = {}

JoinsThread ==
  /\ dpc \in {"idle", "stop", "join"} => loop # "none"
  /\ dpc = "join" => stopFlag

GoingInv == Begun /\ NothingAwaited /\ JoinsThread

LEMMA GoingInit == Init => GoingInv
BY PipelineAssumption
   DEF Init, GoingInv, Begun, NothingAwaited, JoinsThread, Workers

LEMMA LeastNumber ==
  ASSUME NEW S, S \subseteq Nat, S # {}
  PROVE  \E m \in S : \A k \in S : m <= k
<1> DEFINE R == {pair \in Nat \X Nat : pair[1] < pair[2]}
<1>1. IsWellFoundedOn(R, Nat)
  BY NatLessThanWellFounded DEF OpToRel
<1>2. \A k, m \in Nat : k < m => <<k, m>> \in R
  OBVIOUS
<1> HIDE DEF R
<1>3. PICK m \in S : \A k \in S : ~ (<<k, m>> \in R)
  BY <1>1, WFMin, Zenon
<1>4. ASSUME NEW k \in S
      PROVE  m <= k
  <2>1. ~ (<<k, m>> \in R)
    BY <1>3
  <2>2. ~ (k < m)
    BY <1>2, <2>1
  <2> QED
    BY <2>2
<1> QED
  BY <1>4

(* The first write a batch still lacks is under way.                        *)
LEMMA OneInFlight ==
  ASSUME TypeInv, NEW w \in Workers, Unwritten(w) # {}
  PROVE  InFlight(w) # {}
<1>1. Unwritten(w) \subseteq Nat
  BY DEF Unwritten, TypeInv, TypeOK, WorkerTypeOK
<1>2. PICK i \in Unwritten(w) : \A j \in Unwritten(w) : i <= j
  BY <1>1, LeastNumber
<1>3. {j \in Unwritten(w) : j < i} = {}
  BY <1>1, <1>2
<1>4. Cardinality({j \in Unwritten(w) : j < i}) < SinkConcurrency
  BY <1>3, FS_EmptySet, PipelineAssumption
<1> QED
  BY <1>2, <1>4 DEF InFlight

(* Steps that leave the tasks alone, and bring no event of a batch to life. *)
LEMMA AwaitedAside ==
  ASSUME TypeInv, PlaceInv, NothingAwaited, UNCHANGED <<holder, batch>>,
         \A w \in Workers : wpc'[w] = "writing" => wpc[w] = "writing",
         \A e \in Events : fate'[e] = "live" => fate[e] \in {"live", "new"}
  PROVE  NothingAwaited'
<1> SUFFICES ASSUME NEW w \in Workers, holder' = w, wpc'[w] = "writing",
                    NEW i \in Unwritten(w)'
             PROVE  FALSE
  BY DEF NothingAwaited
<1>1. i \in DOMAIN batch[w] /\ fate'[batch[w][i]] = "live"
  BY DEF Unwritten
<1>2. batch[w][i] \in Events /\ InSomeBatch(batch[w][i])
  BY <1>1 DEF TypeInv, TypeOK, WorkerTypeOK, InSomeBatch, Members
<1>3. fate[batch[w][i]] = "live"
  BY <1>1, <1>2 DEF PlaceInv, Followed
<1>4. i \in Unwritten(w)
  BY <1>1, <1>3 DEF Unwritten
<1> QED
  BY <1>4 DEF NothingAwaited

LEMMA AwaitedCaller ==
  ASSUME TypeInv, PlaceInv, NothingAwaited, NEW c \in Callers,
         CallerStep(c) \/ \E e \in Events : Submit(c, e)
  PROVE  NothingAwaited'
<1> USE DEF TypeInv, TypeOK, HistoryTypeOK
<1>1. UNCHANGED <<holder, batch, wpc>>
  BY DEF CallerStep, Submit, CallStart, EnqueueOk, EnqueueRetry, EnqueueGiveUp,
         ReadDropped, WriteDropped, besidesCaller, workerVars
<1>2. \A e \in Events : fate'[e] = "live" => fate[e] \in {"live", "new"}
  <2>1. ASSUME NEW e \in Events, Submit(c, e)
        PROVE  fate' = [fate EXCEPT ![e] = "live"] /\ fate[e] = "new"
    BY <2>1 DEF Submit
  <2>2. CASE CallerStep(c)
    <3>1. fate' = fate \/ fate' = [fate EXCEPT ![hand[c]] = "discarded"]
      BY <2>2 DEF CallerStep, CallStart, EnqueueOk, EnqueueRetry, EnqueueGiveUp,
                  ReadDropped, WriteDropped, historyVars
    <3> QED
      BY <3>1
  <2> QED
    BY <2>1, <2>2
<1> QED
  BY <1>1, <1>2, AwaitedAside

(* Of a worker's steps only Prepare leads to "writing".                     *)
LEMMA AwaitedHolder ==
  ASSUME TypeInv, NothingAwaited, NEW w \in Workers,
         Resume(w) \/ LoopStep(w) \/ Prepare(w) \/ SinkStep(w) \/ Account(w)
  PROVE  NothingAwaited'
<1> USE PipelineAssumption DEF TypeInv, TypeOK, WorkerTypeOK
<1>1. CASE Prepare(w)
  <2>1. /\ holder' = (IF \E e \in Members(batch[w]) : fate'[e] = "live" THEN NoOne ELSE w)
        /\ batch' = batch
    BY <1>1 DEF Prepare
  <2>2. ASSUME NEW v \in Workers, holder' = v
        PROVE  v = w /\ \A e \in Members(batch[w]) : fate'[e] # "live"
    BY <2>1, <2>2
  <2> QED
    BY <2>1, <2>2 DEF NothingAwaited, Unwritten, Members
<1>2. CASE SinkStep(w)
  BY <1>2 DEF SinkStep, WriteDone, workerVars, NothingAwaited
<1>3. CASE ~Prepare(w) /\ ~SinkStep(w)
  <2>1. holder' \in {NoOne, w} /\ \E p : wpc' = [wpc EXCEPT ![w] = p] /\ p # "writing"
    <3>1. CASE Resume(w) \/ CheckStop(w) \/ CheckFlush(w) \/ Account(w)
      BY <3>1 DEF Resume, CheckStop, CheckFlush, Account, AfterFlush
    <3>2. CASE TakeProtected(w) \/ TakeMain(w) \/ NoProtected(w) \/ NoMain(w)
      BY <3>2 DEF TakeProtected, TakeMain, NoProtected, NoMain, Collect
    <3>3. CASE DeadlineFlush(w) \/ Sleep(w) \/ Enrich(w) \/ FlushNothing(w)
      BY <3>3 DEF DeadlineFlush, Sleep, Enrich, FlushNothing, AfterFlush
    <3>4. CASE DrainProtected(w) \/ DrainMain(w)
      <4>1. wpc = [wpc EXCEPT ![w] = wpc[w]]
        OBVIOUS
      <4> QED
        BY <3>4, <4>1 DEF DrainProtected, DrainMain
    <3>5. CASE ClearRequest(w) \/ SignalFlushed(w)
      BY <3>5 DEF ClearRequest, SignalFlushed
    <3> QED
      BY <1>3, <3>1, <3>2, <3>3, <3>4, <3>5 DEF LoopStep
  <2>2. wpc'[w] # "writing"
    BY <2>1
  <2> QED
    BY <2>1, <2>2 DEF NothingAwaited
<1> QED
  BY <1>1, <1>2, <1>3

LEMMA AwaitedRest ==
  ASSUME TypeInv, LoopInv, PlaceInv, NothingAwaited,
         \/ BeginTick \/ MonitorStep \/ ThreadEnds
         \/ \E w \in Dynamic : AddWorker(w) \/ RetireWorker(w)
         \/ CallFlush \/ RequestFlush \/ FlushReturns \/ FlushTimesOut
         \/ BeginDrain \/ DrainStep \/ UNCHANGED vars
  PROVE  NothingAwaited'
<1> USE PipelineAssumption DEF TypeInv, TypeOK, WorkerTypeOK
<1>1. CASE BeginTick \/ EvaluateShedding
  BY <1>1 DEF BeginTick, EvaluateShedding, NothingAwaited
<1>2. CASE ThreadEnds
  BY <1>2 DEF ThreadEnds, NothingAwaited
<1>3. CASE CountProtected \/ CountMain
  <2>1. holder = NoOne /\ holder' = holder
    BY <1>3 DEF CountProtected, CountMain, LoopInv, CountsAfterJoin, LoopQuiet,
                besidesDrain, workerVars
  <2> QED
    BY <2>1 DEF NothingAwaited
<1>4. ASSUME NEW w \in Dynamic, AddWorker(w) \/ RetireWorker(w)
      PROVE  NothingAwaited'
  <2>1. UNCHANGED <<holder, batch, fate>>
    BY <1>4 DEF AddWorker, RetireWorker, historyVars
  <2>2. \A v \in Workers : wpc'[v] = "writing" => wpc[v] = "writing"
    BY <1>4 DEF AddWorker, RetireWorker, Workers
  <2> QED
    BY <2>1, <2>2, AwaitedAside
<1>5. CASE \/ SampleProtected
           \/ CallFlush \/ RequestFlush \/ FlushReturns \/ FlushTimesOut
           \/ BeginDrain \/ RaiseStop \/ Join \/ ReadOrphans \/ AddOrphans \/ Report
           \/ UNCHANGED vars
  <2>1. UNCHANGED <<holder, batch, wpc, fate>>
    BY <1>5 DEF SampleProtected, CallFlush, RequestFlush, FlushReturns, FlushTimesOut,
                BeginDrain, RaiseStop, Join, ReadOrphans, AddOrphans, Report, vars,
                besidesFlush, besidesDrain, workerVars, historyVars
  <2> QED
    BY <2>1, AwaitedAside
<1> QED
  BY <1>1, <1>2, <1>3, <1>4, <1>5 DEF MonitorStep, DrainStep

LEMMA AwaitedNext ==
  ASSUME TypeInv, LoopInv, PlaceInv, NothingAwaited, [Next]_vars
  PROVE  NothingAwaited'
BY AwaitedCaller, AwaitedHolder, AwaitedRest DEF Next, Finished

(* No task becomes unborn again.                                           *)
LEMMA BegunNext ==
  ASSUME TypeInv, Begun, [Next]_vars
  PROVE  Begun'
<1> USE DEF TypeInv, TypeOK, WorkerTypeOK, Begun, Workers
<1>1. ASSUME NEW c \in Callers, CallerStep(c) \/ \E e \in Events : Submit(c, e)
      PROVE  wpc' = wpc
  BY <1>1 DEF CallerStep, Submit, CallStart, EnqueueOk, EnqueueRetry, EnqueueGiveUp,
              ReadDropped, WriteDropped, besidesCaller, workerVars
<1>2. ASSUME NEW w \in Workers,
             Resume(w) \/ LoopStep(w) \/ Prepare(w) \/ SinkStep(w) \/ Account(w)
      PROVE  wpc' = wpc \/ \E p : wpc' = [wpc EXCEPT ![w] = p] /\ p # "off"
  <2>1. CASE Resume(w) \/ CheckStop(w) \/ CheckFlush(w) \/ Account(w) \/ Prepare(w)
    BY <2>1 DEF Resume, CheckStop, CheckFlush, Account, AfterFlush, Prepare
  <2>2. CASE TakeProtected(w) \/ TakeMain(w) \/ NoProtected(w) \/ NoMain(w)
    BY <2>2 DEF TakeProtected, TakeMain, NoProtected, NoMain, Collect
  <2>3. CASE DeadlineFlush(w) \/ Sleep(w) \/ Enrich(w) \/ FlushNothing(w) \/ SinkStep(w)
    BY <2>3 DEF DeadlineFlush, Sleep, Enrich, FlushNothing, AfterFlush, SinkStep, WriteDone,
                workerVars
  <2>4. CASE DrainProtected(w) \/ DrainMain(w) \/ ClearRequest(w) \/ SignalFlushed(w)
    BY <2>4 DEF DrainProtected, DrainMain, ClearRequest, SignalFlushed
  <2> QED
    BY <1>2, <2>1, <2>2, <2>3, <2>4 DEF LoopStep
<1>3. ASSUME NEW w \in Dynamic, AddWorker(w) \/ RetireWorker(w)
      PROVE  Begun'
  BY <1>3 DEF AddWorker, RetireWorker
<1>4. CASE ThreadEnds
  BY <1>4 DEF ThreadEnds
<1>5. ASSUME \/ BeginTick \/ MonitorStep
             \/ CallFlush \/ RequestFlush \/ FlushReturns \/ FlushTimesOut
             \/ BeginDrain \/ DrainStep \/ UNCHANGED vars
      PROVE  wpc' = wpc
  BY <1>5 DEF BeginTick, MonitorStep, SampleProtected, EvaluateShedding, CallFlush,
     RequestFlush, FlushReturns, FlushTimesOut, BeginDrain, DrainStep, RaiseStop, Join,
     CountProtected, CountMain, ReadOrphans, AddOrphans, Report, vars, besidesFlush,
     besidesDrain, workerVars
<1> QED
  <2>1. ASSUME NEW w \in Workers,
               Resume(w) \/ LoopStep(w) \/ Prepare(w) \/ SinkStep(w) \/ Account(w)
        PROVE  Begun'
    BY <1>2, <2>1
  <2> QED
    BY <1>1, <1>3, <1>4, <1>5, <2>1 DEF Next, Finished

(* Only the drain forgets the thread, after its join.                       *)
LEMMA JoinsThreadNext ==
  ASSUME TypeInv, JoinsThread, [Next]_vars
  PROVE  JoinsThread'
<1>1. ASSUME NEW c \in Callers, CallerStep(c) \/ \E e \in Events : Submit(c, e)
      PROVE  UNCHANGED <<dpc, loop, stopFlag>>
  BY <1>1 DEF CallerStep, Submit, CallStart, EnqueueOk, EnqueueRetry, EnqueueGiveUp,
              ReadDropped, WriteDropped, besidesCaller, drainVars
<1>2. ASSUME NEW w \in Workers,
             Resume(w) \/ LoopStep(w) \/ Prepare(w) \/ SinkStep(w) \/ Account(w)
      PROVE  UNCHANGED <<dpc, loop, stopFlag>>
  <2>1. CASE Resume(w) \/ LoopStep(w) \/ Prepare(w)
    BY <2>1 DEF Resume, LoopStep, CheckStop, CheckFlush, TakeProtected, NoProtected,
                TakeMain, NoMain, DeadlineFlush, Sleep, DrainProtected, DrainMain,
                Prepare, Enrich, FlushNothing, ClearRequest, SignalFlushed, besidesLoop, drainVars
  <2>2. CASE SinkStep(w) \/ Account(w)
    BY <2>2 DEF SinkStep, WriteDone, Account, besidesLoop, drainVars
  <2> QED
    BY <1>2, <2>1, <2>2
<1>3. ASSUME \/ BeginTick \/ MonitorStep
             \/ \E w \in Dynamic : AddWorker(w) \/ RetireWorker(w)
             \/ CallFlush \/ RequestFlush \/ FlushReturns \/ FlushTimesOut
             \/ UNCHANGED vars
      PROVE  UNCHANGED <<dpc, loop, stopFlag>>
  BY <1>3 DEF BeginTick, MonitorStep, SampleProtected, EvaluateShedding, AddWorker,
              RetireWorker, CallFlush, RequestFlush, FlushReturns, FlushTimesOut,
              besidesLoop, besidesFlush, vars, drainVars
<1>4. CASE ThreadEnds
  BY <1>4 DEF ThreadEnds, JoinsThread, drainVars
<1>5. CASE BeginDrain \/ RaiseStop \/ Join
  BY <1>5 DEF BeginDrain, RaiseStop, Join, JoinsThread
<1>6. ASSUME CountProtected \/ CountMain \/ ReadOrphans \/ AddOrphans \/ Report
      PROVE  dpc' \notin {"idle", "stop", "join"}
  BY <1>6 DEF CountProtected, CountMain, ReadOrphans, AddOrphans, Report
<1>7. UNCHANGED <<dpc, loop, stopFlag>> => JoinsThread'
  BY DEF JoinsThread
<1>8. dpc' \notin {"idle", "stop", "join"} => JoinsThread'
  BY DEF JoinsThread
<1> QED
  BY <1>1, <1>2, <1>3, <1>4, <1>5, <1>6, <1>7, <1>8 DEF Next, Finished, DrainStep

(* The safe half of DrainReturns: a stop_and_drain() that joins the worker  *)
(* thread finds it told to stop and never stuck, whatever the writes, the   *)
(* flush requests, the monitor and the scaling had under way.  With the     *)
(* fairness of the scheduler and sinks that answer, TLC checks the rest.    *)
THEOREM DrainDoesNotBlock == Spec => []DrainGoesOn
<1>1. Init => PipelineInv /\ GoingInv
  BY InitType, LoopInvInit, InitPlace, GoingInit DEF PipelineInv
<1>2. (PipelineInv /\ GoingInv) /\ [Next]_vars => (PipelineInv /\ GoingInv)'
  BY NextType, LoopInvNext, PlaceNext, AwaitedNext, BegunNext, JoinsThreadNext
     DEF PipelineInv, GoingInv
<1>3. PipelineInv /\ GoingInv => DrainGoesOn
  <2> SUFFICES ASSUME PipelineInv, GoingInv, dpc = "join", loop # "ended"
               PROVE  loop = "up" /\ stopFlag /\ LoopGoesOn
    BY DEF DrainGoesOn
  <2> USE DEF PipelineInv, TypeInv, TypeOK, WorkerTypeOK
  <2>1. loop = "up" /\ stopFlag
    BY DEF GoingInv, JoinsThread
  <2>2. CASE holder = Monitor
    BY <2>1, <2>2 DEF LoopInv, HolderRuns, LoopGoesOn
  <2>3. CASE holder \in Workers
    <3>1. RunsOn(holder)
      BY <2>3 DEF RunsOn, LoopInv, HolderRuns, GoingInv, NothingAwaited
    <3> QED
      BY <2>1, <2>3, <3>1 DEF LoopGoesOn
  <2>4. CASE holder = NoOne
    <3>1. ASSUME NEW w \in Initial, wpc[w] # "exited"
          PROVE  IsDue(w)
      <4>1. w \in Workers /\ holder # w /\ wpc[w] # "off"
        BY <2>4, <3>1, PipelineAssumption DEF Workers, GoingInv, Begun
      <4>2. wpc[w] \in {"ready", "enriching", "writing"}
        BY <3>1, <4>1 DEF LoopInv, OneAtATime
      <4> QED
        BY <4>1, <4>2, OneInFlight DEF IsDue
    <3> QED
      BY <2>1, <2>4, <3>1 DEF LoopGoesOn, WorkersDone
  <2> QED
    BY <2>1, <2>2, <2>3, <2>4
<1> QED
  BY <1>1, <1>2, <1>3, PTL DEF Spec
=============================================================================
