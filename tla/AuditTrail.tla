----------------------------- MODULE AuditTrail -----------------------------
(***************************************************************************)
(* AuditTrail (fapilog_audit/audit.py): events are queued by log_event,    *)
(* numbered and chained by _store_event, and appended to the files of      *)
(* storage_path by threads of the loop's executor.                         *)
(*                                                                         *)
(* Three parties meet: the application, which logs; the processing task;   *)
(* and the owner, who calls start(), drain() and stop().  All of them run  *)
(* on one event loop, so a step goes from one await to the next.  Inside   *)
(* `async with self._lock' nothing is awaited: the lock is never found     *)
(* taken, and numbering and chaining are one step.                         *)
(*                                                                         *)
(* An event stands for its checksum: event ids are unique, and the         *)
(* checksum covers the event with its number and the checksum before it.   *)
(***************************************************************************)
EXTENDS Naturals, Sequences, FiniteSets

CONSTANTS
  Events,         \* what the application may log, each event once
  NoEvent,        \* previous_hash of the first event of a chain
  PoolSaturates,  \* the executor may have no free thread for a write
  MaxFailures,    \* bound: writes that fail, events that cannot be serialized
  MaxRestarts     \* bound: new AuditTrails on the same storage_path

ASSUME AuditAssumption ==
  /\ NoEvent \notin Events
  /\ IsFiniteSet(Events)
  /\ PoolSaturates \in BOOLEAN
  /\ MaxFailures \in Nat /\ MaxRestarts \in Nat

\* An event as it is stored, and which of the trails has numbered it.
Record == [event : Events, seq : 1 .. Cardinality(Events), prev : Events \cup {NoEvent},
           trail : 0 .. MaxRestarts]

\* Who waits for a write: the processing task, the owner, or nobody any more.
Job == [record : Record, for : {"task", "owner", "nobody"}, started : BOOLEAN]

VARIABLES
  queue,      \* _event_queue
  seqCounter, \* _seq_counter
  lastHash,   \* _last_hash
  task,       \* _processing_task: where it is
  held,       \* the event it has taken from the queue
  owner,      \* what the owner is doing
  jobs,       \* the writes handed to the executor
  lines,      \* the lines of the files below storage_path
  failures,   \* failures so far, counted for the bound
  restarts,   \* trails created before this one, counted for the bound
  inTime,     \* history: the events logged while the task ran and no stop had begun
  lost        \* history: the events that failed or whose write was never run

trailVars == <<queue, seqCounter, lastHash, task, held, owner, jobs, lines, failures,
               restarts, inTime, lost>>

\* "none": no task; "waits": in wait_for(queue.get()); "took": the event is
\* out of the queue and the task has not run since; "stores": waits for a
\* write; "done": the task has ended.
TaskState == {"none", "waits", "took", "stores", "done"}

\* "ready": in no call; "drains", "stops": in the loop of drain(), called by
\* the application or by stop(); "cancels": stop() waits for the task.
OwnerState == {"ready", "drains", "stops", "cancels"}

TypeOK ==
  /\ queue \in Seq(Events)
  /\ seqCounter \in 0 .. Cardinality(Events)
  /\ lastHash \in Events \cup {NoEvent}
  /\ task \in TaskState
  /\ held \in Events \cup {NoEvent}
  /\ owner \in OwnerState
  /\ jobs \subseteq Job
  /\ lines \subseteq Record
  /\ failures \in 0 .. MaxFailures
  /\ restarts \in 0 .. MaxRestarts
  /\ inTime \subseteq Events
  /\ lost \subseteq Events

Init ==
  /\ queue = <<>>
  /\ seqCounter = 0
  /\ lastHash = NoEvent
  /\ task = "none"
  /\ held = NoEvent
  /\ owner = "ready"
  /\ jobs = {}
  /\ lines = {}
  /\ failures = 0
  /\ restarts = 0
  /\ inTime = {}
  /\ lost = {}

-----------------------------------------------------------------------------
EventsOf(records) == {r.event : r \in records}
Queued == {queue[i] : i \in DOMAIN queue}
InJobs == EventsOf({j.record : j \in jobs})

\* Not logged yet (events are unique).
Fresh(e) == e \notin Queued \cup InJobs \cup EventsOf(lines) \cup lost \cup {held}

\* _stopping.
Stopping == owner \in {"stops", "cancels"}

\* Its write is not over, so the task, or the owner, cannot go on.
Awaits(who) == \E j \in jobs : j.for = who

\* log_event(): the queue has no bound, and nobody asks whether the task runs.
LogEvent(e) ==
  /\ Fresh(e)
  /\ queue' = Append(queue, e)
  /\ inTime' = IF task # "none" /\ ~Stopping THEN inTime \cup {e} ELSE inTime
  /\ UNCHANGED <<seqCounter, lastHash, task, held, owner, jobs, lines, failures, restarts, lost>>

\* start(): a task unless there is one.
Start ==
  /\ owner = "ready" /\ task \in {"none", "done"}
  /\ task' = "waits"
  /\ UNCHANGED <<queue, seqCounter, lastHash, held, owner, jobs, lines, failures, restarts,
                 inTime, lost>>

\* Mutant: the chain forgets to move on.
ChainsToNothing == NoEvent

\* What the event that is stored next gets for its chain.
PreviousHash == lastHash
NextNumber == seqCounter + 1

\* _store_event up to the write: the event is numbered and chained, and the
\* write handed to the executor, which runs it at once if a thread is free.
Chain(e, who) ==
  LET record == [event |-> e, seq |-> NextNumber, prev |-> PreviousHash, trail |-> restarts]
  IN  /\ seqCounter' = NextNumber
      /\ lastHash' = e
      /\ \E begun \in IF PoolSaturates THEN BOOLEAN ELSE {TRUE} :
           jobs' = jobs \cup {[record |-> record, for |-> who, started |-> begun]}
      /\ UNCHANGED <<failures, lost>>

\* The event is numbered, but it cannot be serialized: it is dropped without a
\* word, and its number stays used.
Unserializable(e) ==
  /\ failures < MaxFailures /\ failures' = failures + 1
  /\ seqCounter' = NextNumber
  /\ lost' = lost \cup {e}
  /\ UNCHANGED <<lastHash, jobs>>

Store(e, who) == Chain(e, who) \/ Unserializable(e)

\* Mutant: the event is looked at and left in the queue.
Peeked == queue

\* The queue without the event that get() or get_nowait() returns.
Remaining == Tail(queue)

\* _process_events: the queue hands the task an event ...
TaskTakes ==
  /\ task = "waits" /\ queue # <<>>
  /\ task' = "took"
  /\ held' = Head(queue)
  /\ queue' = Remaining
  /\ UNCHANGED <<seqCounter, lastHash, owner, jobs, lines, failures, restarts, inTime, lost>>

\* ... which it stores when it runs.
TaskStores ==
  /\ task = "took"
  /\ task' = "stores"
  /\ held' = NoEvent
  /\ Store(held, "task")
  /\ UNCHANGED <<queue, owner, lines, restarts, inTime>>

\* Mutant: an idle task ends though nobody stops the trail.
EndsWhenIdle == IF queue = <<>> THEN "done" ELSE "waits"

\* The head of the loop of _process_events.
AtLoopHead == IF Stopping /\ queue = <<>> THEN "done" ELSE "waits"

\* The task's write is over, or its wait for an event has timed out.
TaskLoops ==
  /\ \/ task = "stores" /\ ~Awaits("task")
     \/ task = "waits" /\ AtLoopHead = "done"
  /\ task' = AtLoopHead
  /\ UNCHANGED <<queue, seqCounter, lastHash, held, owner, jobs, lines, failures, restarts,
                 inTime, lost>>

\* The application, or stop(), calls drain().
BeginDrain ==
  /\ owner = "ready"
  /\ owner' \in {"drains", "stops"}
  /\ UNCHANGED <<queue, seqCounter, lastHash, task, held, jobs, lines, failures, restarts,
                 inTime, lost>>

\* drain(): get_nowait() and the event is stored.
DrainStores ==
  /\ owner \in {"drains", "stops"} /\ ~Awaits("owner")
  /\ queue # <<>>
  /\ queue' = Remaining
  /\ Store(Head(queue), "owner")
  /\ UNCHANGED <<task, held, owner, lines, restarts, inTime>>

\* drain() finds the queue empty and returns to the application.
DrainReturns ==
  /\ owner = "drains" /\ ~Awaits("owner")
  /\ queue = <<>>
  /\ owner' = "ready"
  /\ UNCHANGED <<queue, seqCounter, lastHash, task, held, jobs, lines, failures, restarts,
                 inTime, lost>>

\* Cancelling the task that waits for a write: a write that has not begun is
\* taken from the executor, one that has goes on with nobody waiting for it.
Abandoned == {j \in jobs : j.for = "task" /\ ~j.started}
Detached == {j \in jobs : j.for = "task" /\ j.started}

CancelWrite ==
  /\ jobs' = (jobs \ (Abandoned \cup Detached)) \cup {[j EXCEPT !.for = "nobody"] : j \in Detached}
  /\ lost' = lost \cup EventsOf({j.record : j \in Abandoned})

\* Mutant: stop() cancels the task without emptying the queue first.
StopsAtOnce == TRUE

\* drain() has left nothing in the queue.
Drained == queue = <<>>

\* stop(): the queue is empty and the task is cancelled.  A task that has
\* taken an event already is given it all the same (wait_for returns it).
CancelTask ==
  /\ owner = "stops" /\ ~Awaits("owner")
  /\ Drained
  /\ owner' = "cancels"
  /\ task' = IF task \in {"waits", "stores"} THEN "done" ELSE task
  /\ CancelWrite
  /\ UNCHANGED <<queue, seqCounter, lastHash, held, lines, failures, restarts, inTime>>

\* stop() has waited half a second for the task and cancels it again.
CancelAgain ==
  /\ owner = "cancels" /\ task = "stores"
  /\ task' = "done"
  /\ CancelWrite
  /\ UNCHANGED <<queue, seqCounter, lastHash, held, owner, lines, failures, restarts, inTime>>

\* stop() returns.
StopReturns ==
  /\ owner = "cancels" /\ task \in {"none", "done"}
  /\ owner' = "ready"
  /\ task' = "none"
  /\ UNCHANGED <<queue, seqCounter, lastHash, held, jobs, lines, failures, restarts, inTime, lost>>

\* The executor: a thread comes free, and a write ends.
JobStarts(j) ==
  /\ ~j.started
  /\ jobs' = (jobs \ {j}) \cup {[j EXCEPT !.started = TRUE]}
  /\ UNCHANGED <<queue, seqCounter, lastHash, task, held, owner, lines, failures, restarts,
                 inTime, lost>>

JobWrites(j) ==
  /\ j.started
  /\ jobs' = jobs \ {j}
  /\ lines' = lines \cup {j.record}
  /\ UNCHANGED <<queue, seqCounter, lastHash, task, held, owner, failures, restarts, inTime, lost>>

\* _store_event: a write that fails is dropped without a word.
JobFails(j) ==
  /\ j.started /\ failures < MaxFailures
  /\ jobs' = jobs \ {j}
  /\ lost' = lost \cup {j.record.event}
  /\ failures' = failures + 1
  /\ UNCHANGED <<queue, seqCounter, lastHash, task, held, owner, lines, restarts, inTime>>

\* A new AuditTrail at the same storage_path: it numbers and chains from the
\* beginning, and what the old one had queued is gone with it.
NewTrail ==
  /\ restarts < MaxRestarts
  /\ restarts' = restarts + 1
  /\ queue' = <<>> /\ seqCounter' = 0 /\ lastHash' = NoEvent
  /\ task' = "none" /\ held' = NoEvent /\ owner' = "ready"
  /\ UNCHANGED <<lines, failures, inTime>>

\* reset_audit_trail() after its stop(), and get_audit_trail(): threads that
\* still write for the old trail go on.
Reset ==
  /\ owner = "ready" /\ task = "none"
  /\ NewTrail
  /\ lost' = lost \cup Queued
  /\ UNCHANGED jobs

\* The process ends, in whatever state, and with it the threads.
Crash ==
  /\ NewTrail
  /\ lost' = lost \cup Queued \cup InJobs \cup ({held} \ {NoEvent})
  /\ jobs' = {}

TaskStep == TaskTakes \/ TaskStores \/ TaskLoops
OwnerStep == DrainStores \/ DrainReturns \/ CancelTask \/ CancelAgain \/ StopReturns
PoolStep == \E j \in jobs : JobStarts(j) \/ JobWrites(j) \/ JobFails(j)

Next ==
  \/ \E e \in Events : LogEvent(e)
  \/ Start \/ BeginDrain
  \/ TaskStep \/ OwnerStep \/ PoolStep
  \/ Reset \/ Crash

Spec == Init /\ [][Next]_trailVars

\* The loop runs what is ready, and writes end; nobody need log, drain or stop.
FairSpec ==
  /\ Spec
  /\ WF_trailVars(TaskStep) /\ WF_trailVars(OwnerStep) /\ WF_trailVars(PoolStep)

-----------------------------------------------------------------------------
\* verify_chain over the lines in the order of their numbers: they are
\* numbered from 1 without gap or repetition, and each names the one before.
Verifies(records) ==
  /\ {r.seq : r \in records} = 1 .. Cardinality(records)
  /\ \A r \in records :
       r.prev = IF r.seq = 1 THEN NoEvent
                ELSE (CHOOSE p \in records : p.seq = r.seq - 1).event

\* What this trail has stored.
Written == {r \in lines : r.trail = restarts}

(***************************************************************************)
(* Whoever stores, the task or a drain beside it, and in whatever order    *)
(* the writes end: once none is under way what the trail has stored        *)
(* verifies unless a write was lost (verify_chain_from_storage sorts       *)
(* because the order is not that of the chain).                            *)
(***************************************************************************)
QuietTrailVerifies ==
  jobs = {} =>
    /\ Cardinality(Written) = seqCounter => Verifies(Written)
    /\ lost = {} => Cardinality(Written) = seqCounter

(***************************************************************************)
(* Stored events are stored once: no event has two lines or a line and a   *)
(* write under way, though both the task and a drain take from the queue.  *)
(***************************************************************************)
StoredOnce ==
  /\ \A r, s \in lines : r.event = s.event => r = s
  /\ \A j, k \in jobs : j.record.event = k.record.event => j = k
  /\ InJobs \cap EventsOf(lines) = {}

(***************************************************************************)
(* When stop() returns every event logged before it began has been         *)
(* numbered: none is left in the queue or in the hands of the task.        *)
(***************************************************************************)
StopDrains ==
  [][StopReturns => inTime \cap (Queued \cup {held}) = {}]_trailVars

(***************************************************************************)
(* Every event logged while the trail ran is stored, though stop() may     *)
(* cancel the task in the middle of its write: the thread goes on.  It     *)
(* takes an executor with a free thread and writes that succeed.           *)
(***************************************************************************)
EventuallyStored ==
  \A e \in Events : e \in inTime ~> e \in EventsOf(lines) \cup lost
=============================================================================
