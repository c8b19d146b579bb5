--------------------------- MODULE LoggerLifecycle ---------------------------
(***************************************************************************)
(* Loggers of one name from get_async_logger() to the end of the process:  *)
(* the cache (fapilog/__init__.py), the threads that start() and drain()   *)
(* of a logger begin and join (core/logger.py), and the drain at exit or   *)
(* on a signal (core/shutdown.py).                                         *)
(*                                                                         *)
(* Callers are tasks of event loops; a task alone on its loop is as good   *)
(* as a thread that uses the synchronous API.  Between two awaits a task   *)
(* holds its loop, also while it waits for a lock.  What the threads do    *)
(* with events is LogPipeline's subject: here they process or lose them.   *)
(***************************************************************************)
EXTENDS Naturals, FiniteSets

CONSTANTS
  Callers,     \* tasks that use loggers
  Main,        \* the main thread when it drains at exit or in a signal handler
  Loops,       \* the event loops
  MainLoop,    \* the one that the main thread runs
  Placements,  \* which caller runs on which loop: the functions considered
  Events,
  NoEvent,
  MaxCalls     \* bound: the calls of the API

ASSUME LifecycleAssumption ==
  /\ Main \notin Callers /\ MainLoop \in Loops
  /\ 0 \notin Callers
  /\ Placements \subseteq [Callers -> Loops]
  /\ NoEvent \notin Events
  /\ MaxCalls \in Nat

Tasks == Callers \cup {Main}
Loggers == 1 .. MaxCalls  \* a call creates one logger and starts one thread at most
Threads == 1 .. MaxCalls
None == 0   \* no logger, no thread

VARIABLES
  loopOf,   \* the placement of this process
  task,     \* [at, logger, thread, event] of each task
  has,      \* the logger each caller was handed
  lock,     \* _cache_lock: None or the task that holds it
  cached,   \* what _async_logger_cache has under the name
  created,  \* how many loggers have been created; all of them register
  logger,   \* [loop, thread, stop, tasks] of each: _worker_loop and _worker_thread
            \* (named by the thread), _stop_flag, whose tasks _worker_tasks holds
  thread,   \* [at, logger] of each thread
  event,    \* [at, logger] of each event
  exit,     \* "no", "draining" or "over"
  shut,     \* the interpreter exits and starts no thread of an executor any more
  left,     \* the loggers the exit has yet to drain
  clears,   \* how often the cache was cleared
  calls,    \* how many calls of the API there were
  handed,   \* history: [clears, logger] of each logger handed out
  torn,     \* history: loggers that were started while another start, another
            \* thread or an unfinished drain of theirs was in the way, or whose
            \* thread was late
  lockedIn, \* history: the lock was held across an await by a task with company
  inTime    \* history: the events then queued in loggers that run, not asked to stop

cacheVars == <<lock, cached, clears, handed, lockedIn>>
exitVars == <<exit, shut, left, inTime>>
vars == <<loopOf, calls, task, has, cacheVars, created, logger, thread, event, exitVars, torn>>

-----------------------------------------------------------------------------
Idle == [at |-> "idle", logger |-> None, thread |-> None, event |-> NoEvent]
Fresh == [loop |-> None, thread |-> None, stop |-> FALSE, tasks |-> {}]
NoThread == [at |-> "none", logger |-> None]

Init ==
  /\ loopOf \in Placements
  /\ task = [t \in Tasks |-> Idle]
  /\ has = [c \in Callers |-> None]
  /\ lock = None /\ cached = None /\ clears = 0
  /\ created = 0 /\ calls = 0
  /\ logger = [f \in Loggers |-> Fresh]
  /\ thread = [g \in Threads |-> NoThread]
  /\ event = [e \in Events |-> [at |-> "new", logger |-> None]]
  /\ exit = "no" /\ shut = FALSE /\ left = {} /\ inTime = {}
  /\ handed = {} /\ torn = {} /\ lockedIn = FALSE

\* What a task does without an await: no other task of its loop runs meanwhile.
Uninterrupted == {"hit", "locking", "clearing", "starting", "waiting", "enqueueing"}

Company(t) == {c \in Callers \ {t} : loopOf[c] = loopOf[t]}

\* t may go on: its loop is free, and neither paused by a signal nor over.
Free(t) ==
  /\ exit = "no" \/ (exit = "draining" /\ ~shut /\ loopOf[t] # MainLoop)
  /\ \A c \in Company(t) : task[c].at \notin Uninterrupted

Queue(f) == {e \in Events : event[e] = [at |-> "queued", logger |-> f]}
Live(f) == {g \in Threads : thread[g].logger = f /\ thread[g].at \notin {"none", "ended"}}
NewThread == 1 + Cardinality({g \in Threads : thread[g].at # "none"})

\* c begins a call.
Calls(c) ==
  /\ Free(c) /\ task[c] = Idle
  /\ calls < MaxCalls /\ calls' = calls + 1

-----------------------------------------------------------------------------
(* Getting a logger *)

\* The fast path looks twice, without the lock ...
Hit(c) ==
  /\ Calls(c) /\ cached # None
  /\ task' = [task EXCEPT ![c].at = "hit"]
  /\ UNCHANGED <<loopOf, has, cacheVars, created, logger, thread, event, exitVars, torn>>

\* ... and raises KeyError if the cache was cleared in between.
TakeHit(c) ==
  /\ Free(c) /\ task[c].at = "hit"
  /\ task' = [task EXCEPT ![c] = Idle]
  /\ IF cached = None
       THEN UNCHANGED <<has, handed>>
       ELSE /\ has' = [has EXCEPT ![c] = cached]
            /\ handed' = handed \cup {[clears |-> clears, logger |-> cached]}
  /\ UNCHANGED <<loopOf, calls, lock, cached, clears, lockedIn, created, logger, thread, event,
                 exitVars, torn>>

\* Else the plugins are configured and started, with awaits.
Miss(c) ==
  /\ Calls(c) /\ cached = None
  /\ task' = [task EXCEPT ![c].at = "building"]
  /\ UNCHANGED <<loopOf, has, cacheVars, created, logger, thread, event, exitVars, torn>>

\* start(), up to the thread: the flag, the registration, the new thread.
Started(f, g) ==
  /\ logger' = [logger EXCEPT ![f].stop = FALSE, ![f].thread = g]
  /\ thread' = [thread EXCEPT ![g] = [at |-> "new", logger |-> f]]
  /\ torn' = IF \/ logger[f].loop # None \/ Live(f) # {}
                \/ \E t \in Tasks : task[t].logger = f /\ task[t].at \in
                                     {"joining", "counting", "cleaning"}
             THEN torn \cup {f} ELSE torn

Build(c) ==
  /\ Free(c) /\ task[c].at = "building"
  /\ created' = created + 1
  /\ Started(created + 1, NewThread)
  /\ task' = [task EXCEPT ![c].at = "waiting", ![c].logger = created + 1]
  /\ UNCHANGED <<loopOf, calls, has, cacheVars, event, exitVars>>

\* Mutant: the workers are asked to stop once they have ended.
JoinsFirst(t, f) ==
  /\ logger' = [logger EXCEPT ![f].stop = logger[f].thread = None]
  /\ task' = [task EXCEPT ![t] =
       [Idle EXCEPT !.logger = f,
                    !.at = IF logger[f].loop # None /\ logger[f].thread # None
                           THEN "joining" ELSE "counting",
                    !.thread = logger[f].thread]]

\* _drain_thread_mode() up to the join, which is of the thread it now has.
StopOf(t, f) ==
  /\ logger' = [logger EXCEPT ![f].stop = TRUE]
  /\ task' = [task EXCEPT ![t] =
       [Idle EXCEPT !.logger = f,
                    !.at = IF logger[f].loop # None /\ logger[f].thread # None
                           THEN "joining" ELSE "counting",
                    !.thread = logger[f].thread]]

\* Mutant: the cache is not looked at again under the lock.
Overwrites == TRUE

\* The second look, under the lock.
FirstToLock == cached = None

Insert(c) ==
  /\ Free(c) /\ task[c].at = "locking" /\ lock = None
  /\ FirstToLock
  /\ cached' = task[c].logger
  /\ has' = [has EXCEPT ![c] = task[c].logger]
  /\ handed' = handed \cup {[clears |-> clears, logger |-> task[c].logger]}
  /\ task' = [task EXCEPT ![c] = Idle]
  /\ UNCHANGED <<loopOf, calls, lock, clears, lockedIn, created, logger, thread, event, exitVars,
                 torn>>

\* Mutant: the one that comes second forgets the logger it made.
LeavesLoser(c) ==
  /\ Free(c) /\ task[c].at = "locking" /\ lock = None
  /\ cached # None
  /\ has' = [has EXCEPT ![c] = cached]
  /\ task' = [task EXCEPT ![c] = Idle]
  /\ UNCHANGED <<loopOf, calls, cacheVars, created, logger, thread, event, exitVars, torn>>

\* The one that comes second drains its logger, awaiting with the lock held.
Lose(c) ==
  /\ Free(c) /\ task[c].at = "locking" /\ lock = None
  /\ cached # None
  /\ lock' = c
  /\ lockedIn' = (lockedIn \/ Company(c) # {})
  /\ StopOf(c, task[c].logger)
  /\ UNCHANGED <<loopOf, calls, has, cached, clears, handed, created, thread, event, exitVars, torn>>

-----------------------------------------------------------------------------
(* Logging and draining *)

\* A log call, up to the test of start().
Call(c, e) ==
  LET f == has[c]
  IN  /\ Calls(c) /\ f # None
      /\ event[e].at = "new"
      /\ event' = [event EXCEPT ![e].at = "carried"]
      /\ task' = [task EXCEPT ![c] =
           [Idle EXCEPT !.logger = f, !.event = e,
                        !.at = IF logger[f].loop = None THEN "starting" ELSE "enqueueing"]]
      /\ UNCHANGED <<loopOf, has, cacheVars, created, logger, thread, exitVars, torn>>

StartAgain(c) ==
  /\ Free(c) /\ task[c].at = "starting"
  /\ Started(task[c].logger, NewThread)
  /\ task' = [task EXCEPT ![c].at = "waiting"]
  /\ UNCHANGED <<loopOf, calls, has, cacheVars, created, event, exitVars>>

\* start() waits for the thread, two seconds at most: the thread may be later.
StartReturns(c) ==
  /\ Free(c) /\ task[c].at = "waiting"
  /\ task' = [task EXCEPT ![c].at = IF task[c].event = NoEvent THEN "locking" ELSE "enqueueing"]
  /\ torn' = IF logger[task[c].logger].loop = None THEN torn \cup {task[c].logger} ELSE torn
  /\ UNCHANGED <<loopOf, calls, has, cacheVars, created, logger, thread, event, exitVars>>

Enqueue(c) ==
  /\ Free(c) /\ task[c].at = "enqueueing"
  /\ event' = [event EXCEPT ![task[c].event] = [at |-> "queued", logger |-> task[c].logger]]
  /\ task' = [task EXCEPT ![c] = Idle]
  /\ UNCHANGED <<loopOf, calls, has, cacheVars, created, logger, thread, exitVars, torn>>

\* drain(), or the end of runtime_async().
Drain(c) ==
  /\ Calls(c) /\ has[c] # None
  /\ StopOf(c, has[c])
  /\ UNCHANGED <<loopOf, has, cacheVars, created, thread, event, exitVars, torn>>

\* clear_logger_cache() takes the lock to empty the cache ...
BeginClear(c) ==
  /\ Calls(c)
  /\ task' = [task EXCEPT ![c].at = "clearing"]
  /\ UNCHANGED <<loopOf, has, cacheVars, created, logger, thread, event, exitVars, torn>>

\* ... and drains without it what was there.
Clear(c) ==
  /\ Free(c) /\ task[c].at = "clearing" /\ lock = None
  /\ clears' = clears + 1
  /\ cached' = None
  /\ IF cached = None
       THEN task' = [task EXCEPT ![c] = Idle] /\ UNCHANGED logger
       ELSE StopOf(c, cached)
  /\ UNCHANGED <<loopOf, calls, has, lock, handed, lockedIn, created, thread, event, exitVars, torn>>

\* The join, in a thread of its own, has no timeout.
Join(t) ==
  LET f == task[t].logger
  IN  /\ exit # "over" /\ task[t].at = "joining"
      /\ thread[task[t].thread].at = "ended"
      /\ logger' = [logger EXCEPT ![f].loop = None, ![f].thread = None]
      /\ torn' = IF Live(f) # {} THEN torn \cup {f} ELSE torn
      /\ task' = [task EXCEPT ![t].at = "counting"]
      /\ UNCHANGED <<loopOf, calls, has, cacheVars, created, thread, event, exitVars>>

\* What is left in the queue is dropped.
Count(t) ==
  LET f == task[t].logger
  IN  /\ exit # "over" /\ task[t].at = "counting"
      /\ event' = [e \in Events |->
                    IF e \in Queue(f) THEN [event[e] EXCEPT !.at = "dropped"] ELSE event[e]]
      /\ task' = [task EXCEPT ![t].at = "cleaning"]
      /\ UNCHANGED <<loopOf, calls, has, cacheVars, created, logger, thread, exitVars, torn>>

\* Back on the task's loop: the plugins are stopped, and _cleanup_resources()
\* forgets the worker tasks.  A call of get_async_logger() returns with it.
Cleanup(c) ==
  /\ Free(c) /\ task[c].at = "cleaning"
  /\ logger' = [logger EXCEPT ![task[c].logger].tasks = {}]
  /\ task' = [task EXCEPT ![c] = Idle]
  /\ IF lock = c
       THEN /\ lock' = None
            /\ has' = [has EXCEPT ![c] = cached]
            /\ handed' = handed \cup {[clears |-> clears, logger |-> cached]}
       ELSE UNCHANGED <<lock, has, handed>>
  /\ UNCHANGED <<loopOf, calls, cached, clears, lockedIn, created, thread, event, exitVars, torn>>

-----------------------------------------------------------------------------
(* The threads *)

\* A thread makes its loop the logger's and its workers' tasks too ...
Begin(g) ==
  LET f == thread[g].logger
  IN  /\ exit # "over" /\ thread[g].at = "new"
      /\ thread' = [thread EXCEPT ![g].at = "gathering"]
      /\ logger' = [logger EXCEPT ![f].loop = g, ![f].tasks = @ \cup {g}]
      /\ UNCHANGED <<loopOf, calls, task, has, cacheVars, created, event, exitVars, torn>>

\* ... and gathers all tasks the logger has: gather() refuses those of another
\* loop, which ends the thread.
Gather(g) ==
  /\ exit # "over" /\ thread[g].at = "gathering"
  /\ thread' = [thread EXCEPT ![g].at =
                  IF logger[thread[g].logger].tasks = {g} THEN "running" ELSE "ended"]
  /\ UNCHANGED <<loopOf, calls, task, has, cacheVars, created, logger, event, exitVars, torn>>

Processed(f) ==
  [e \in Events |-> IF e \in Queue(f) THEN [event[e] EXCEPT !.at = "processed"] ELSE event[e]]

Process(g) ==
  LET f == thread[g].logger
  IN  /\ exit # "over" /\ thread[g].at = "running" /\ Queue(f) # {}
      /\ event' = Processed(f)
      /\ UNCHANGED <<loopOf, calls, task, has, cacheVars, created, logger, thread, exitVars, torn>>

\* Asked to stop, its workers process the rest.
Finish(g) ==
  LET f == thread[g].logger
  IN  /\ exit # "over" /\ thread[g].at = "running" /\ logger[f].stop
      /\ event' = Processed(f)
      /\ thread' = [thread EXCEPT ![g].at = "ended"]
      /\ UNCHANGED <<loopOf, calls, task, has, cacheVars, created, logger, exitVars, torn>>

-----------------------------------------------------------------------------
(* The end of the process *)

\* Mutant: only the logger that is cached.
CachedOnly == {cached} \ {None}

\* _registered_loggers.
Registered == 1 .. created

\* _atexit_handler().
Exits(shutting) ==
  /\ exit = "no"
  /\ exit' = "draining" /\ shut' = shutting
  /\ left' = Registered
  /\ inTime' = {e \in Events : LET f == event[e].logger
                              IN  /\ event[e].at = "queued"
                                  /\ logger[f].loop # None /\ ~logger[f].stop}
  /\ UNCHANGED <<loopOf, calls, task, has, cacheVars, created, logger, thread, event, torn>>

\* A signal pauses the main loop, wherever its tasks are.
Signal == Exits(FALSE)

\* The interpreter calls its exit handlers when no call goes on: other threads and
\* those of executors have been waited for, tasks been cancelled at an await.
InterpreterExits ==
  /\ \A c \in Callers : task[c].at \in {"idle", "building", "cleaning"}
  /\ Exits(TRUE)

BeginExit == Signal \/ InterpreterExits


\* _drain_single_logger() ...
ExitDrains(f) ==
  /\ exit = "draining" /\ ~shut /\ task[Main] = Idle /\ f \in left
  /\ left' = left \ {f}
  /\ StopOf(Main, f)
  /\ UNCHANGED <<loopOf, calls, has, cacheVars, created, thread, event, exit, shut, inTime, torn>>

\* ... which does nothing once to_thread() and the executor it tries next are
\* refused a thread: both errors are swallowed, the logger is not asked to stop.
ExitRefuses ==
  /\ exit = "draining" /\ shut
  /\ \E f \in left : left' = left \ {f}
  /\ UNCHANGED <<loopOf, calls, task, has, cacheVars, created, logger, thread, event, exit, shut,
                 inTime, torn>>

\* A drain that took longer than its timeout, which does not shorten the join,
\* is not cleaned up after.
ExitCleansUp ==
  /\ exit = "draining" /\ task[Main].at = "cleaning"
  /\ logger' \in {logger, [logger EXCEPT ![task[Main].logger].tasks = {}]}
  /\ task' = [task EXCEPT ![Main] = Idle]
  /\ UNCHANGED <<loopOf, calls, has, cacheVars, created, thread, event, exitVars, torn>>

EndExit ==
  /\ exit = "draining" /\ task[Main] = Idle /\ left = {}
  /\ exit' = "over"
  /\ UNCHANGED <<loopOf, calls, task, has, cacheVars, created, logger, thread, event, shut, left,
                 inTime, torn>>

Proceed(c) ==
  \/ TakeHit(c) \/ Build(c) \/ Insert(c) \/ Lose(c)
  \/ StartAgain(c) \/ StartReturns(c) \/ Enqueue(c) \/ Clear(c) \/ Cleanup(c)

Drains(t) == Join(t) \/ Count(t)

ExitStep == (\E f \in Loggers : ExitDrains(f)) \/ ExitRefuses \/ ExitCleansUp \/ EndExit

Next ==
  \/ \E c \in Callers : Proceed(c) \/ Hit(c) \/ Miss(c) \/ Drain(c) \/ BeginClear(c)
  \/ \E c \in Callers, e \in Events : Call(c, e)
  \/ \E t \in Tasks : Drains(t)
  \/ \E g \in Threads : Begin(g) \/ Gather(g) \/ Process(g) \/ Finish(g)
  \/ BeginExit \/ ExitStep

Spec == Init /\ [][Next]_vars

\* Loops run their ready tasks, threads run, the exit goes on.
Fairness ==
  /\ \A c \in Callers : WF_vars(Proceed(c))
  /\ \A t \in Tasks : WF_vars(Drains(t))
  /\ \A g \in Threads : WF_vars(Begin(g) \/ Gather(g))
  /\ WF_vars(ExitStep)

FairSpec == Spec /\ Fairness

\* Every write of a sink ends, which nothing in the code sees to.
SinksAnswer == \A g \in Threads : WF_vars(Finish(g))

-----------------------------------------------------------------------------
TypeOK ==
  /\ loopOf \in Placements
  /\ task \in [Tasks -> [at : {"idle", "hit", "building", "locking", "clearing", "starting",
                               "waiting", "enqueueing", "joining", "counting", "cleaning"},
                         logger : Loggers \cup {None}, thread : Threads \cup {None},
                         event : Events \cup {NoEvent}]]
  /\ has \in [Callers -> Loggers \cup {None}]
  /\ lock \in Callers \cup {None} /\ cached \in Loggers \cup {None}
  /\ created \in 0 .. MaxCalls /\ clears \in 0 .. MaxCalls
  /\ calls \in 0 .. MaxCalls
  /\ logger \in [Loggers -> [loop : Threads \cup {None}, thread : Threads \cup {None},
                             stop : BOOLEAN, tasks : SUBSET Threads]]
  /\ thread \in [Threads -> [at : {"none", "new", "gathering", "running", "ended"},
                             logger : Loggers \cup {None}]]
  /\ event \in [Events -> [at : {"new", "carried", "queued", "processed", "dropped"},
                           logger : Loggers \cup {None}]]
  /\ exit \in {"no", "draining", "over"} /\ shut \in BOOLEAN /\ left \subseteq Loggers
  /\ inTime \subseteq Events /\ torn \subseteq Loggers /\ lockedIn \in BOOLEAN
  /\ handed \subseteq [clears : 0 .. MaxCalls, logger : Loggers]

(***************************************************************************)
(* One name, one logger: between two clears all callers are handed the     *)
(* same logger, though the fast path and the creation take no lock.        *)
(***************************************************************************)
SameInstance ==
  \A h, k \in handed : h.clears = k.clears => h.logger = k.logger

(***************************************************************************)
(* A logger that lost the race for the cache does not go on running: once  *)
(* no caller handles a logger that never was handed out, none of its       *)
(* threads lives.                                                          *)
(***************************************************************************)
LosersEnd ==
  torn = {} =>
    \A f \in 1 .. created :
      (\A h \in handed : h.logger # f) /\ (\A t \in Tasks : task[t].logger # f)
        => Live(f) = {}

(***************************************************************************)
(* Everything that was queued when a signal arrived, in a logger that ran  *)
(* and that nobody had drained since its start, has been processed when    *)
(* the process ends, whatever the logger's past - cached, drained and      *)
(* started again, cleared - if no start came in the way of another or of a *)
(* drain.                                                                  *)
(***************************************************************************)
SignalProcesses ==
  torn = {} /\ exit = "over" /\ ~shut => \A e \in inTime : event[e].at = "processed"

(***************************************************************************)
(* If sinks answer, calls return, unless a task that lost the race awaits  *)
(* its drain with the lock held: another task of its loop that wants the   *)
(* lock then blocks the loop, and the two wait for each other for ever.    *)
(***************************************************************************)
EveryCallReturns ==
  SinksAnswer /\ []~lockedIn /\ [](torn = {}) =>
    \A c \in Callers : (task[c] # Idle) ~> (task[c] = Idle \/ exit # "no")

=============================================================================
