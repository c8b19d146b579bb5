--------------------------- MODULE LifecycleProofs ---------------------------
(***************************************************************************)
(* One logger for a name, none that lost the race left running, and a      *)
(* drain at exit that processes what was in time: proved for any callers,  *)
(* loops and placements and any number of events and calls.  The types     *)
(* rest on Budget, the cache on Current, the threads and the exit on       *)
(* Orderly, the losers on Attended.                                        *)
(***************************************************************************)
EXTENDS LoggerLifecycle, FiniteSetTheorems, TLAPS

(***************************************************************************)
(* What a task has in hand: a logger, from the start() of it to the end of *)
(* the call.                                                               *)
(***************************************************************************)
Handled(r) ==
  /\ r = [at |-> r.at, logger |-> r.logger, thread |-> r.thread, event |-> r.event]
  /\ r.logger \in Nat
  /\ r.at \in {"idle", "hit", "building", "clearing"} \/ r.logger # None

Handling ==
  /\ task = [t \in Tasks |-> task[t]]
  /\ \A t \in Tasks : Handled(task[t])
  /\ created \in Nat
  /\ cached \in Nat
  /\ has \in [Callers -> Nat]

(***************************************************************************)
(* The cache: who holds the lock found a logger in it, and what was handed *)
(* out since the last clear is what is in it.                              *)
(***************************************************************************)
Current ==
  /\ clears \in Nat
  /\ lock # None => cached # None
  /\ \A h \in handed : h.clears \in Nat /\ h.clears <= clears
  /\ \A h \in handed : h.clears = clears => cached # None /\ h.logger = cached

CacheInv == Handling /\ Current /\ SameInstance

-----------------------------------------------------------------------------
(* The changes of the cache *)

LEMMA HandOut ==
  ASSUME Current, SameInstance, UNCHANGED clears,
         handed' = handed \cup {[clears |-> clears, logger |-> cached']},
         cached' # None, cached = None \/ UNCHANGED cached
  PROVE  Current' /\ SameInstance'
<1> DEFINE new == [clears |-> clears, logger |-> cached']
<1>1. new.clears = clears /\ new.logger = cached'
  OBVIOUS
<1>2. \A h \in handed : h.clears = clears => h.logger = cached'
  BY DEF Current
<1>3. handed' = handed \cup {new}
  OBVIOUS
<1> HIDE DEF new
<1>4. Current'
  BY <1>1, <1>2, <1>3 DEF Current
<1>5. SameInstance'
  BY <1>1, <1>2, <1>3 DEF SameInstance
<1> QED BY <1>4, <1>5

LEMMA Cleared ==
  ASSUME Current, SameInstance, clears' = clears + 1, UNCHANGED <<handed, lock>>, lock = None
  PROVE  Current' /\ SameInstance'
<1>1. \A h \in handed : h.clears \in Nat /\ h.clears < clears'
  BY DEF Current
<1>2. clears' \in Nat
  BY DEF Current
<1>3. \A h \in handed : h.clears \in Nat /\ h.clears <= clears' /\ h.clears # clears'
  BY <1>1, <1>2
<1> QED BY <1>2, <1>3 DEF Current, SameInstance

-----------------------------------------------------------------------------
(* The changes of a task *)

LEMMA TaskSet ==
  ASSUME Handling, NEW t \in Tasks, NEW r, Handled(r), task' = [task EXCEPT ![t] = r]
  PROVE  task' = [u \in Tasks |-> task'[u]] /\ \A u \in Tasks : Handled(task'[u])
<1> DEFINE value == [u \in Tasks |-> IF u = t THEN r ELSE task[u]]
<1>1. task' = value
  BY DEF Handling
<1>2. \A u \in Tasks : Handled(value[u])
  BY DEF Handling
<1>3. value = [u \in Tasks |-> value[u]]
  OBVIOUS
<1> HIDE DEF value
<1> QED BY <1>1, <1>2, <1>3

LEMMA IdleHandled == Handled(Idle)
BY DEF Handled, Idle, None

LEMMA StopRecord ==
  \A f, a, g :
    [Idle EXCEPT !.logger = f, !.at = a, !.thread = g]
      = [at |-> a, logger |-> f, thread |-> g, event |-> NoEvent]
<1> TAKE f, a, g
<1> DEFINE r1 == [Idle EXCEPT !.logger = f]
           r2 == [r1 EXCEPT !.at = a]
           r3 == [r2 EXCEPT !.thread = g]
<1>1. r1 = [at |-> "idle", logger |-> f, thread |-> None, event |-> NoEvent]
  BY DEF Idle
<1>2. r2 = [at |-> a, logger |-> f, thread |-> None, event |-> NoEvent]
  <2> HIDE DEF r1
  <2> QED BY <1>1
<1>3. r3 = [at |-> a, logger |-> f, thread |-> g, event |-> NoEvent]
  <2> HIDE DEF r2
  <2> QED BY <1>2
<1> QED BY <1>3, Zenon

LEMMA CallRecord ==
  \A f, e, a :
    [Idle EXCEPT !.logger = f, !.event = e, !.at = a]
      = [at |-> a, logger |-> f, thread |-> None, event |-> e]
<1> TAKE f, e, a
<1> DEFINE r1 == [Idle EXCEPT !.logger = f]
           r2 == [r1 EXCEPT !.event = e]
           r3 == [r2 EXCEPT !.at = a]
<1>1. r1 = [at |-> "idle", logger |-> f, thread |-> None, event |-> NoEvent]
  BY DEF Idle
<1>2. r2 = [at |-> "idle", logger |-> f, thread |-> None, event |-> e]
  <2> HIDE DEF r1
  <2> QED BY <1>1
<1>3. r3 = [at |-> a, logger |-> f, thread |-> None, event |-> e]
  <2> HIDE DEF r2
  <2> QED BY <1>2
<1> QED BY <1>3, Zenon

LEMMA BuildRecord ==
  ASSUME NEW r, Handled(r), NEW f, NEW a
  PROVE  [r EXCEPT !.at = a, !.logger = f]
           = [at |-> a, logger |-> f, thread |-> r.thread, event |-> r.event]
<1> DEFINE r1 == [r EXCEPT !.at = a]
           r2 == [r1 EXCEPT !.logger = f]
<1>1. r1 = [at |-> a, logger |-> r.logger, thread |-> r.thread, event |-> r.event]
  BY DEF Handled
<1>2. r2 = [at |-> a, logger |-> f, thread |-> r.thread, event |-> r.event]
  <2> HIDE DEF r1
  <2> QED BY <1>1
<1> QED BY <1>2, Zenon

LEMMA Moved ==
  ASSUME NEW r, Handled(r), NEW at,
         at \in {"idle", "hit", "building", "clearing"} \/ r.logger # None
  PROVE  Handled([r EXCEPT !.at = at])
<1>1. [r EXCEPT !.at = at] =
        [at |-> at, logger |-> r.logger, thread |-> r.thread, event |-> r.event]
  BY DEF Handled
<1>2. r.logger \in Nat
  BY DEF Handled
<1> QED BY <1>1, <1>2 DEF Handled

LEMMA Stops ==
  ASSUME Handling, NEW t \in Tasks, NEW f \in Nat \ {None}, StopOf(t, f)
  PROVE  task' = [u \in Tasks |-> task'[u]] /\ \A u \in Tasks : Handled(task'[u])
<1> DEFINE at == IF logger[f].loop # None /\ logger[f].thread # None
                 THEN "joining" ELSE "counting"
           g == logger[f].thread
           r == [Idle EXCEPT !.logger = f, !.at = at, !.thread = g]
<1>1. task' = [task EXCEPT ![t] = r]
  BY DEF StopOf
<1>2. r = [at |-> at, logger |-> f, thread |-> g, event |-> NoEvent]
  <2> HIDE DEF at, g
  <2>1. \A a, h : [Idle EXCEPT !.logger = f, !.at = a, !.thread = h]
                    = [at |-> a, logger |-> f, thread |-> h, event |-> NoEvent]
    BY StopRecord
  <2> QED BY <2>1, Zenon
<1>3. Handled(r)
  <2> HIDE DEF r, at, g
  <2> QED BY <1>2 DEF Handled
<1> HIDE DEF r
<1> QED BY <1>1, <1>3, TaskSet
-----------------------------------------------------------------------------
(* The steps *)

\* The tasks of the invariant, as one fact.
TasksHandled ==
  task = [t \in Tasks |-> task[t]] /\ \A t \in Tasks : Handled(task[t])

LEMMA Sets ==
  ASSUME Handling, NEW t \in Tasks, NEW r, Handled(r), task' = [task EXCEPT ![t] = r]
  PROVE  TasksHandled'
BY TaskSet DEF TasksHandled

LEMMA MovedTo ==
  ASSUME Handling, NEW t \in Tasks, NEW at,
         at \in {"idle", "hit", "building", "clearing"} \/ task[t].logger # None,
         task' = [task EXCEPT ![t].at = at]
  PROVE  TasksHandled'
<1> DEFINE r == [task[t] EXCEPT !.at = at]
<1>1. task' = [task EXCEPT ![t] = r]
  OBVIOUS
<1>2. Handled(task[t])
  BY DEF Handling
<1>3. Handled(r)
  BY <1>2, Moved
<1> HIDE DEF r
<1> QED BY <1>1, <1>3, Sets

LEMMA StopsHandled ==
  ASSUME Handling, NEW t \in Tasks, NEW f \in Nat \ {None}, StopOf(t, f)
  PROVE  TasksHandled'
BY Stops DEF TasksHandled

LEMMA SetsIdle ==
  ASSUME Handling, NEW t \in Tasks, task' = [task EXCEPT ![t] = Idle]
  PROVE  TasksHandled'
BY Sets, IdleHandled

\* What a task past the start of a call has in hand.
LEMMA InHand ==
  ASSUME Handling, NEW t \in Tasks, task[t].at \notin {"idle", "hit", "building", "clearing"}
  PROVE  task[t].logger \in Nat \ {None}
BY DEF Handling, Handled

LEMMA ProceedHandles ==
  ASSUME CacheInv, NEW c \in Callers, Proceed(c)
  PROVE  Handling'
<1> USE DEF CacheInv
<1>0. c \in Tasks /\ Handling
  BY DEF Tasks
<1>1. CASE TakeHit(c)
  <2>1. TasksHandled'
    BY <1>0, <1>1, SetsIdle DEF TakeHit
  <2> QED BY <1>0, <1>1, <2>1 DEF TakeHit, Handling, TasksHandled
<1>2. CASE Build(c)
  <2> DEFINE f == created + 1
             r == [task[c] EXCEPT !.at = "waiting", !.logger = f]
  <2>1. task' = [task EXCEPT ![c] = r]
    BY <1>2 DEF Build
  <2>2. f \in Nat \ {None}
    BY <1>0 DEF Handling, None
  <2>3. Handled(r)
    <3> HIDE DEF f
    <3>1. Handled(task[c])
      BY <1>0 DEF Handling
    <3>2. r = [at |-> "waiting", logger |-> f, thread |-> task[c].thread,
               event |-> task[c].event]
      BY <3>1, BuildRecord
    <3> HIDE DEF r
    <3> QED BY <2>2, <3>2 DEF Handled
  <2>4. TasksHandled'
    <3> HIDE DEF r
    <3> QED BY <1>0, <2>1, <2>3, Sets
  <2> QED BY <1>0, <1>2, <2>2, <2>4 DEF Build, Handling, TasksHandled, cacheVars
<1>3. CASE Insert(c)
  <2>1. TasksHandled'
    BY <1>0, <1>3, SetsIdle DEF Insert
  <2>2. task[c].logger \in Nat
    BY <1>0, <1>3, InHand DEF Insert
  <2> QED BY <1>0, <1>3, <2>1, <2>2 DEF Insert, Handling, TasksHandled
<1>4. CASE Lose(c)
  <2>1. task[c].logger \in Nat \ {None}
    BY <1>0, <1>4, InHand DEF Lose
  <2>2. TasksHandled'
    BY <1>0, <1>4, <2>1, StopsHandled DEF Lose
  <2> QED BY <1>0, <1>4, <2>2 DEF Lose, Handling, TasksHandled
<1>5. CASE StartAgain(c)
  <2>1. task[c].logger # None
    BY <1>0, <1>5, InHand DEF StartAgain
  <2>2. TasksHandled'
    BY <1>0, <1>5, <2>1, MovedTo DEF StartAgain
  <2> QED BY <1>0, <1>5, <2>2 DEF StartAgain, Handling, TasksHandled, cacheVars
<1>6. CASE StartReturns(c)
  <2>1. task[c].logger # None
    BY <1>0, <1>6, InHand DEF StartReturns
  <2>2. TasksHandled'
    BY <1>0, <1>6, <2>1, MovedTo DEF StartReturns
  <2> QED BY <1>0, <1>6, <2>2 DEF StartReturns, Handling, TasksHandled, cacheVars
<1>7. CASE Enqueue(c)
  <2>1. TasksHandled'
    BY <1>0, <1>7, SetsIdle DEF Enqueue
  <2> QED BY <1>0, <1>7, <2>1 DEF Enqueue, Handling, TasksHandled, cacheVars
<1>8. CASE Clear(c)
  <2>1. TasksHandled'
    <3>1. CASE cached = None
      BY <1>0, <1>8, <3>1, SetsIdle DEF Clear
    <3>2. CASE cached # None
      <4>1. cached \in Nat \ {None}
        BY <1>0, <3>2 DEF Handling
      <4> QED BY <1>0, <1>8, <3>2, <4>1, StopsHandled DEF Clear
    <3> QED BY <3>1, <3>2
  <2> QED BY <1>0, <1>8, <2>1 DEF Clear, Handling, TasksHandled, None
<1>9. CASE Cleanup(c)
  <2>1. TasksHandled'
    BY <1>0, <1>9, SetsIdle DEF Cleanup
  <2> QED BY <1>0, <1>9, <2>1 DEF Cleanup, Handling, TasksHandled
<1> QED BY <1>1, <1>2, <1>3, <1>4, <1>5, <1>6, <1>7, <1>8, <1>9 DEF Proceed

LEMMA CallsHandle ==
  ASSUME Handling, NEW c \in Callers, Hit(c) \/ Miss(c) \/ Drain(c) \/ BeginClear(c)
  PROVE  Handling'
<1>0. c \in Tasks
  BY DEF Tasks
<1>1. CASE Hit(c)
  <2>1. TasksHandled'
    BY <1>0, <1>1, MovedTo DEF Hit
  <2> QED BY <1>1, <2>1 DEF Hit, Handling, TasksHandled, cacheVars
<1>2. CASE Miss(c)
  <2>1. TasksHandled'
    BY <1>0, <1>2, MovedTo DEF Miss
  <2> QED BY <1>2, <2>1 DEF Miss, Handling, TasksHandled, cacheVars
<1>3. CASE Drain(c)
  <2>1. has[c] \in Nat \ {None}
    BY <1>3 DEF Drain, Handling
  <2>2. TasksHandled'
    BY <1>0, <1>3, <2>1, StopsHandled DEF Drain
  <2> QED BY <1>3, <2>2 DEF Drain, Handling, TasksHandled, cacheVars
<1>4. CASE BeginClear(c)
  <2>1. TasksHandled'
    BY <1>0, <1>4, MovedTo DEF BeginClear
  <2> QED BY <1>4, <2>1 DEF BeginClear, Handling, TasksHandled, cacheVars
<1> QED BY <1>1, <1>2, <1>3, <1>4

LEMMA CallHandles ==
  ASSUME Handling, NEW c \in Callers, NEW e \in Events, Call(c, e)
  PROVE  Handling'
<1> DEFINE f == has[c]
           at == IF logger[f].loop = None THEN "starting" ELSE "enqueueing"
           r == [Idle EXCEPT !.logger = f, !.event = e, !.at = at]
<1>0. c \in Tasks
  BY DEF Tasks
<1>1. f \in Nat \ {None}
  BY DEF Call, Handling
<1>2. task' = [task EXCEPT ![c] = r]
  BY DEF Call
<1>3. Handled(r)
  <2> HIDE DEF at, f
  <2>1. r = [at |-> at, logger |-> f, thread |-> None, event |-> e]
    BY CallRecord, Zenon
  <2> HIDE DEF r
  <2> QED BY <1>1, <2>1 DEF Handled
<1>4. TasksHandled'
  <2> HIDE DEF r, f
  <2> QED BY <1>0, <1>2, <1>3, Sets
<1> QED BY <1>4 DEF Call, Handling, TasksHandled, cacheVars

LEMMA OthersHandle ==
  ASSUME Handling,
         \/ \E t \in Tasks : Drains(t)
         \/ \E g \in Threads : Begin(g) \/ Gather(g) \/ Process(g) \/ Finish(g)
         \/ BeginExit \/ ExitStep
  PROVE  Handling'
<1>0. Main \in Tasks
  BY DEF Tasks
<1>1. ASSUME TasksHandled', UNCHANGED <<created, cached, has>>
      PROVE  Handling'
  BY <1>1 DEF Handling, TasksHandled
<1>2. ASSUME UNCHANGED <<task, created, cached, has>>
      PROVE  Handling'
  BY <1>2 DEF Handling
<1>3. ASSUME NEW t \in Tasks, Drains(t)
      PROVE  Handling'
  <2>1. CASE Join(t)
    <3>1. task[t].logger # None
      BY <2>1, InHand DEF Join
    <3>2. TasksHandled'
      BY <2>1, <3>1, MovedTo DEF Join
    <3> QED BY <1>1, <2>1, <3>2 DEF Join, cacheVars
  <2>2. CASE Count(t)
    <3>1. task[t].logger # None
      BY <2>2, InHand DEF Count
    <3>2. TasksHandled'
      BY <2>2, <3>1, MovedTo DEF Count
    <3> QED BY <1>1, <2>2, <3>2 DEF Count, cacheVars
  <2> QED BY <1>3, <2>1, <2>2 DEF Drains
<1>4. ASSUME NEW g \in Threads, Begin(g) \/ Gather(g) \/ Process(g) \/ Finish(g)
      PROVE  Handling'
  BY <1>2, <1>4 DEF Begin, Gather, Process, Finish, cacheVars
<1>5. CASE BeginExit
  BY <1>2, <1>5 DEF BeginExit, Signal, InterpreterExits, Exits, cacheVars
<1>6. ASSUME NEW f \in Loggers, ExitDrains(f)
      PROVE  Handling'
  <2>1. f \in Nat \ {None}
    BY LifecycleAssumption DEF Loggers, None
  <2>2. TasksHandled'
    BY <1>0, <1>6, <2>1, StopsHandled DEF ExitDrains
  <2> QED BY <1>1, <1>6, <2>2 DEF ExitDrains, cacheVars
<1>7. CASE ExitCleansUp
  <2>1. TasksHandled'
    BY <1>0, <1>7, SetsIdle DEF ExitCleansUp
  <2> QED BY <1>1, <1>7, <2>1 DEF ExitCleansUp, cacheVars
<1>8. CASE ExitRefuses \/ EndExit
  BY <1>2, <1>8 DEF ExitRefuses, EndExit, cacheVars
<1> QED BY <1>3, <1>4, <1>5, <1>6, <1>7, <1>8 DEF ExitStep

LEMMA HandlingStep ==
  ASSUME CacheInv, Next
  PROVE  Handling'
<1>1. Handling
  BY DEF CacheInv
<1> QED BY <1>1, ProceedHandles, CallsHandle, CallHandles, OthersHandle DEF Next

-----------------------------------------------------------------------------
(* What a step does to the cache *)

LEMMA SameCache ==
  ASSUME Current, SameInstance, UNCHANGED cacheVars
  PROVE  Current' /\ SameInstance'
BY DEF Current, SameInstance, cacheVars

LEMMA CacheChanges ==
  ASSUME CacheInv, NEW c \in Callers, TakeHit(c) \/ Insert(c) \/ Lose(c) \/ Clear(c) \/ Cleanup(c)
  PROVE  Current' /\ SameInstance'
<1>0. c \in Tasks /\ Handling /\ Current /\ SameInstance /\ c # None
  BY LifecycleAssumption DEF Tasks, CacheInv, None
<1>1. CASE TakeHit(c)
  <2>1. CASE cached = None
    BY <1>0, <1>1, <2>1, SameCache DEF TakeHit, cacheVars
  <2>2. CASE cached # None
    BY <1>0, <1>1, <2>2, HandOut DEF TakeHit
  <2> QED BY <2>1, <2>2
<1>2. CASE Insert(c)
  <2>1. task[c].logger # None
    BY <1>0, <1>2, InHand DEF Insert
  <2> QED BY <1>0, <1>2, <2>1, HandOut DEF Insert, FirstToLock
<1>3. CASE Lose(c)
  BY <1>0, <1>3 DEF Lose, Current, SameInstance
<1>4. CASE Clear(c)
  BY <1>0, <1>4, Cleared DEF Clear
<1>5. CASE Cleanup(c)
  <2>1. CASE lock = c
    <3>1. cached # None
      BY <1>0, <2>1 DEF Current
    <3> QED BY <1>0, <1>5, <2>1, <3>1, HandOut DEF Cleanup
  <2>2. CASE lock # c
    BY <1>0, <1>5, <2>2, SameCache DEF Cleanup, cacheVars
  <2> QED BY <2>1, <2>2
<1> QED BY <1>1, <1>2, <1>3, <1>4, <1>5

LEMMA CacheStep ==
  ASSUME CacheInv, Next
  PROVE  Current' /\ SameInstance'
<1>0. Current /\ SameInstance
  BY DEF CacheInv
<1>1. ASSUME NEW c \in Callers, Proceed(c)
      PROVE  Current' /\ SameInstance'
  <2>1. CASE Build(c) \/ StartAgain(c) \/ StartReturns(c) \/ Enqueue(c)
    BY <1>0, <2>1, SameCache DEF Build, StartAgain, StartReturns, Enqueue
  <2> QED BY <1>1, <2>1, CacheChanges DEF Proceed
<1>2. ASSUME NEW c \in Callers, Hit(c) \/ Miss(c) \/ Drain(c) \/ BeginClear(c)
      PROVE  Current' /\ SameInstance'
  BY <1>0, <1>2, SameCache DEF Hit, Miss, Drain, BeginClear
<1>3. ASSUME NEW c \in Callers, NEW e \in Events, Call(c, e)
      PROVE  Current' /\ SameInstance'
  BY <1>0, <1>3, SameCache DEF Call
<1>4. ASSUME NEW t \in Tasks, Drains(t)
      PROVE  Current' /\ SameInstance'
  BY <1>0, <1>4, SameCache DEF Drains, Join, Count
<1>5. ASSUME NEW g \in Threads, Begin(g) \/ Gather(g) \/ Process(g) \/ Finish(g)
      PROVE  Current' /\ SameInstance'
  BY <1>0, <1>5, SameCache DEF Begin, Gather, Process, Finish
<1>6. CASE BeginExit \/ ExitStep
  BY <1>0, <1>6, SameCache DEF BeginExit, Signal, InterpreterExits, Exits,
     ExitStep, ExitDrains, ExitCleansUp, ExitRefuses, EndExit
<1> QED BY <1>1, <1>2, <1>3, <1>4, <1>5, <1>6 DEF Next

-----------------------------------------------------------------------------

LEMMA CacheInitially == Init => CacheInv
<1> SUFFICES ASSUME Init PROVE CacheInv
  OBVIOUS
<1>1. task = [t \in Tasks |-> Idle] /\ task = [t \in Tasks |-> task[t]]
  BY DEF Init
<1>2. \A t \in Tasks : Handled(task[t])
  BY <1>1, IdleHandled
<1>3. Handling
  BY <1>1, <1>2 DEF Handling, Init, None
<1> QED BY <1>3 DEF CacheInv, Current, SameInstance, Init

(***************************************************************************)
(* One name, one logger: callers that were handed a logger between the     *)
(* same two clears of the cache were handed the same one, although the     *)
(* fast path of get_async_logger() reads the cache without its lock.       *)
(***************************************************************************)
THEOREM OneLogger == Spec => []SameInstance
<1>1. CacheInv /\ [Next]_vars => CacheInv'
  <2> SUFFICES ASSUME CacheInv, [Next]_vars PROVE CacheInv'
    OBVIOUS
  <2>1. CASE Next
    BY <2>1, HandlingStep, CacheStep DEF CacheInv
  <2>2. CASE UNCHANGED vars
    BY <2>2 DEF CacheInv, Handling, Current, SameInstance, vars, cacheVars
  <2> QED BY <2>1, <2>2
<1>2. CacheInv => SameInstance
  BY DEF CacheInv
<1> QED BY <1>1, <1>2, CacheInitially, PTL DEF Spec

-----------------------------------------------------------------------------
(* The types, and what an action does to the task that takes it.           *)

TaskStates == {"idle", "hit", "building", "locking", "clearing", "starting", "waiting",
               "enqueueing", "joining", "counting", "cleaning"}

TaskState == [at : TaskStates, logger : Loggers \cup {None}, thread : Threads \cup {None},
              event : Events \cup {NoEvent}]

LoggerState == [loop : Threads \cup {None}, thread : Threads \cup {None},
                stop : BOOLEAN, tasks : SUBSET Threads]

ThreadState == [at : {"none", "new", "gathering", "running", "ended"},
                logger : Loggers \cup {None}]

EventState == [at : {"new", "carried", "queued", "processed", "dropped"},
               logger : Loggers \cup {None}]

LEMMA TypeParts ==
  ASSUME TypeOK
  PROVE  /\ task \in [Tasks -> TaskState] /\ logger \in [Loggers -> LoggerState]
         /\ thread \in [Threads -> ThreadState] /\ event \in [Events -> EventState]
         /\ has \in [Callers -> Loggers \cup {None}] /\ cached \in Loggers \cup {None}
         /\ lock \in Callers \cup {None} /\ Main \in Tasks /\ Callers \subseteq Tasks
         /\ created \in Nat /\ clears \in Nat /\ calls \in Nat /\ calls <= MaxCalls
         /\ MaxCalls \in Nat /\ None \notin Loggers /\ None \notin Threads
         /\ \A n : n \in Loggers <=> n \in Nat /\ n # None /\ n <= MaxCalls
         /\ \A n : n \in Threads <=> n \in Nat /\ n # None /\ n <= MaxCalls
  BY LifecycleAssumption
     DEF TypeOK, TaskState, TaskStates, LoggerState, ThreadState, EventState, Tasks, Loggers,
         Threads, None

LEMMA TypeKept ==
  ASSUME task' \in [Tasks -> TaskState], logger' \in [Loggers -> LoggerState],
         thread' \in [Threads -> ThreadState], event' \in [Events -> EventState],
         has' \in [Callers -> Loggers \cup {None}], cached' \in Loggers \cup {None},
         lock' \in Callers \cup {None},
         handed' \subseteq [clears : 0 .. MaxCalls, logger : Loggers],
         created' \in 0 .. MaxCalls, clears' \in 0 .. MaxCalls, calls' \in 0 .. MaxCalls,
         exit' \in {"no", "draining", "over"}, shut' \in BOOLEAN,
         left' \subseteq Loggers, inTime' \subseteq Events,
         torn' \subseteq Loggers, lockedIn' \in BOOLEAN, loopOf' \in Placements
  PROVE  TypeOK'
  BY DEF TypeOK, TaskState, TaskStates, LoggerState, ThreadState, EventState

\* Task t comes to be in this state, and no other task moves.
Becomes(t, a, f, g, e) ==
  /\ \A u \in Tasks : u # t => task'[u] = task[u]
  /\ task'[t] = [at |-> a, logger |-> f, thread |-> g, event |-> e]

LEMMA Set ==
  ASSUME TypeOK, NEW t \in Tasks, NEW a \in TaskStates, NEW f \in Loggers \cup {None},
         NEW g \in Threads \cup {None}, NEW e \in Events \cup {NoEvent},
         task' = [task EXCEPT ![t] = [at |-> a, logger |-> f, thread |-> g, event |-> e]]
  PROVE  Becomes(t, a, f, g, e) /\ task' \in [Tasks -> TaskState]
<1> DEFINE r == [at |-> a, logger |-> f, thread |-> g, event |-> e]
<1>1. r \in TaskState
  BY DEF TaskState
<1>2. task' = [task EXCEPT ![t] = r] /\ task \in [Tasks -> TaskState]
  BY TypeParts
<1> HIDE DEF r
<1>3. task' \in [Tasks -> TaskState] /\ task'[t] = r /\ \A u \in Tasks : u # t => task'[u] = task[u]
  BY <1>1, <1>2
<1> QED
  BY <1>3 DEF Becomes, r

LEMMA SetAt ==
  ASSUME TypeOK, NEW t \in Tasks, NEW a \in TaskStates, task' = [task EXCEPT ![t].at = a]
  PROVE  /\ Becomes(t, a, task[t].logger, task[t].thread, task[t].event)
         /\ task' \in [Tasks -> TaskState]
<1> DEFINE r == [task[t] EXCEPT !.at = a]
<1>1. task[t] \in TaskState
  BY TypeParts
<1>2. /\ r = [at |-> a, logger |-> task[t].logger, thread |-> task[t].thread,
              event |-> task[t].event]
      /\ task[t].logger \in Loggers \cup {None} /\ task[t].thread \in Threads \cup {None}
      /\ task[t].event \in Events \cup {NoEvent}
  BY <1>1 DEF TaskState
<1>3. task' = [task EXCEPT ![t] = r]
  OBVIOUS
<1> HIDE DEF r
<1>4. r \in TaskState
  BY <1>2 DEF TaskState
<1>5. task' \in [Tasks -> TaskState] /\ task'[t] = r /\ \A u \in Tasks : u # t => task'[u] = task[u]
  BY <1>3, <1>4, TypeParts
<1> QED
  BY <1>2, <1>5 DEF Becomes

LEMMA SetIdle ==
  ASSUME TypeOK, NEW t \in Tasks, task' = [task EXCEPT ![t] = Idle]
  PROVE  Becomes(t, "idle", None, None, NoEvent) /\ task' \in [Tasks -> TaskState]
BY Set DEF Idle, TaskStates

LEMMA StopFacts ==
  ASSUME TypeOK, NEW t \in Tasks, NEW f \in Loggers, StopOf(t, f)
  PROVE  /\ \E a \in {"joining", "counting"} :
              /\ Becomes(t, a, f, logger[f].thread, NoEvent)
              /\ a = "joining" <=> logger[f].loop # None /\ logger[f].thread # None
         /\ task' \in [Tasks -> TaskState] /\ logger' \in [Loggers -> LoggerState]
         /\ \A k \in Loggers : k # f => logger'[k] = logger[k]
         /\ logger'[f].stop /\ logger'[f].loop = logger[f].loop
         /\ logger'[f].thread = logger[f].thread /\ logger'[f].tasks = logger[f].tasks
<1> DEFINE at == IF logger[f].loop # None /\ logger[f].thread # None
                 THEN "joining" ELSE "counting"
           g == logger[f].thread
           r == [Idle EXCEPT !.logger = f, !.at = at, !.thread = g]
           s == [logger[f] EXCEPT !.stop = TRUE]
<1>1. /\ logger \in [Loggers -> LoggerState] /\ logger[f] \in LoggerState
      /\ g \in Threads \cup {None}
  BY TypeParts DEF LoggerState
<1>2. task' = [task EXCEPT ![t] = r] /\ logger' = [logger EXCEPT ![f] = s]
  BY DEF StopOf
<1>3. r = [at |-> at, logger |-> f, thread |-> g, event |-> NoEvent]
  <2> HIDE DEF at, g
  <2>1. \A a, h : [Idle EXCEPT !.logger = f, !.at = a, !.thread = h]
                    = [at |-> a, logger |-> f, thread |-> h, event |-> NoEvent]
    BY StopRecord
  <2> QED BY <2>1, Zenon
<1>4. at \in {"joining", "counting"} /\ at \in TaskStates
      /\ (at = "joining" <=> logger[f].loop # None /\ logger[f].thread # None)
  BY DEF TaskStates
<1>5. /\ s \in LoggerState /\ s.stop /\ s.loop = logger[f].loop
      /\ s.thread = logger[f].thread /\ s.tasks = logger[f].tasks
  BY <1>1 DEF LoggerState
<1> HIDE DEF at, g, r, s
<1>6. Becomes(t, at, f, g, NoEvent) /\ task' \in [Tasks -> TaskState]
  BY <1>1, <1>2, <1>3, <1>4, Set
<1>7. /\ logger' \in [Loggers -> LoggerState] /\ logger'[f] = s
      /\ \A k \in Loggers : k # f => logger'[k] = logger[k]
  BY <1>1, <1>2, <1>5
<1> QED
  BY <1>4, <1>5, <1>6, <1>7 DEF g

-----------------------------------------------------------------------------
(***************************************************************************)
(* Every logger that is created, every thread and every clearing has been  *)
(* called for, and threads are started in the order of their names.        *)
(***************************************************************************)
At(S) == {t \in Tasks : task[t].at \in S}

Begun == {g \in Threads : thread[g].at # "none"}

Budget ==
  /\ IsFiniteSet(At({"building", "starting", "clearing"}))
  /\ created + Cardinality(At({"building"})) <= calls
  /\ Cardinality(Begun) + Cardinality(At({"building", "starting"})) <= calls
  /\ clears + Cardinality(At({"clearing"})) <= calls
  /\ Begun = 1 .. Cardinality(Begun)

\* Every thread that was started has a logger.
Named == \A g \in Threads : thread[g].at # "none" => thread[g].logger \in Loggers

Sound == CacheInv /\ TypeOK /\ Budget /\ Named

LEMMA BudgetParts ==
  ASSUME Sound
  PROVE  /\ \A S \in SUBSET {"building", "starting", "clearing"} :
              IsFiniteSet(At(S)) /\ Cardinality(At(S)) \in Nat
         /\ IsFiniteSet(Begun) /\ Cardinality(Begun) \in Nat
<1>1. \A S \in SUBSET {"building", "starting", "clearing"} :
        At(S) \in SUBSET At({"building", "starting", "clearing"})
  BY DEF At
<1>2. MaxCalls \in Nat /\ IsFiniteSet(1 .. MaxCalls)
  BY TypeParts, FS_Interval DEF Sound
<1>3. Begun \in SUBSET (1 .. MaxCalls)
  BY DEF Begun, Threads
<1>4. \A S \in SUBSET {"building", "starting", "clearing"} : IsFiniteSet(At(S))
  BY <1>1, FS_Subset DEF Sound, Budget
<1>5. IsFiniteSet(Begun)
  BY <1>2, <1>3, FS_Subset
<1> QED
  BY <1>4, <1>5, FS_CardinalityType

\* A task that moves enters and leaves the sets of tasks by where they are.
LEMMA Shifted ==
  ASSUME NEW t \in Tasks, NEW a, NEW f, NEW g, NEW e, Becomes(t, a, f, g, e), NEW S,
         IsFiniteSet(At(S))
  PROVE  /\ IsFiniteSet(At(S)')
         /\ Cardinality(At(S)) \in Nat /\ Cardinality(At(S)') \in Nat
         /\ a \in S /\ task[t].at \notin S => Cardinality(At(S)') = Cardinality(At(S)) + 1
         /\ a \notin S /\ task[t].at \in S => Cardinality(At(S)') = Cardinality(At(S)) - 1
         /\ (a \in S <=> task[t].at \in S) => Cardinality(At(S)') = Cardinality(At(S))
<1> DEFINE A == At(S)
           B == At(S)'
<1>1. B = {u \in Tasks : IF u = t THEN a \in S ELSE task[u].at \in S}
  BY DEF At, Becomes
<1>2. A = {u \in Tasks : task[u].at \in S}
  BY DEF At
<1>3. Cardinality(A) \in Nat
  BY FS_CardinalityType
<1> HIDE DEF A, B
<1>4. CASE a \in S /\ task[t].at \notin S
  <2>1. B = A \cup {t} /\ t \notin A
    BY <1>1, <1>2, <1>4
  <2>2. IsFiniteSet(A)
    BY DEF A
  <2>3. IsFiniteSet(B) /\ Cardinality(B) = Cardinality(A) + 1
    BY <2>1, <2>2, FS_AddElement
  <2> QED
    BY <1>3, <1>4, <2>3 DEF A, B
<1>5. CASE a \notin S /\ task[t].at \in S
  <2>1. B = A \ {t} /\ t \in A
    BY <1>1, <1>2, <1>5
  <2>2. IsFiniteSet(A)
    BY DEF A
  <2>3. IsFiniteSet(B) /\ Cardinality(B) = Cardinality(A) - 1
    BY <2>1, <2>2, FS_RemoveElement
  <2>4. Cardinality(B) \in Nat
    BY <2>3, FS_CardinalityType
  <2> QED
    BY <1>3, <1>5, <2>3, <2>4 DEF A, B
<1>6. CASE a \in S <=> task[t].at \in S
  <2>1. B = A
    BY <1>1, <1>2, <1>6
  <2> QED
    BY <1>3, <1>6, <2>1 DEF A, B
<1> QED
  BY <1>4, <1>5, <1>6

LEMMA Waiting ==
  ASSUME Sound, NEW t \in Tasks, NEW S \in SUBSET {"building", "starting", "clearing"},
         task[t].at \in S
  PROVE  Cardinality(At(S)) >= 1
<1>1. t \in At(S)
  BY DEF At
<1>2. IsFiniteSet(At(S)) /\ Cardinality(At(S)) \in Nat
  BY BudgetParts
<1>3. Cardinality(At(S)) # 0
  BY <1>1, <1>2, FS_EmptySet
<1> QED
  BY <1>2, <1>3

LEMMA Fresh1 ==
  ASSUME Sound, NEW t \in Tasks, task[t].at \in {"building", "starting"}
  PROVE  /\ NewThread \in Threads /\ thread[NewThread].at = "none"
         /\ NewThread = Cardinality(Begun) + 1
<1>1. Cardinality(At({"building", "starting"})) >= 1
  BY Waiting
<1>2. /\ Cardinality(At({"building", "starting"})) \in Nat /\ Cardinality(Begun) \in Nat
      /\ calls \in Nat /\ calls <= MaxCalls /\ MaxCalls \in Nat
  BY BudgetParts, TypeParts DEF Sound
<1>3. Cardinality(Begun) + Cardinality(At({"building", "starting"})) <= calls
  BY DEF Sound, Budget
<1>4. NewThread = Cardinality(Begun) + 1
  BY <1>2 DEF NewThread, Begun
<1>5. NewThread \in Threads /\ NewThread \notin 1 .. Cardinality(Begun)
  BY <1>1, <1>2, <1>3, <1>4 DEF Threads
<1>6. NewThread \notin Begun
  BY <1>5 DEF Sound, Budget
<1> QED
  BY <1>4, <1>5, <1>6 DEF Begun

LEMMA Fresh2 ==
  ASSUME Sound, NEW t \in Tasks, task[t].at = "building"
  PROVE  created + 1 \in Loggers
<1>1. Cardinality(At({"building"})) >= 1
  BY Waiting
<1>2. /\ Cardinality(At({"building"})) \in Nat /\ created \in Nat
      /\ calls \in Nat /\ calls <= MaxCalls /\ MaxCalls \in Nat
  BY BudgetParts, TypeParts DEF Sound
<1>3. created + Cardinality(At({"building"})) <= calls
  BY DEF Sound, Budget
<1> QED
  BY <1>1, <1>2, <1>3 DEF Loggers

LEMMA Fresh3 ==
  ASSUME Sound, NEW t \in Tasks, task[t].at = "clearing"
  PROVE  clears + 1 \in 0 .. MaxCalls
<1>1. Cardinality(At({"clearing"})) >= 1
  BY Waiting
<1>2. /\ Cardinality(At({"clearing"})) \in Nat /\ clears \in Nat
      /\ calls \in Nat /\ calls <= MaxCalls /\ MaxCalls \in Nat
  BY BudgetParts, TypeParts DEF Sound
<1>3. clears + Cardinality(At({"clearing"})) <= calls
  BY DEF Sound, Budget
<1> QED
  BY <1>1, <1>2, <1>3

LEMMA StartedFacts ==
  ASSUME Sound, NEW f \in Loggers, NEW g \in Threads, thread[g].at = "none", Started(f, g)
  PROVE  /\ logger' \in [Loggers -> LoggerState] /\ thread' \in [Threads -> ThreadState]
         /\ \A k \in Loggers : k # f => logger'[k] = logger[k]
         /\ ~logger'[f].stop /\ logger'[f].thread = g
         /\ logger'[f].loop = logger[f].loop /\ logger'[f].tasks = logger[f].tasks
         /\ \A h \in Threads : h # g => thread'[h] = thread[h]
         /\ thread'[g].at = "new" /\ thread'[g].logger = f
         /\ torn' \subseteq Loggers /\ torn \subseteq torn'
         /\ torn' = {} => /\ logger[f].loop = None /\ Live(f) = {}
                          /\ \A t \in Tasks : task[t].logger = f =>
                               task[t].at \notin {"joining", "counting", "cleaning"}
<1> DEFINE s == [logger[f] EXCEPT !.stop = FALSE]
           r == [s EXCEPT !.thread = g]
           n == [at |-> "new", logger |-> f]
<1>1. /\ logger \in [Loggers -> LoggerState] /\ logger[f] \in LoggerState
      /\ thread \in [Threads -> ThreadState] /\ torn \subseteq Loggers
  BY TypeParts DEF Sound, TypeOK
<1>2. logger' = [logger EXCEPT ![f] = r] /\ thread' = [thread EXCEPT ![g] = n]
  BY <1>1 DEF Started
<1>3. /\ s \in LoggerState /\ ~s.stop /\ s.loop = logger[f].loop /\ s.tasks = logger[f].tasks
  BY <1>1 DEF LoggerState
<1> HIDE DEF s
<1>4. /\ r \in LoggerState /\ ~r.stop /\ r.loop = logger[f].loop /\ r.tasks = logger[f].tasks
      /\ r.thread = g
  BY <1>3 DEF LoggerState
<1>5. n \in ThreadState /\ n.at = "new" /\ n.logger = f
  BY DEF ThreadState
<1> HIDE DEF r, n
<1>6. /\ logger' \in [Loggers -> LoggerState] /\ logger'[f] = r
      /\ \A k \in Loggers : k # f => logger'[k] = logger[k]
      /\ thread' \in [Threads -> ThreadState] /\ thread'[g] = n
      /\ \A h \in Threads : h # g => thread'[h] = thread[h]
  BY <1>1, <1>2, <1>4, <1>5
<1>7. /\ torn' \subseteq Loggers /\ torn \subseteq torn'
      /\ torn' = {} => /\ logger[f].loop = None /\ Live(f) = {}
                       /\ \A t \in Tasks : task[t].logger = f =>
                            task[t].at \notin {"joining", "counting", "cleaning"}
  BY <1>1 DEF Started
<1> QED
  BY <1>4, <1>5, <1>6, <1>7

\* A task moves: a call that may ask for something is one call more.
LEMMA BudgetMoves ==
  ASSUME Sound, NEW t \in Tasks, NEW a, NEW f, NEW g, NEW e, Becomes(t, a, f, g, e),
         UNCHANGED <<created, clears>>, Begun' = Begun,
         \/ calls' = calls /\ a \notin {"building", "starting", "clearing"}
         \/ calls' = calls + 1
  PROVE  Budget'
<1>1. ASSUME NEW S \in SUBSET {"building", "starting", "clearing"}
      PROVE  /\ IsFiniteSet(At(S)') /\ Cardinality(At(S)) \in Nat /\ Cardinality(At(S)') \in Nat
             /\ Cardinality(At(S)') <= Cardinality(At(S)) + 1
             /\ a \notin S => Cardinality(At(S)') <= Cardinality(At(S))
  <2>1. IsFiniteSet(At(S))
    BY BudgetParts
  <2> QED
    BY <2>1, Shifted
<1>2. /\ calls \in Nat /\ created \in Nat /\ clears \in Nat /\ Cardinality(Begun) \in Nat
      /\ Cardinality(Begun') = Cardinality(Begun)
  BY BudgetParts, TypeParts DEF Sound
<1>3. IsFiniteSet(At({"building", "starting", "clearing"})')
  BY <1>1
<1>4. created' + Cardinality(At({"building"})') <= calls'
  <2>1. created + Cardinality(At({"building"})) <= calls
    BY DEF Sound, Budget
  <2> QED BY <1>1, <1>2, <2>1
<1>5. Cardinality(Begun') + Cardinality(At({"building", "starting"})') <= calls'
  <2>1. Cardinality(Begun) + Cardinality(At({"building", "starting"})) <= calls
    BY DEF Sound, Budget
  <2> QED BY <1>1, <1>2, <2>1
<1>6. clears' + Cardinality(At({"clearing"})') <= calls'
  <2>1. clears + Cardinality(At({"clearing"})) <= calls
    BY DEF Sound, Budget
  <2> QED BY <1>1, <1>2, <2>1
<1>7. Begun' = 1 .. Cardinality(Begun')
  BY <1>2 DEF Sound, Budget
<1> QED
  BY <1>3, <1>4, <1>5, <1>6, <1>7 DEF Budget

\* A thread goes on.
LEMMA BudgetStays ==
  ASSUME Sound, UNCHANGED <<task, created, clears, calls>>, Begun' = Begun
  PROVE  Budget'
<1>1. \A S : At(S)' = At(S)
  BY DEF At
<1> QED
  BY <1>1 DEF Sound, Budget

\* A thread is started, for a logger that is new or not.
LEMMA BudgetStarts ==
  ASSUME Sound, NEW t \in Tasks, NEW f, NEW g, NEW e, Becomes(t, "waiting", f, g, e),
         UNCHANGED <<calls, clears>>, NewThread \in Threads, thread[NewThread].at = "none",
         NewThread = Cardinality(Begun) + 1,
         \A h \in Threads : h # NewThread => thread'[h] = thread[h],
         thread'[NewThread].at = "new",
         \/ task[t].at = "building" /\ created' = created + 1
         \/ task[t].at = "starting" /\ created' = created
  PROVE  Budget'
<1>1. /\ calls \in Nat /\ created \in Nat /\ clears \in Nat /\ Cardinality(Begun) \in Nat
      /\ IsFiniteSet(Begun)
  BY BudgetParts, TypeParts DEF Sound
<1>2. Begun' = Begun \cup {NewThread} /\ NewThread \notin Begun
  BY DEF Begun
<1>3. Cardinality(Begun') = Cardinality(Begun) + 1
  BY <1>1, <1>2, FS_AddElement
<1>4. Begun' = 1 .. Cardinality(Begun')
  <2>1. Begun = 1 .. Cardinality(Begun)
    BY DEF Sound, Budget
  <2> QED BY <1>1, <1>2, <1>3, <2>1
<1>5. \A S \in SUBSET {"building", "starting", "clearing"} :
         IsFiniteSet(At(S)) /\ Cardinality(At(S)) \in Nat
  BY BudgetParts
<1>6. /\ IsFiniteSet(At({"building", "starting", "clearing"})')
      /\ Cardinality(At({"building", "starting"})') = Cardinality(At({"building", "starting"})) - 1
      /\ Cardinality(At({"clearing"})') = Cardinality(At({"clearing"}))
  BY <1>5, Shifted
<1>7. \/ /\ task[t].at = "building"
         /\ Cardinality(At({"building"})') = Cardinality(At({"building"})) - 1
      \/ /\ task[t].at = "starting"
         /\ Cardinality(At({"building"})') = Cardinality(At({"building"}))
  BY <1>5, Shifted
<1>8. created' + Cardinality(At({"building"})') <= calls'
  <2>1. created + Cardinality(At({"building"})) <= calls
    BY DEF Sound, Budget
  <2> QED BY <1>1, <1>5, <1>7, <2>1
<1>9. Cardinality(Begun') + Cardinality(At({"building", "starting"})') <= calls'
  <2>1. Cardinality(Begun) + Cardinality(At({"building", "starting"})) <= calls
    BY DEF Sound, Budget
  <2> QED BY <1>1, <1>3, <1>5, <1>6, <2>1
<1>10. clears' + Cardinality(At({"clearing"})') <= calls'
  <2>1. clears + Cardinality(At({"clearing"})) <= calls
    BY DEF Sound, Budget
  <2> QED BY <1>6, <2>1
<1> QED
  BY <1>4, <1>6, <1>8, <1>9, <1>10 DEF Budget

\* The cache is cleared.
LEMMA BudgetClears ==
  ASSUME Sound, NEW t \in Tasks, NEW a \in {"idle", "joining", "counting"}, NEW f, NEW g, NEW e,
         Becomes(t, a, f, g, e), task[t].at = "clearing", clears' = clears + 1,
         UNCHANGED <<calls, created>>, Begun' = Begun
  PROVE  Budget'
<1>1. \A S \in SUBSET {"building", "starting", "clearing"} :
         IsFiniteSet(At(S)) /\ Cardinality(At(S)) \in Nat
  BY BudgetParts
<1>2. /\ IsFiniteSet(At({"building", "starting", "clearing"})')
      /\ Cardinality(At({"building", "starting"})') = Cardinality(At({"building", "starting"}))
      /\ Cardinality(At({"building"})') = Cardinality(At({"building"}))
      /\ Cardinality(At({"clearing"})') = Cardinality(At({"clearing"})) - 1
  BY <1>1, Shifted
<1>3. clears \in Nat /\ calls \in Nat /\ Cardinality(At({"clearing"})) \in Nat
  BY <1>1, TypeParts DEF Sound
<1>4. clears' + Cardinality(At({"clearing"})') <= calls'
  <2>1. clears + Cardinality(At({"clearing"})) <= calls
    BY DEF Sound, Budget
  <2> QED BY <1>2, <1>3, <2>1
<1> QED
  BY <1>2, <1>4 DEF Sound, Budget

-----------------------------------------------------------------------------
(* The steps, as moves of tasks, loggers and threads                        *)

\* A task moves on, and no logger and no thread changes.
Moves(t, a, f, g, e) ==
  Becomes(t, a, f, g, e) /\ task' \in [Tasks -> TaskState] /\ UNCHANGED <<logger, thread>>

\* A drain of logger f sets its flag and finds the thread to join.
Stopped(t, f) ==
  /\ \E a \in {"joining", "counting"} :
       /\ Becomes(t, a, f, logger[f].thread, NoEvent)
       /\ a = "joining" <=> logger[f].loop # None /\ logger[f].thread # None
  /\ task' \in [Tasks -> TaskState] /\ logger' \in [Loggers -> LoggerState]
  /\ \A k \in Loggers : k # f => logger'[k] = logger[k]
  /\ logger'[f].stop /\ logger'[f].loop = logger[f].loop
  /\ logger'[f].thread = logger[f].thread /\ logger'[f].tasks = logger[f].tasks
  /\ UNCHANGED thread

LEMMA Stopping ==
  ASSUME Sound, NEW t \in Tasks, NEW f \in Loggers, StopOf(t, f), UNCHANGED thread
  PROVE  Stopped(t, f)
BY StopFacts DEF Sound, Stopped

\* Task t starts logger f, with thread g.
Starts(t, f, g) ==
  /\ f \in Loggers /\ g \in Threads /\ thread[g].at = "none" /\ g = Cardinality(Begun) + 1
  /\ Becomes(t, "waiting", f, task[t].thread, task[t].event)
  /\ task' \in [Tasks -> TaskState]
  /\ logger' \in [Loggers -> LoggerState] /\ thread' \in [Threads -> ThreadState]
  /\ \A k \in Loggers : k # f => logger'[k] = logger[k]
  /\ ~logger'[f].stop /\ logger'[f].thread = g
  /\ logger'[f].loop = logger[f].loop /\ logger'[f].tasks = logger[f].tasks
  /\ \A h \in Threads : h # g => thread'[h] = thread[h]
  /\ thread'[g].at = "new" /\ thread'[g].logger = f
  /\ torn' \subseteq Loggers /\ torn \subseteq torn'
  /\ torn' = {} => /\ logger[f].loop = None /\ Live(f) = {}
                   /\ \A u \in Tasks : task[u].logger = f =>
                        task[u].at \notin {"joining", "counting", "cleaning"}

LEMMA CallerTask ==
  ASSUME Sound, NEW c \in Callers
  PROVE  /\ c \in Tasks /\ c # Main /\ c # None
         /\ task[c].logger \in Loggers \cup {None} /\ task[c].thread \in Threads \cup {None}
         /\ task[c].event \in Events \cup {NoEvent}
         /\ has[c] \in Loggers \cup {None}
         /\ task[c].at \notin {"idle", "hit", "building", "clearing"} => task[c].logger \in Loggers
<1>1. c \in Tasks /\ c # Main /\ c # None
  BY LifecycleAssumption DEF Tasks, None
<1>2. task \in [Tasks -> TaskState] /\ has \in [Callers -> Loggers \cup {None}]
  BY TypeParts DEF Sound
<1>3. task[c] \in TaskState
  BY <1>1, <1>2
<1>4. Handling
  BY DEF Sound, CacheInv
<1> QED
  BY <1>1, <1>2, <1>3, <1>4, InHand DEF TaskState

LEMMA BuildStarts ==
  ASSUME Sound, NEW c \in Callers, Build(c)
  PROVE  Starts(c, created + 1, NewThread)
<1>1. c \in Tasks /\ task[c].at = "building" /\ Handled(task[c])
      /\ task[c].thread \in Threads \cup {None} /\ task[c].event \in Events \cup {NoEvent}
  BY CallerTask DEF Build, Sound, CacheInv, Handling
<1>2. NewThread \in Threads /\ thread[NewThread].at = "none" /\ created + 1 \in Loggers
      /\ NewThread = Cardinality(Begun) + 1
  BY <1>1, Fresh1, Fresh2
<1> DEFINE r == [task[c] EXCEPT !.at = "waiting", !.logger = created + 1]
<1>3. task' = [task EXCEPT ![c] = r]
  BY DEF Build
<1>4. r = [at |-> "waiting", logger |-> created + 1, thread |-> task[c].thread,
           event |-> task[c].event]
  BY <1>1, BuildRecord
<1> HIDE DEF r
<1>5. Becomes(c, "waiting", created + 1, task[c].thread, task[c].event)
      /\ task' \in [Tasks -> TaskState]
  BY <1>1, <1>2, <1>3, <1>4, Set DEF Sound, TaskStates
<1>6. Started(created + 1, NewThread)
  BY DEF Build
<1> QED
  BY <1>2, <1>5, <1>6, StartedFacts DEF Starts

LEMMA StartAgainStarts ==
  ASSUME Sound, NEW c \in Callers, StartAgain(c)
  PROVE  Starts(c, task[c].logger, NewThread)
<1>1. c \in Tasks /\ task[c].at = "starting" /\ task[c].logger \in Loggers
  BY CallerTask DEF StartAgain
<1>2. NewThread \in Threads /\ thread[NewThread].at = "none"
      /\ NewThread = Cardinality(Begun) + 1
  BY <1>1, Fresh1
<1>3. Becomes(c, "waiting", task[c].logger, task[c].thread, task[c].event)
      /\ task' \in [Tasks -> TaskState]
  BY <1>1, SetAt DEF StartAgain, Sound, TaskStates
<1>4. Started(task[c].logger, NewThread)
  BY DEF StartAgain
<1> QED
  BY <1>1, <1>2, <1>3, <1>4, StartedFacts DEF Starts

LEMMA CallMoves ==
  ASSUME Sound, NEW c \in Callers, NEW e \in Events, Call(c, e)
  PROVE  /\ has[c] \in Loggers
         /\ \E a \in {"starting", "enqueueing"} : Moves(c, a, has[c], None, e)
<1> DEFINE f == has[c]
           at == IF logger[f].loop = None THEN "starting" ELSE "enqueueing"
           r == [Idle EXCEPT !.logger = f, !.event = e, !.at = at]
<1>1. c \in Tasks /\ f \in Loggers
  BY CallerTask DEF Call
<1>2. task' = [task EXCEPT ![c] = r]
  BY DEF Call
<1>3. at \in {"starting", "enqueueing"} /\ at \in TaskStates
  BY DEF TaskStates
<1>4. r = [at |-> at, logger |-> f, thread |-> None, event |-> e]
  <2> HIDE DEF at, f
  <2> QED BY CallRecord, Zenon
<1> HIDE DEF r, at
<1>5. Becomes(c, at, f, None, e) /\ task' \in [Tasks -> TaskState]
  BY <1>1, <1>2, <1>3, <1>4, Set DEF Sound
<1> QED
  BY <1>1, <1>3, <1>5 DEF Call, Moves

\* The steps of a task that change no logger and no thread.
LEMMA CallerMoves ==
  ASSUME Sound, NEW c \in Callers
  PROVE  /\ Hit(c) => Moves(c, "hit", task[c].logger, task[c].thread, task[c].event)
         /\ Miss(c) => Moves(c, "building", task[c].logger, task[c].thread, task[c].event)
         /\ BeginClear(c) => Moves(c, "clearing", task[c].logger, task[c].thread, task[c].event)
         /\ TakeHit(c) \/ Insert(c) \/ Enqueue(c) \/ (Clear(c) /\ cached = None) =>
              Moves(c, "idle", None, None, NoEvent)
         /\ StartReturns(c) =>
              Moves(c, IF task[c].event = NoEvent THEN "locking" ELSE "enqueueing",
                    task[c].logger, task[c].thread, task[c].event)
<1>0. c \in Tasks /\ TypeOK
  BY CallerTask DEF Sound
<1>1. ASSUME Hit(c)
      PROVE  Moves(c, "hit", task[c].logger, task[c].thread, task[c].event)
  BY <1>0, <1>1, SetAt DEF Hit, Moves, TaskStates
<1>2. ASSUME Miss(c)
      PROVE  Moves(c, "building", task[c].logger, task[c].thread, task[c].event)
  BY <1>0, <1>2, SetAt DEF Miss, Moves, TaskStates
<1>3. ASSUME BeginClear(c)
      PROVE  Moves(c, "clearing", task[c].logger, task[c].thread, task[c].event)
  BY <1>0, <1>3, SetAt DEF BeginClear, Moves, TaskStates
<1>4. ASSUME TakeHit(c) \/ Insert(c) \/ Enqueue(c) \/ (Clear(c) /\ cached = None)
      PROVE  Moves(c, "idle", None, None, NoEvent)
  BY <1>0, <1>4, SetIdle DEF TakeHit, Insert, Enqueue, Clear, Moves
<1>5. ASSUME StartReturns(c)
      PROVE  Moves(c, IF task[c].event = NoEvent THEN "locking" ELSE "enqueueing",
                   task[c].logger, task[c].thread, task[c].event)
  <2> DEFINE at == IF task[c].event = NoEvent THEN "locking" ELSE "enqueueing"
  <2>1. at \in TaskStates
    BY DEF TaskStates
  <2>2. task' = [task EXCEPT ![c].at = at] /\ UNCHANGED <<logger, thread>>
    BY <1>5 DEF StartReturns
  <2> HIDE DEF at
  <2>3. Moves(c, at, task[c].logger, task[c].thread, task[c].event)
    BY <1>0, <2>1, <2>2, SetAt DEF Moves
  <2> QED BY <2>3 DEF at
<1> QED
  BY <1>1, <1>2, <1>3, <1>4, <1>5

\* The drains: the join of thread task[t].thread, the count, the cleaning up.
LEMMA JoinMoves ==
  ASSUME Sound, NEW t \in Tasks, Join(t)
  PROVE  /\ task[t].logger \in Loggers
         /\ Becomes(t, "counting", task[t].logger, task[t].thread, task[t].event)
         /\ task' \in [Tasks -> TaskState] /\ logger' \in [Loggers -> LoggerState]
         /\ \A k \in Loggers : k # task[t].logger => logger'[k] = logger[k]
         /\ logger'[task[t].logger].loop = None /\ logger'[task[t].logger].thread = None
         /\ logger'[task[t].logger].stop = logger[task[t].logger].stop
         /\ logger'[task[t].logger].tasks = logger[task[t].logger].tasks
         /\ torn' \subseteq Loggers /\ torn \subseteq torn'
         /\ torn' = {} => Live(task[t].logger) = {}
<1>1. PICK f : f = task[t].logger
  OBVIOUS
<1>2. Handling
  BY DEF Sound, CacheInv
<1>3. f \in Loggers
  <2>1. f \in Nat \ {None}
    BY <1>1, <1>2, InHand DEF Join
  <2>2. task[t] \in TaskState
    BY TypeParts DEF Sound
  <2> QED BY <1>1, <2>1, <2>2 DEF TaskState
<1>4. Becomes(t, "counting", task[t].logger, task[t].thread, task[t].event)
      /\ task' \in [Tasks -> TaskState]
  BY SetAt DEF Sound, Join, TaskStates
<1> DEFINE s == [logger[f] EXCEPT !.loop = None]
           r == [s EXCEPT !.thread = None]
<1>5. logger' = [logger EXCEPT ![f] = r] /\ logger \in [Loggers -> LoggerState]
      /\ torn \subseteq Loggers
  BY <1>1, <1>3, TypeParts DEF Join, Sound, TypeOK
<1>6. /\ s \in LoggerState /\ s.stop = logger[f].stop /\ s.loop = None
      /\ s.tasks = logger[f].tasks
  BY <1>3, <1>5 DEF LoggerState
<1> HIDE DEF s
<1>7. /\ r \in LoggerState /\ r.stop = logger[f].stop /\ r.loop = None /\ r.thread = None
      /\ r.tasks = logger[f].tasks
  BY <1>6 DEF LoggerState
<1> HIDE DEF r
<1>8. /\ logger' \in [Loggers -> LoggerState] /\ logger'[f] = r
      /\ \A k \in Loggers : k # f => logger'[k] = logger[k]
  BY <1>3, <1>5, <1>7
<1>9. /\ torn' \subseteq Loggers /\ torn \subseteq torn'
      /\ torn' = {} => Live(f) = {}
  BY <1>1, <1>3, <1>5 DEF Join
<1> QED
  BY <1>1, <1>3, <1>4, <1>7, <1>8, <1>9

\* What a change of events by their state alone makes of each.
Turned(S, at) ==
  /\ event' \in [Events -> EventState]
  /\ \A e \in Events : /\ event'[e].logger = event[e].logger
                       /\ event'[e].at = IF e \in S THEN at ELSE event[e].at

LEMMA Turn ==
  ASSUME Sound, NEW S, NEW at \in {"processed", "dropped"},
         event' = [e \in Events |-> IF e \in S THEN [event[e] EXCEPT !.at = at] ELSE event[e]]
  PROVE  Turned(S, at)
<1>1. event \in [Events -> EventState]
  BY TypeParts DEF Sound
<1>2. ASSUME NEW e \in Events, e \in S
      PROVE  /\ event'[e] \in EventState /\ event'[e].logger = event[e].logger
             /\ event'[e].at = at
  BY <1>1, <1>2 DEF EventState
<1>3. ASSUME NEW e \in Events, e \notin S
      PROVE  event'[e] = event[e]
  BY <1>3
<1>4. \A e \in Events : event'[e] \in EventState
  BY <1>1, <1>2, <1>3
<1>5. event' \in [Events -> EventState]
  BY <1>4
<1> QED
  BY <1>2, <1>3, <1>5 DEF Turned

LEMMA CountMoves ==
  ASSUME Sound, NEW t \in Tasks, Count(t)
  PROVE  /\ task[t].logger \in Loggers
         /\ Moves(t, "cleaning", task[t].logger, task[t].thread, task[t].event)
         /\ Turned(Queue(task[t].logger), "dropped")
<1>1. Handling
  BY DEF Sound, CacheInv
<1>2. task[t].logger \in Loggers
  <2>1. task[t].logger \in Nat \ {None}
    BY <1>1, InHand DEF Count
  <2>2. task[t] \in TaskState
    BY TypeParts DEF Sound
  <2> QED BY <2>1, <2>2 DEF TaskState
<1>3. Moves(t, "cleaning", task[t].logger, task[t].thread, task[t].event)
  BY SetAt DEF Sound, Count, TaskStates, Moves
<1>4. Turned(Queue(task[t].logger), "dropped")
  BY Turn DEF Count
<1> QED
  BY <1>2, <1>3, <1>4

\* Task t forgets, or does not, the worker tasks of its logger.
Cleans(t) ==
  /\ task[t].at = "cleaning" /\ task[t].logger \in Loggers
  /\ Becomes(t, "idle", None, None, NoEvent) /\ task' \in [Tasks -> TaskState]
  /\ logger' \in [Loggers -> LoggerState]
  /\ \A k \in Loggers : /\ logger'[k].loop = logger[k].loop /\ logger'[k].stop = logger[k].stop
                        /\ logger'[k].thread = logger[k].thread
                        /\ \/ logger'[k].tasks = logger[k].tasks
                           \/ k = task[t].logger /\ logger'[k].tasks = {}
  /\ exit = "no" => logger'[task[t].logger].tasks = {}
  /\ UNCHANGED <<thread, event, left, inTime, exit, shut, created, clears, calls, torn>>

LEMMA CleaningMoves ==
  ASSUME Sound, NEW t \in Tasks, \/ t \in Callers /\ Cleanup(t)
                                 \/ t = Main /\ ExitCleansUp
  PROVE  Cleans(t)
<1>1. PICK f : f = task[t].logger
  OBVIOUS
<1>2. Handling /\ task[t].at = "cleaning"
  BY DEF Sound, CacheInv, Cleanup, ExitCleansUp
<1>3. f \in Loggers
  <2>1. f \in Nat \ {None}
    BY <1>1, <1>2, InHand
  <2>2. task[t] \in TaskState
    BY TypeParts DEF Sound
  <2> QED BY <1>1, <2>1, <2>2 DEF TaskState
<1>4. Becomes(t, "idle", None, None, NoEvent) /\ task' \in [Tasks -> TaskState]
  BY SetIdle DEF Sound, Cleanup, ExitCleansUp
<1> DEFINE r == [logger[f] EXCEPT !.tasks = {}]
<1>5. /\ logger' = [logger EXCEPT ![f] = r] \/ (logger' = logger /\ exit # "no")
      /\ logger \in [Loggers -> LoggerState]
      /\ UNCHANGED <<thread, event, left, inTime, exit, shut, created, clears, calls, torn>>
  BY <1>1, TypeParts DEF Sound, Cleanup, ExitCleansUp, exitVars, cacheVars
<1>6. /\ r \in LoggerState /\ r.stop = logger[f].stop /\ r.loop = logger[f].loop
      /\ r.thread = logger[f].thread /\ r.tasks = {}
  BY <1>3, <1>5 DEF LoggerState
<1> HIDE DEF r
<1>7. CASE logger' = logger /\ exit # "no"
  BY <1>1, <1>2, <1>3, <1>4, <1>5, <1>7 DEF Cleans
<1>8. CASE logger' = [logger EXCEPT ![f] = r]
  <2>1. /\ logger' \in [Loggers -> LoggerState] /\ logger'[f] = r
        /\ \A k \in Loggers : k # f => logger'[k] = logger[k]
    BY <1>3, <1>5, <1>6, <1>8
  <2> QED BY <1>1, <1>2, <1>3, <1>4, <1>5, <1>6, <2>1 DEF Cleans
<1> QED
  BY <1>5, <1>7, <1>8

-----------------------------------------------------------------------------
(* The threads *)

\* Thread g of logger f comes to be at a.
Runs(g, a) ==
  /\ thread' \in [Threads -> ThreadState]
  /\ \A h \in Threads : h # g => thread'[h] = thread[h]
  /\ thread'[g].at = a /\ thread'[g].logger = thread[g].logger

LEMMA RunsTo ==
  ASSUME Sound, NEW g \in Threads, NEW a \in {"gathering", "running", "ended"},
         thread' = [thread EXCEPT ![g].at = a]
  PROVE  Runs(g, a)
<1> DEFINE r == [thread[g] EXCEPT !.at = a]
<1>1. thread \in [Threads -> ThreadState] /\ thread' = [thread EXCEPT ![g] = r]
  BY TypeParts DEF Sound
<1>2. r \in ThreadState /\ r.at = a /\ r.logger = thread[g].logger
  BY <1>1 DEF ThreadState
<1> HIDE DEF r
<1> QED
  BY <1>1, <1>2 DEF Runs

LEMMA BeginMoves ==
  ASSUME Sound, NEW g \in Threads, Begin(g)
  PROVE  /\ thread[g].logger \in Loggers /\ Runs(g, "gathering")
         /\ logger' \in [Loggers -> LoggerState]
         /\ \A k \in Loggers : k # thread[g].logger => logger'[k] = logger[k]
         /\ logger'[thread[g].logger].loop = g
         /\ logger'[thread[g].logger].thread = logger[thread[g].logger].thread
         /\ logger'[thread[g].logger].stop = logger[thread[g].logger].stop
         /\ logger'[thread[g].logger].tasks = logger[thread[g].logger].tasks \cup {g}
<1>1. PICK f : f = thread[g].logger
  OBVIOUS
<1>2. f \in Loggers /\ Runs(g, "gathering")
  BY <1>1, RunsTo DEF Sound, Named, Begin
<1> DEFINE s == [logger[f] EXCEPT !.loop = g]
           r == [s EXCEPT !.tasks = logger[f].tasks \cup {g}]
<1>3. logger' = [logger EXCEPT ![f] = r] /\ logger \in [Loggers -> LoggerState]
  BY <1>1, <1>2, TypeParts DEF Begin, Sound
<1>4. /\ s \in LoggerState /\ s.stop = logger[f].stop /\ s.loop = g
      /\ s.tasks = logger[f].tasks /\ s.thread = logger[f].thread
  BY <1>2, <1>3 DEF LoggerState
<1> HIDE DEF s
<1>5. /\ r \in LoggerState /\ r.stop = logger[f].stop /\ r.loop = g
      /\ r.thread = logger[f].thread /\ r.tasks = logger[f].tasks \cup {g}
  BY <1>4 DEF LoggerState
<1> HIDE DEF r
<1> QED
  BY <1>1, <1>2, <1>3, <1>5

-----------------------------------------------------------------------------
(* Types, budget and names are kept                                         *)

\* What is left of TypeOK' when no logger, thread or task changes.
LEMMA TypeMoves ==
  ASSUME Sound, NEW t \in Tasks, NEW a, NEW f, NEW g, NEW e, Moves(t, a, f, g, e),
         UNCHANGED <<loopOf, exit, shut, left, inTime, created, clears>>,
         event' \in [Events -> EventState], has' \in [Callers -> Loggers \cup {None}],
         cached' \in Loggers \cup {None}, lock' \in Callers \cup {None},
         handed' \subseteq [clears : 0 .. MaxCalls, logger : Loggers],
         torn' \subseteq Loggers, lockedIn' \in BOOLEAN, calls' \in 0 .. MaxCalls
  PROVE  TypeOK'
<1>1. /\ logger \in [Loggers -> LoggerState] /\ thread \in [Threads -> ThreadState]
      /\ created \in 0 .. MaxCalls /\ clears \in 0 .. MaxCalls
      /\ exit \in {"no", "draining", "over"} /\ shut \in BOOLEAN
      /\ left \subseteq Loggers /\ inTime \subseteq Events
      /\ loopOf \in Placements
  BY TypeParts DEF Sound, TypeOK
<1> QED
  BY <1>1, TypeKept DEF Moves

LEMMA MovesBegun ==
  ASSUME NEW t, NEW a, NEW f, NEW g, NEW e, Moves(t, a, f, g, e)
  PROVE  Begun' = Begun /\ (Named => Named')
BY DEF Moves, Begun, Named

\* The rest of the types, as facts of a state.
LEMMA TypeRest ==
  ASSUME Sound
  PROVE  /\ event \in [Events -> EventState] /\ has \in [Callers -> Loggers \cup {None}]
         /\ cached \in Loggers \cup {None} /\ lock \in Callers \cup {None}
         /\ handed \subseteq [clears : 0 .. MaxCalls, logger : Loggers]
         /\ torn \subseteq Loggers /\ lockedIn \in BOOLEAN /\ calls \in 0 .. MaxCalls
         /\ task \in [Tasks -> TaskState] /\ logger \in [Loggers -> LoggerState]
         /\ thread \in [Threads -> ThreadState]
         /\ created \in 0 .. MaxCalls /\ clears \in 0 .. MaxCalls
         /\ exit \in {"no", "draining", "over"} /\ shut \in BOOLEAN
      /\ left \subseteq Loggers
         /\ inTime \subseteq Events /\ loopOf \in Placements
BY TypeParts DEF Sound, TypeOK

LEMMA CallsBound ==
  ASSUME Sound, NEW c \in Callers, Calls(c)
  PROVE  calls' \in 0 .. MaxCalls /\ calls' = calls + 1
BY TypeParts DEF Sound, Calls

\* A logger that is handed out.
LEMMA HandsOut ==
  ASSUME Sound, NEW f \in Loggers, handed' = handed \cup {[clears |-> clears, logger |-> f]}
  PROVE  handed' \subseteq [clears : 0 .. MaxCalls, logger : Loggers]
<1> DEFINE h == [clears |-> clears, logger |-> f]
<1>1. h \in [clears : 0 .. MaxCalls, logger : Loggers]
  BY TypeRest
<1>2. handed' = handed \cup {h}
  OBVIOUS
<1> HIDE DEF h
<1> QED
  BY <1>1, <1>2, TypeRest

LEMMA SoundMoves ==
  ASSUME Sound, NEW c \in Callers,
         Hit(c) \/ Miss(c) \/ BeginClear(c) \/ TakeHit(c) \/ Insert(c) \/ StartReturns(c)
  PROVE  TypeOK' /\ Budget' /\ Named'
<1>0. c \in Tasks
  BY CallerTask
<1>1. CASE Hit(c) \/ Miss(c) \/ BeginClear(c)
  <2>1. \E a \in {"hit", "building", "clearing"} :
          Moves(c, a, task[c].logger, task[c].thread, task[c].event)
    BY <1>1, CallerMoves
  <2>2. calls' \in 0 .. MaxCalls /\ calls' = calls + 1
    BY <1>1, CallsBound DEF Hit, Miss, BeginClear
  <2>3. UNCHANGED <<loopOf, has, lock, cached, clears, handed, lockedIn, created, event,
                    exit, shut, left, inTime, torn>>
    BY <1>1 DEF Hit, Miss, BeginClear, cacheVars, exitVars
  <2>4. TypeOK'
    BY <1>0, <2>1, <2>2, <2>3, TypeMoves, TypeRest
  <2>5. Budget' /\ Named'
    BY <1>0, <2>1, <2>2, <2>3, BudgetMoves, MovesBegun DEF Moves, Sound
  <2> QED BY <2>4, <2>5
<1>2. CASE TakeHit(c)
  <2>1. Moves(c, "idle", None, None, NoEvent)
    BY <1>2, CallerMoves
  <2>2. UNCHANGED <<loopOf, calls, lock, cached, clears, lockedIn, created, event,
                    exit, shut, left, inTime, torn>>
    BY <1>2 DEF TakeHit, exitVars
  <2>3. CASE cached = None
    <3>1. UNCHANGED <<has, handed>>
      BY <1>2, <2>3 DEF TakeHit
    <3> QED BY <1>0, <2>1, <2>2, <3>1, TypeMoves, TypeRest, BudgetMoves, MovesBegun
            DEF Moves, Sound
  <2>4. CASE cached # None
    <3>1. has' = [has EXCEPT ![c] = cached] /\ cached \in Loggers
          /\ handed' = handed \cup {[clears |-> clears, logger |-> cached]}
      BY <1>2, <2>4, TypeRest DEF TakeHit
    <3>2. has' \in [Callers -> Loggers \cup {None}]
          /\ handed' \subseteq [clears : 0 .. MaxCalls, logger : Loggers]
      BY <3>1, HandsOut, TypeRest
    <3>3. TypeOK'
      BY <1>0, <2>1, <2>2, <3>2, TypeMoves, TypeRest
    <3> QED BY <1>0, <2>1, <2>2, <3>3, BudgetMoves, MovesBegun DEF Moves, Sound
  <2> QED BY <2>3, <2>4
<1>3. CASE Insert(c)
  <2>1. Moves(c, "idle", None, None, NoEvent)
    BY <1>3, CallerMoves
  <2>2. UNCHANGED <<loopOf, calls, lock, clears, lockedIn, created, event,
                    exit, shut, left, inTime, torn>>
    BY <1>3 DEF Insert, exitVars
  <2>3. /\ task[c].logger \in Loggers /\ cached' = task[c].logger
        /\ has' = [has EXCEPT ![c] = task[c].logger]
        /\ handed' = handed \cup {[clears |-> clears, logger |-> task[c].logger]}
    BY <1>3, CallerTask DEF Insert
  <2>4. has' \in [Callers -> Loggers \cup {None}]
        /\ handed' \subseteq [clears : 0 .. MaxCalls, logger : Loggers]
    BY <2>3, HandsOut, TypeRest
  <2>5. TypeOK'
    BY <1>0, <2>1, <2>2, <2>3, <2>4, TypeMoves, TypeRest
  <2> QED BY <1>0, <2>1, <2>2, <2>5, BudgetMoves, MovesBegun DEF Moves, Sound
<1>4. CASE StartReturns(c)
  <2>1. \E a \in {"locking", "enqueueing"} :
          Moves(c, a, task[c].logger, task[c].thread, task[c].event)
    BY <1>4, CallerMoves
  <2>2. UNCHANGED <<loopOf, calls, has, lock, cached, clears, handed, lockedIn, created, event,
                    exit, shut, left, inTime>>
    BY <1>4 DEF StartReturns, cacheVars, exitVars
  <2>3. torn' \subseteq Loggers
    <3>1. task[c].logger \in Loggers
      BY <1>4, CallerTask DEF StartReturns
    <3> QED BY <1>4, <3>1, TypeRest DEF StartReturns
  <2>4. TypeOK'
    BY <1>0, <2>1, <2>2, <2>3, TypeMoves, TypeRest
  <2> QED BY <1>0, <2>1, <2>2, <2>4, BudgetMoves, MovesBegun DEF Moves, Sound
<1> QED
  BY <1>1, <1>2, <1>3, <1>4

LEMMA SoundStarts ==
  ASSUME Sound, NEW c \in Callers, Build(c) \/ StartAgain(c)
  PROVE  TypeOK' /\ Budget' /\ Named'
<1>1. PICK f, g : /\ Starts(c, f, g) /\ g = NewThread
                  /\ \/ task[c].at = "building" /\ created' = created + 1 /\ f = created + 1
                     \/ task[c].at = "starting" /\ created' = created
  BY BuildStarts, StartAgainStarts DEF Build, StartAgain
<1>2. /\ UNCHANGED <<loopOf, calls, has, lock, cached, clears, handed, lockedIn, event, exit,
                     shut, left, inTime>>
      /\ c \in Tasks
  BY CallerTask DEF Build, StartAgain, cacheVars, exitVars
<1>3. created' \in 0 .. MaxCalls
  <2>1. /\ created \in 0 .. MaxCalls /\ MaxCalls \in Nat /\ f \in 1 .. MaxCalls
    BY <1>1, TypeRest, LifecycleAssumption DEF Starts, Loggers
  <2> QED
    BY <1>1, <2>1
<1>4. TypeOK'
  BY <1>1, <1>2, <1>3, TypeRest, TypeKept DEF Starts
<1>5. Budget'
  BY <1>1, <1>2, BudgetStarts DEF Starts
<1>6. Named'
  BY <1>1 DEF Starts, Named, Sound
<1> QED
  BY <1>4, <1>5, <1>6

LEMMA SoundCalls ==
  ASSUME Sound, NEW c \in Callers, NEW e \in Events, Call(c, e)
  PROVE  TypeOK' /\ Budget' /\ Named'
<1>1. PICK a \in {"starting", "enqueueing"} : Moves(c, a, has[c], None, e)
  BY CallMoves
<1>2. /\ UNCHANGED <<loopOf, has, lock, cached, clears, handed, lockedIn, created, exit,
                     shut, left, inTime, torn>>
      /\ c \in Tasks /\ calls' \in 0 .. MaxCalls /\ calls' = calls + 1
  BY CallerTask, CallsBound DEF Call, cacheVars, exitVars
<1>3. event' \in [Events -> EventState]
  <2> DEFINE r == [event[e] EXCEPT !.at = "carried"]
  <2>1. event' = [event EXCEPT ![e] = r] /\ event \in [Events -> EventState]
    BY TypeRest DEF Call
  <2>2. r \in EventState
    BY <2>1 DEF EventState
  <2> HIDE DEF r
  <2> QED
    BY <2>1, <2>2
<1>4. TypeOK'
  BY <1>1, <1>2, <1>3, TypeMoves, TypeRest
<1>5. Budget'
  BY <1>1, <1>2, BudgetMoves, MovesBegun DEF Moves
<1>6. Named'
  BY <1>1, MovesBegun DEF Sound
<1> QED
  BY <1>4, <1>5, <1>6

LEMMA SoundEnqueue ==
  ASSUME Sound, NEW c \in Callers, Enqueue(c)
  PROVE  TypeOK' /\ Budget' /\ Named'
<1>1. Moves(c, "idle", None, None, NoEvent)
  BY CallerMoves
<1>2. /\ UNCHANGED <<loopOf, calls, has, lock, cached, clears, handed, lockedIn, created, exit,
                     shut, left, inTime, torn>>
      /\ c \in Tasks
  BY CallerTask DEF Enqueue, cacheVars, exitVars
<1>3. event' \in [Events -> EventState]
  <2> DEFINE r == [at |-> "queued", logger |-> task[c].logger]
  <2>1. event' = [event EXCEPT ![task[c].event] = r] /\ event \in [Events -> EventState]
    BY TypeRest DEF Enqueue
  <2>2. r \in EventState
    BY CallerTask DEF EventState
  <2> HIDE DEF r
  <2> QED
    BY <2>1, <2>2
<1>4. TypeOK'
  BY <1>1, <1>2, <1>3, TypeMoves, TypeRest
<1>5. Budget'
  BY <1>1, <1>2, BudgetMoves, MovesBegun DEF Moves
<1>6. Named'
  BY <1>1, MovesBegun DEF Sound
<1> QED
  BY <1>4, <1>5, <1>6

LEMMA SoundStops ==
  ASSUME Sound, NEW t \in Tasks, NEW f \in Loggers, Stopped(t, f),
         UNCHANGED <<loopOf, has, handed, created, event, exit, shut, inTime, torn, calls>>,
         cached' \in Loggers \cup {None}, lock' \in Callers \cup {None}, lockedIn' \in BOOLEAN,
         left' \subseteq Loggers, clears' \in 0 .. MaxCalls
  PROVE  TypeOK' /\ Named' /\ Begun' = Begun
<1>1. TypeOK'
  BY TypeRest, TypeKept DEF Stopped
<1>2. Named' /\ Begun' = Begun
  BY DEF Stopped, Named, Begun, Sound
<1> QED
  BY <1>1, <1>2

\* The same with a call that begins.
LEMMA SoundDrain ==
  ASSUME Sound, NEW c \in Callers, Drain(c)
  PROVE  TypeOK' /\ Budget' /\ Named'
<1>1. /\ has[c] \in Loggers /\ Stopped(c, has[c]) /\ c \in Tasks
      /\ calls' \in 0 .. MaxCalls /\ calls' = calls + 1
      /\ UNCHANGED <<loopOf, has, lock, cached, clears, handed, lockedIn, created, event, exit,
                     shut, left, inTime, torn, thread>>
  BY CallerTask, CallsBound, Stopping DEF Drain, cacheVars, exitVars
<1>2. TypeOK'
  BY <1>1, TypeRest, TypeKept DEF Stopped
<1>3. Named' /\ Begun' = Begun
  BY <1>1 DEF Named, Begun, Sound
<1>4. Budget'
  BY <1>1, <1>3, BudgetMoves DEF Stopped
<1> QED
  BY <1>2, <1>3, <1>4

LEMMA SoundLose ==
  ASSUME Sound, NEW c \in Callers, Lose(c)
  PROVE  TypeOK' /\ Budget' /\ Named'
<1>1. /\ task[c].logger \in Loggers /\ Stopped(c, task[c].logger) /\ c \in Tasks
      /\ UNCHANGED <<loopOf, calls, has, cached, clears, handed, created, event, exit,
                     shut, left, inTime, torn>>
      /\ lock' = c
  BY CallerTask, Stopping DEF Lose, exitVars
<1>2. lockedIn' \in BOOLEAN
  BY DEF Lose
<1>3. TypeOK' /\ Named' /\ Begun' = Begun
  BY <1>1, <1>2, SoundStops, TypeRest
<1>4. Budget'
  BY <1>1, <1>3, BudgetMoves DEF Stopped
<1> QED
  BY <1>3, <1>4

LEMMA SoundClear ==
  ASSUME Sound, NEW c \in Callers, Clear(c)
  PROVE  TypeOK' /\ Budget' /\ Named'
<1>1. /\ task[c].at = "clearing" /\ c \in Tasks /\ cached' = None
      /\ clears' = clears + 1 /\ clears' \in 0 .. MaxCalls
      /\ UNCHANGED <<loopOf, calls, has, lock, handed, lockedIn, created, thread, event, exit,
                     shut, left, inTime, torn>>
  BY CallerTask, Fresh3 DEF Clear, exitVars
<1>2. handed' \subseteq [clears : 0 .. MaxCalls, logger : Loggers]
  BY <1>1, TypeRest
<1>3. CASE cached = None
  <2>1. Moves(c, "idle", None, None, NoEvent)
    BY <1>3, CallerMoves
  <2>2. TypeOK'
    BY <1>1, <1>2, <2>1, TypeRest, TypeKept DEF Moves
  <2>3. Budget'
    BY <1>1, <2>1, BudgetClears, MovesBegun DEF Moves
  <2>4. Named'
    BY <2>1, MovesBegun DEF Sound
  <2> QED
    BY <2>2, <2>3, <2>4
<1>4. CASE cached # None
  <2>1. cached \in Loggers /\ Stopped(c, cached)
    BY <1>1, <1>4, TypeRest, Stopping DEF Clear
  <2>2. TypeOK' /\ Named' /\ Begun' = Begun
    BY <1>1, <2>1, SoundStops, TypeRest
  <2>3. Budget'
    BY <1>1, <2>1, <2>2, BudgetClears DEF Stopped
  <2> QED
    BY <2>2, <2>3
<1> QED
  BY <1>3, <1>4

LEMMA SoundDrains ==
  ASSUME Sound, NEW t \in Tasks, Drains(t)
  PROVE  TypeOK' /\ Budget' /\ Named'
<1>1. CASE Join(t)
  <2>1. UNCHANGED <<loopOf, calls, has, lock, cached, clears, handed, lockedIn, created, thread,
                    event, exit, shut, left, inTime>>
    BY <1>1 DEF Join, cacheVars, exitVars
  <2>2. TypeOK'
    BY <1>1, <2>1, JoinMoves, TypeRest, TypeKept
  <2>3. Named' /\ Begun' = Begun
    BY <2>1 DEF Named, Begun, Sound
  <2>4. Budget'
    BY <1>1, <2>1, <2>3, JoinMoves, BudgetMoves
  <2> QED
    BY <2>2, <2>3, <2>4
<1>2. CASE Count(t)
  <2>1. UNCHANGED <<loopOf, calls, has, lock, cached, clears, handed, lockedIn, created,
                    exit, shut, left, inTime, torn>>
    BY <1>2 DEF Count, cacheVars, exitVars
  <2>2. Moves(t, "cleaning", task[t].logger, task[t].thread, task[t].event)
        /\ event' \in [Events -> EventState]
    BY <1>2, CountMoves DEF Turned
  <2>3. TypeOK'
    BY <2>1, <2>2, TypeMoves, TypeRest
  <2>4. Budget' /\ Named'
    BY <2>1, <2>2, BudgetMoves, MovesBegun DEF Moves, Sound
  <2> QED
    BY <2>3, <2>4
<1> QED
  BY <1>1, <1>2 DEF Drains

LEMMA SoundCleans ==
  ASSUME Sound, NEW t \in Tasks, Cleans(t),
         UNCHANGED <<loopOf, cached, lockedIn>>,
         has' \in [Callers -> Loggers \cup {None}], lock' \in Callers \cup {None},
         handed' \subseteq [clears : 0 .. MaxCalls, logger : Loggers]
  PROVE  TypeOK' /\ Budget' /\ Named'
<1>1. TypeOK'
  BY TypeRest, TypeKept DEF Cleans
<1>2. Named' /\ Begun' = Begun
  BY DEF Cleans, Named, Begun, Sound
<1>3. Budget'
  BY <1>2, BudgetMoves DEF Cleans
<1> QED
  BY <1>1, <1>2, <1>3

LEMMA SoundCleanup ==
  ASSUME Sound, NEW c \in Callers, Cleanup(c)
  PROVE  TypeOK' /\ Budget' /\ Named'
<1>1. Cleans(c) /\ c \in Tasks /\ UNCHANGED <<loopOf, cached, lockedIn>>
  BY CallerTask, CleaningMoves DEF Cleanup
<1>2. has' \in [Callers -> Loggers \cup {None}] /\ lock' \in Callers \cup {None}
      /\ handed' \subseteq [clears : 0 .. MaxCalls, logger : Loggers]
  <2>1. CASE lock = c
    <3>1. cached \in Loggers
      BY <2>1, CallerTask, TypeRest DEF Sound, CacheInv, Current
    <3>2. has' = [has EXCEPT ![c] = cached] /\ lock' = None
          /\ handed' = handed \cup {[clears |-> clears, logger |-> cached]}
      BY <2>1 DEF Cleanup
    <3> QED
      BY <3>1, <3>2, HandsOut, TypeRest
  <2>2. CASE lock # c
    BY <2>2, TypeRest DEF Cleanup
  <2> QED
    BY <2>1, <2>2
<1> QED
  BY <1>1, <1>2, SoundCleans

LEMMA SoundThreads ==
  ASSUME Sound, NEW g \in Threads, Begin(g) \/ Gather(g) \/ Process(g) \/ Finish(g)
  PROVE  TypeOK' /\ Budget' /\ Named'
<1>1. ASSUME thread' \in [Threads -> ThreadState], logger' \in [Loggers -> LoggerState],
             event' \in [Events -> EventState],
             \A h \in Threads : /\ thread'[h].at = "none" <=> thread[h].at = "none"
                                /\ thread'[h].logger = thread[h].logger
      PROVE  TypeOK' /\ Budget' /\ Named'
  <2>1. UNCHANGED <<loopOf, calls, task, has, lock, cached, clears, handed, lockedIn, created,
                    exit, shut, left, inTime, torn>>
    BY DEF Begin, Gather, Process, Finish, cacheVars, exitVars
  <2>2. TypeOK'
    BY <1>1, <2>1, TypeRest, TypeKept
  <2>3. Begun' = Begun /\ Named'
    BY <1>1 DEF Begun, Named, Sound
  <2> QED
    BY <2>1, <2>2, <2>3, BudgetStays
<1>2. ASSUME NEW a \in {"gathering", "running", "ended"}, Runs(g, a), thread[g].at # "none"
      PROVE  /\ thread' \in [Threads -> ThreadState]
             /\ \A h \in Threads : /\ thread'[h].at = "none" <=> thread[h].at = "none"
                                   /\ thread'[h].logger = thread[h].logger
  BY <1>2 DEF Runs
<1>3. CASE Begin(g)
  <2>1. event' = event /\ thread[g].at = "new" /\ Runs(g, "gathering")
        /\ logger' \in [Loggers -> LoggerState]
    BY <1>3, BeginMoves DEF Begin
  <2> QED
    BY <1>1, <1>2, <2>1, TypeRest
<1>4. CASE Gather(g)
  <2>1. PICK a \in {"running", "ended"} : thread' = [thread EXCEPT ![g].at = a]
    BY <1>4 DEF Gather
  <2>2. event' = event /\ logger' = logger /\ thread[g].at = "gathering" /\ Runs(g, a)
    BY <1>4, <2>1, RunsTo DEF Gather
  <2> QED
    BY <1>1, <1>2, <2>2, TypeRest
<1>5. CASE Process(g)
  <2>1. Turned(Queue(thread[g].logger), "processed")
    BY <1>5, Turn DEF Process, Processed
  <2>2. UNCHANGED <<logger, thread>>
    BY <1>5 DEF Process
  <2> QED
    BY <1>1, <2>1, <2>2, TypeRest DEF Turned
<1>6. CASE Finish(g)
  <2>1. Turned(Queue(thread[g].logger), "processed")
    BY <1>6, Turn DEF Finish, Processed
  <2>2. logger' = logger /\ thread[g].at = "running" /\ Runs(g, "ended")
    BY <1>6, RunsTo DEF Finish
  <2> QED
    BY <1>1, <1>2, <2>1, <2>2, TypeRest DEF Turned
<1> QED
  BY <1>3, <1>4, <1>5, <1>6

LEMMA SoundExit ==
  ASSUME Sound, BeginExit \/ ExitStep
  PROVE  TypeOK' /\ Budget' /\ Named'
<1>0. Main \in Tasks
  BY DEF Tasks
<1>1. CASE BeginExit \/ ExitRefuses \/ EndExit
  <2>1. UNCHANGED <<loopOf, calls, task, has, lock, cached, clears, handed, lockedIn, created,
                    logger, thread, event, torn>>
    BY <1>1 DEF BeginExit, Signal, InterpreterExits, Exits, ExitRefuses, EndExit, cacheVars
  <2>2. Registered \subseteq Loggers
    <3>1. created \in 0 .. MaxCalls /\ MaxCalls \in Nat
      BY TypeRest, LifecycleAssumption
    <3> QED
      BY <3>1 DEF Registered, Loggers
  <2>3. /\ exit' \in {"draining", "over"} /\ shut' \in BOOLEAN
        /\ left' \subseteq Loggers /\ inTime' \subseteq Events
    BY <1>1, <2>2, TypeRest DEF BeginExit, Signal, InterpreterExits, Exits, ExitRefuses, EndExit
  <2>4. TypeOK'
    BY <2>1, <2>3, TypeRest, TypeKept
  <2>5. Begun' = Begun /\ Named'
    BY <2>1 DEF Begun, Named, Sound
  <2> QED
    BY <2>1, <2>4, <2>5, BudgetStays
<1>2. ASSUME NEW f \in Loggers, ExitDrains(f)
      PROVE  TypeOK' /\ Budget' /\ Named'
  <2>1. /\ Stopped(Main, f)
        /\ UNCHANGED <<loopOf, calls, has, lock, cached, clears, handed, lockedIn, created, event,
                       exit, shut, inTime, torn>>
        /\ left' \subseteq left
    BY <1>0, <1>2, Stopping DEF ExitDrains, cacheVars
  <2>2. TypeOK' /\ Named' /\ Begun' = Begun
    BY <1>0, <2>1, SoundStops, TypeRest
  <2>3. Budget'
    BY <1>0, <2>1, <2>2, BudgetMoves DEF Stopped
  <2> QED
    BY <2>2, <2>3
<1>3. CASE ExitCleansUp
  <2>1. Cleans(Main)
    BY <1>0, <1>3, CleaningMoves
  <2>2. UNCHANGED <<loopOf, has, lock, cached, handed, lockedIn>>
    BY <1>3 DEF ExitCleansUp, cacheVars
  <2> QED
    BY <1>0, <2>1, <2>2, SoundCleans, TypeRest
<1> QED
  BY <1>1, <1>2, <1>3 DEF ExitStep

LEMMA CacheInvStep ==
  ASSUME CacheInv, [Next]_vars
  PROVE  CacheInv'
<1>1. CASE Next
  BY <1>1, HandlingStep, CacheStep DEF CacheInv
<1>2. CASE UNCHANGED vars
  BY <1>2 DEF CacheInv, Handling, Current, SameInstance, vars, cacheVars
<1> QED BY <1>1, <1>2

LEMMA SoundStep ==
  ASSUME Sound, [Next]_vars
  PROVE  Sound'
<1>1. CacheInv'
  BY CacheInvStep DEF Sound
<1>2. CASE Next
  <2>1. ASSUME NEW c \in Callers, Proceed(c) \/ Hit(c) \/ Miss(c) \/ Drain(c) \/ BeginClear(c)
        PROVE  TypeOK' /\ Budget' /\ Named'
    BY <2>1, SoundMoves, SoundStarts, SoundLose, SoundEnqueue, SoundClear, SoundCleanup, SoundDrain
       DEF Proceed
  <2> QED
    BY <1>1, <1>2, <2>1, SoundCalls, SoundDrains, SoundThreads, SoundExit DEF Next, Sound
<1>3. CASE UNCHANGED vars
  <2>1. UNCHANGED <<loopOf, calls, task, has, lock, cached, clears, handed, lockedIn, created,
                    logger, thread, event, exit, shut, left, inTime, torn>>
    BY <1>3 DEF vars, cacheVars, exitVars
  <2>2. TypeOK'
    BY <2>1, TypeRest, TypeKept
  <2>3. Begun' = Begun /\ Named'
    BY <2>1 DEF Begun, Named, Sound
  <2> QED
    BY <1>1, <2>1, <2>2, <2>3, BudgetStays DEF Sound
<1> QED
  BY <1>2, <1>3

LEMMA SoundInitially == Init => Sound
<1> SUFFICES ASSUME Init PROVE Sound
  OBVIOUS
<1>1. CacheInv
  BY CacheInitially
<1>2. /\ Idle \in TaskState /\ Fresh \in LoggerState /\ NoThread \in ThreadState
      /\ Idle.at = "idle" /\ NoThread.at = "none"
  BY DEF Idle, Fresh, NoThread, TaskState, TaskStates, LoggerState, ThreadState, None
<1>3. task \in [Tasks -> TaskState] /\ logger \in [Loggers -> LoggerState]
      /\ thread \in [Threads -> ThreadState]
  BY <1>2 DEF Init
<1>4. event \in [Events -> EventState]
  BY DEF Init, EventState
<1>5. TypeOK
  <2>1. /\ has \in [Callers -> Loggers \cup {None}] /\ cached \in Loggers \cup {None}
        /\ lock \in Callers \cup {None} /\ handed = {} /\ torn = {} /\ inTime = {} /\ left = {}
        /\ exit = "no" /\ shut \in BOOLEAN /\ lockedIn \in BOOLEAN /\ loopOf \in Placements
    BY DEF Init
  <2>2. created \in 0 .. MaxCalls /\ clears \in 0 .. MaxCalls /\ calls \in 0 .. MaxCalls
    BY LifecycleAssumption DEF Init
  <2> QED
    BY <1>3, <1>4, <2>1, <2>2
       DEF TypeOK, TaskState, TaskStates, LoggerState, ThreadState, EventState
<1>6. Begun = {} /\ Named
  BY <1>2 DEF Init, Begun, Named
<1>7. \A S \in SUBSET {"building", "starting", "clearing"} : At(S) = {}
  BY <1>2 DEF Init, At
<1>8. Budget
  <2>1. IsFiniteSet({}) /\ Cardinality({}) = 0
    BY FS_EmptySet
  <2>2. created = 0 /\ clears = 0 /\ calls = 0
    BY DEF Init
  <2>3. /\ At({"building", "starting", "clearing"}) = {} /\ At({"building", "starting"}) = {}
        /\ At({"building"}) = {} /\ At({"clearing"}) = {}
    BY <1>7
  <2>4. 1 .. 0 = {}
    OBVIOUS
  <2> QED
    BY <1>6, <2>1, <2>2, <2>3, <2>4 DEF Budget
<1> QED
  BY <1>1, <1>5, <1>6, <1>8 DEF Sound

(***************************************************************************)
(* The invariant of the types: what is created, started and cleared was    *)
(* called for, so the names of loggers and threads never run out.          *)
(***************************************************************************)
THEOREM AlwaysSound == Spec => []Sound
<1> QED
  BY SoundInitially, SoundStep, PTL DEF Spec

(***************************************************************************)
(* The types, for any callers, loops, placements and calls: every logger   *)
(* and thread that is named exists, so no start() or drain() handles one   *)
(* that was never made.                                                    *)
(***************************************************************************)
THEOREM LifecycleTypeCorrect == Spec => []TypeOK
<1>1. Sound => TypeOK
  BY DEF Sound
<1> QED
  BY <1>1, AlwaysSound, PTL

-----------------------------------------------------------------------------
(***************************************************************************)
(* Who uses a logger has been handed it; only the call that made it has it *)
(* in hand before.                                                         *)
(***************************************************************************)
Handed(f) == \E h \in handed : h.logger = f

Hands ==
  /\ \A c \in Callers : has[c] # None => Handed(has[c])
  /\ cached # None => Handed(cached)
  /\ \A t \in Tasks :
       IF task[t].event = NoEvent THEN task[t].at \notin {"starting", "enqueueing"}
       ELSE task[t].at \in {"starting", "waiting", "enqueueing"} /\ Handed(task[t].logger)

\* Loggers in use have been created; so has the logger of a queued event.
Numbered ==
  /\ cached \in 0 .. created
  /\ \A c \in Callers : has[c] \in 0 .. created
  /\ \A t \in Tasks : task[t].logger \in 0 .. created
  /\ \A e \in Events : event[e].at = "queued" => event[e].logger \in 1 .. created
  /\ left \subseteq 1 .. created

\* An event on its way to a queue is with one task.
Carrying ==
  \A t \in Tasks : task[t].event # NoEvent =>
    /\ event[task[t].event].at = "carried"
    /\ \A u \in Tasks : task[u].event = task[t].event => u = t

Ties == Hands /\ Numbered /\ Carrying

LEMMA HandsKept ==
  ASSUME Hands, NEW t \in Tasks, NEW a, NEW f, NEW g, NEW e, Becomes(t, a, f, g, e),
         handed \subseteq handed',
         IF e = NoEvent THEN a \notin {"starting", "enqueueing"}
         ELSE a \in {"starting", "waiting", "enqueueing"} /\ Handed(f)',
         \A c \in Callers : has'[c] = has[c] \/ Handed(has[c])',
         cached' \in {None, cached} \/ Handed(cached)'
  PROVE  Hands'
<1>1. \A k : Handed(k) => \E h \in handed' : h.logger = k
  BY DEF Handed
<1>2. \A c \in Callers : has'[c] # None => Handed(has[c])'
  BY <1>1 DEF Hands, Handed
<1>3. cached' # None => Handed(cached)'
  BY <1>1 DEF Hands, Handed
<1>4. ASSUME NEW u \in Tasks, u # t
      PROVE  IF task'[u].event = NoEvent THEN task'[u].at \notin {"starting", "enqueueing"}
             ELSE task'[u].at \in {"starting", "waiting", "enqueueing"}
                  /\ \E h \in handed' : h.logger = task'[u].logger
  <2>1. task'[u] = task[u]
    BY <1>4 DEF Becomes
  <2> QED
    BY <1>1, <2>1 DEF Hands
<1>5. IF task'[t].event = NoEvent THEN task'[t].at \notin {"starting", "enqueueing"}
      ELSE task'[t].at \in {"starting", "waiting", "enqueueing"}
           /\ \E h \in handed' : h.logger = task'[t].logger
  BY DEF Becomes, Handed
<1> QED
  BY <1>2, <1>3, <1>4, <1>5 DEF Hands, Handed

LEMMA NumberedKept ==
  ASSUME Sound, Numbered, created' \in {created, created + 1},
         NEW t \in Tasks, NEW a, NEW f, NEW g, NEW e, Becomes(t, a, f, g, e),
         f \in 0 .. created',
         \A c \in Callers : has'[c] = has[c] \/ has'[c] \in 0 .. created',
         cached' = cached \/ cached' \in 0 .. created',
         left' \subseteq left,
         \A x \in Events : event'[x].at = "queued" =>
           \/ event'[x].logger \in 1 .. created'
           \/ event[x].at = "queued" /\ event'[x].logger = event[x].logger
  PROVE  Numbered'
<1>1. created \in Nat
  BY TypeParts DEF Sound
<1>2. 0 .. created \subseteq 0 .. created' /\ 1 .. created \subseteq 1 .. created'
  BY <1>1
<1>3. \A u \in Tasks : task'[u].logger \in 0 .. created'
  BY <1>2 DEF Becomes, Numbered
<1> QED
  BY <1>2, <1>3 DEF Numbered

LEMMA CarryingKept ==
  ASSUME Carrying, NEW t \in Tasks, NEW a, NEW f, NEW g, NEW e, Becomes(t, a, f, g, e),
         e \in {NoEvent, task[t].event},
         \A u \in Tasks : task[u].event # NoEvent /\ (u # t \/ e # NoEvent) =>
           event'[task[u].event].at = event[task[u].event].at
  PROVE  Carrying'
<1>1. \A u \in Tasks : task'[u].event # NoEvent =>
        task'[u].event = task[u].event /\ (u # t \/ e # NoEvent)
  BY DEF Becomes
<1>2. ASSUME NEW u \in Tasks, task'[u].event # NoEvent
      PROVE  /\ event'[task'[u].event].at = "carried"
             /\ \A v \in Tasks : task'[v].event = task'[u].event => v = u
  <2>1. task'[u].event = task[u].event /\ (u # t \/ e # NoEvent)
    BY <1>1, <1>2
  <2>2. event'[task'[u].event].at = "carried"
    BY <1>2, <2>1 DEF Carrying
  <2>3. ASSUME NEW v \in Tasks, task'[v].event = task'[u].event
        PROVE  v = u
    BY <1>1, <1>2, <2>1, <2>3 DEF Carrying
  <2> QED
    BY <2>2, <2>3
<1> QED
  BY <1>2 DEF Carrying

\* Events leave the queues, and are not queued.
Settles ==
  \A x \in Events :
    /\ event'[x].at = "queued" => event[x].at = "queued" /\ event'[x].logger = event[x].logger
    /\ event[x].at = "carried" => event'[x].at = "carried"

\* What the lemmas ask of a step that leaves what was handed out alone.
LEMMA TiesKept ==
  ASSUME Sound, Ties, NEW t \in Tasks, NEW a, NEW f, NEW g, NEW e, Becomes(t, a, f, g, e),
         UNCHANGED <<has, handed>>, cached' \in {None, cached},
         created' \in {created, created + 1}, f \in 0 .. created',
         e \in {NoEvent, task[t].event},
         IF e = NoEvent THEN a \notin {"starting", "enqueueing"}
         ELSE a \in {"starting", "waiting", "enqueueing"} /\ f = task[t].logger,
         Settles, left' \subseteq left
  PROVE  Ties'
<1>1. created \in Nat /\ 0 \in 0 .. created'
  BY TypeParts DEF Sound
<1>2. e # NoEvent => Handed(f)'
  BY DEF Ties, Hands, Handed
<1>3. Hands'
  BY <1>2, HandsKept DEF Ties
<1>4. Numbered'
  BY <1>1, NumberedKept DEF Ties, None, Settles
<1>5. \A u \in Tasks : task[u].event # NoEvent =>
        event'[task[u].event].at = event[task[u].event].at
  <2>1. \A u \in Tasks : task[u].event \in Events \cup {NoEvent}
    BY TypeRest DEF TaskState
  <2> QED
    BY <2>1 DEF Ties, Carrying, Settles
<1>6. Carrying'
  BY <1>5, CarryingKept DEF Ties
<1> QED
  BY <1>3, <1>4, <1>6 DEF Ties

LEMMA TiesStay ==
  ASSUME Sound, Ties, UNCHANGED <<task, has, cached, created, handed>>,
         left' \subseteq 1 .. created, Settles
  PROVE  Ties'
<1>1. Hands'
  BY DEF Ties, Hands, Handed
<1>2. Numbered'
  BY DEF Ties, Numbered, Settles
<1>3. Carrying'
  <2>1. \A u \in Tasks : task[u].event \in Events \cup {NoEvent}
    BY TypeRest DEF TaskState
  <2> QED
    BY <2>1 DEF Ties, Carrying, Settles
<1> QED
  BY <1>1, <1>2, <1>3 DEF Ties

LEMMA Settled == ASSUME UNCHANGED event PROVE Settles
BY DEF Settles

LEMMA TurnSettles ==
  ASSUME NEW S, NEW at \in {"processed", "dropped"}, Turned(S, at),
         \A x \in S : event[x].at = "queued"
  PROVE  Settles
BY DEF Turned, Settles

LEMMA QueueParts ==
  ASSUME NEW f
  PROVE  \A e \in Queue(f) : event[e].at = "queued" /\ event[e].logger = f
BY DEF Queue

\* A task that has begun none of the calls that log has no event.
LEMMA NoEventYet ==
  ASSUME Sound, Hands, NEW t \in Tasks, task[t].at \notin {"starting", "waiting", "enqueueing"}
  PROVE  task[t].event = NoEvent
BY DEF Hands

LEMMA TiesHandOut ==
  ASSUME Sound, Ties, NEW c \in Callers, TakeHit(c) \/ Insert(c) \/ Cleanup(c)
  PROVE  Ties'
<1>1. Becomes(c, "idle", None, None, NoEvent) /\ c \in Tasks
  BY CallerTask, CallerMoves, CleaningMoves DEF Moves, Cleans, Cleanup
<1>2. UNCHANGED <<event, created, left>>
  BY DEF TakeHit, Insert, Cleanup, exitVars
<1>3. \/ UNCHANGED <<has, handed, cached>>
      \/ /\ has' = [has EXCEPT ![c] = cached'] /\ cached' # None
         /\ handed' = handed \cup {[clears |-> clears, logger |-> cached']}
         /\ cached' \in {cached, task[c].logger}
  <2>1. CASE TakeHit(c)
    BY <2>1 DEF TakeHit
  <2>2. CASE Insert(c)
    <3>1. task[c].logger # None
      BY <2>2, InHand DEF Insert, Sound, CacheInv, Tasks
    <3> QED
      BY <2>2, <3>1 DEF Insert
  <2>3. CASE Cleanup(c)
    <3>1. lock = c => cached # None
      BY CallerTask DEF Sound, CacheInv, Current
    <3> QED
      BY <2>3, <3>1 DEF Cleanup
  <2> QED
    BY <2>1, <2>2, <2>3
<1>4. CASE UNCHANGED <<has, handed, cached>>
  <2>1. created \in Nat /\ None \in 0 .. created
    BY TypeParts DEF Sound, None
  <2> QED
    BY <1>1, <1>2, <1>4, <2>1, TiesKept, Settled
<1>5. CASE /\ has' = [has EXCEPT ![c] = cached'] /\ cached' # None
           /\ handed' = handed \cup {[clears |-> clears, logger |-> cached']}
           /\ cached' \in {cached, task[c].logger}
  <2>1. handed \subseteq handed' /\ \E h \in handed' : h.logger = cached'
    <3>1. PICK h : h = [clears |-> clears, logger |-> cached']
      OBVIOUS
    <3>2. h.logger = cached' /\ handed' = handed \cup {h}
      BY <1>5, <3>1
    <3> QED
      BY <3>2
  <2>2. \A d \in Callers : has'[d] = has[d] \/ has'[d] = cached'
    BY <1>5, TypeRest
  <2>3. Hands'
    BY <1>1, <2>1, <2>2, HandsKept DEF Ties, Handed
  <2>4. cached' \in 0 .. created /\ None \in 0 .. created
    BY <1>1, <1>5, TypeParts DEF Ties, Numbered, Sound, None
  <2>5. Numbered'
    BY <1>1, <1>2, <2>2, <2>4, NumberedKept DEF Ties
  <2>6. Carrying'
    BY <1>1, <1>2, CarryingKept DEF Ties
  <2> QED
    BY <2>3, <2>5, <2>6 DEF Ties
<1> QED
  BY <1>3, <1>4, <1>5

LEMMA TiesCall ==
  ASSUME Sound, Ties, NEW c \in Callers, NEW e \in Events, Call(c, e)
  PROVE  Ties'
<1>1. PICK a \in {"starting", "enqueueing"} : Moves(c, a, has[c], None, e)
  BY CallMoves
<1>2. /\ UNCHANGED <<has, handed, cached, created, left>> /\ c \in Tasks /\ event[e].at = "new"
      /\ has[c] # None /\ task[c] = Idle /\ e # NoEvent
  BY CallerTask, LifecycleAssumption DEF Call, Calls, cacheVars, exitVars
<1>3. \A x \in Events : x # e => event'[x] = event[x]
  BY TypeRest DEF Call
<1>4. event'[e].at = "carried"
  <2>1. event[e] \in EventState /\ event' = [event EXCEPT ![e].at = "carried"]
        /\ event \in [Events -> EventState]
    BY TypeRest DEF Call
  <2> QED
    BY <2>1 DEF EventState
<1>5. Hands'
  <2>1. Handed(has[c])'
    BY <1>2 DEF Ties, Hands, Handed
  <2> QED
    BY <1>1, <1>2, <2>1, HandsKept DEF Ties, Moves
<1>6. Numbered'
  BY <1>1, <1>2, <1>3, <1>4, NumberedKept DEF Ties, Moves, Numbered
<1>7. Carrying'
  <2>1. \A u \in Tasks : u # c => task'[u] = task[u] /\ task[u].event # e
    BY <1>1, <1>2 DEF Moves, Becomes, Ties, Carrying
  <2>2. \A u \in Tasks : task[u].event \in Events \cup {NoEvent}
    BY TypeRest DEF TaskState
  <2>3. ASSUME NEW u \in Tasks, u # c, task'[u].event # NoEvent
        PROVE  /\ event'[task'[u].event].at = "carried"
               /\ \A v \in Tasks : task'[v].event = task'[u].event => v = u
    BY <1>1, <1>3, <2>1, <2>2, <2>3 DEF Moves, Becomes, Ties, Carrying
  <2>4. /\ event'[task'[c].event].at = "carried"
        /\ \A v \in Tasks : task'[v].event = task'[c].event => v = c
    BY <1>1, <1>4, <2>1 DEF Moves, Becomes
  <2> QED
    BY <2>3, <2>4 DEF Carrying
<1> QED
  BY <1>5, <1>6, <1>7 DEF Ties

LEMMA TiesEnqueue ==
  ASSUME Sound, Ties, NEW c \in Callers, Enqueue(c)
  PROVE  Ties'
<1>1. Becomes(c, "idle", None, None, NoEvent)
  BY CallerMoves DEF Moves
<1>2. /\ UNCHANGED <<has, handed, cached, created, left>> /\ c \in Tasks
      /\ task[c].at = "enqueueing" /\ task[c].logger \in Loggers
  BY CallerTask DEF Enqueue, cacheVars, exitVars
<1>3. PICK x : x = task[c].event
  OBVIOUS
<1>4. x \in Events /\ \A u \in Tasks : u # c => task[u].event # x
  BY <1>2, <1>3, CallerTask DEF Ties, Hands, Carrying
<1>5. \A y \in Events : y # x => event'[y] = event[y]
  BY <1>3, TypeRest DEF Enqueue
<1>6. event'[x].logger = task[c].logger
  <2> DEFINE r == [at |-> "queued", logger |-> task[c].logger]
  <2>1. event' = [event EXCEPT ![x] = r] /\ r.logger = task[c].logger
    BY <1>3 DEF Enqueue
  <2> HIDE DEF r
  <2> QED
    BY <1>4, <2>1, TypeRest
<1>7. task[c].logger \in 1 .. created /\ None \in 0 .. created
  BY <1>2, TypeParts DEF Ties, Numbered, Loggers, Sound, None
<1>8. Hands'
  BY <1>1, <1>2, HandsKept DEF Ties
<1>9. Numbered'
  BY <1>1, <1>2, <1>5, <1>6, <1>7, NumberedKept DEF Ties
<1>10. Carrying'
  <2>1. \A u \in Tasks : task[u].event \in Events \cup {NoEvent}
    BY TypeRest DEF TaskState
  <2> QED
    BY <1>1, <1>2, <1>4, <1>5, <2>1, CarryingKept DEF Ties
<1> QED
  BY <1>8, <1>9, <1>10 DEF Ties

LEMMA TiesMoves ==
  ASSUME Sound, Ties, NEW c \in Callers,
         \/ Hit(c) \/ Miss(c) \/ BeginClear(c) \/ StartReturns(c) \/ Build(c) \/ StartAgain(c)
         \/ Lose(c) \/ Drain(c) \/ Clear(c)
  PROVE  Ties'
<1>0. /\ c \in Tasks /\ created \in Nat /\ None \in 0 .. created /\ task[c].logger \in 0 .. created
      /\ has[c] \in 0 .. created /\ cached \in 0 .. created
  BY CallerTask, TypeParts DEF Sound, None, Ties, Numbered
<1>1. CASE Hit(c) \/ Miss(c) \/ BeginClear(c)
  <2>1. task[c].event = NoEvent
    BY <1>1 DEF Hit, Miss, BeginClear, Calls, Idle
  <2>2. PICK a \in {"hit", "building", "clearing"} :
          Moves(c, a, task[c].logger, task[c].thread, task[c].event)
    BY <1>1, CallerMoves
  <2>3. UNCHANGED <<has, handed, cached, created, event, left>>
    BY <1>1 DEF Hit, Miss, BeginClear, cacheVars, exitVars
  <2> QED
    BY <1>0, <2>1, <2>2, <2>3, TiesKept, Settled DEF Moves
<1>2. CASE StartReturns(c)
  <2>1. PICK a : /\ a = IF task[c].event = NoEvent THEN "locking" ELSE "enqueueing"
                 /\ Moves(c, a, task[c].logger, task[c].thread, task[c].event)
    BY <1>2, CallerMoves
  <2>2. UNCHANGED <<has, handed, cached, created, event, left>>
    BY <1>2 DEF StartReturns, cacheVars, exitVars
  <2> QED
    BY <1>0, <2>1, <2>2, TiesKept, Settled DEF Moves
<1>3. CASE Build(c)
  <2>1. Becomes(c, "waiting", created + 1, task[c].thread, task[c].event)
    BY <1>3, BuildStarts DEF Starts
  <2>2. UNCHANGED <<has, handed, cached, event, left>> /\ created' = created + 1
        /\ task[c].at = "building"
    BY <1>3 DEF Build, cacheVars, exitVars
  <2>3. created + 1 \in 0 .. created'
    BY <1>0, <2>2
  <2>4. task[c].event = NoEvent
    BY <1>0, <2>2, NoEventYet DEF Ties
  <2> QED
    BY <1>0, <2>1, <2>2, <2>3, <2>4, TiesKept, Settled
<1>4. CASE StartAgain(c)
  <2>1. Becomes(c, "waiting", task[c].logger, task[c].thread, task[c].event)
    BY <1>4, StartAgainStarts DEF Starts
  <2>2. UNCHANGED <<has, handed, cached, created, event, left>>
    BY <1>4 DEF StartAgain, cacheVars, exitVars
  <2> QED
    BY <1>0, <2>1, <2>2, TiesKept, Settled
<1>5. ASSUME NEW f \in Loggers, Stopped(c, f), f \in 0 .. created, cached' \in {None, cached},
             UNCHANGED <<has, handed, created, event, left>>
      PROVE  Ties'
  BY <1>0, <1>5, TiesKept, Settled DEF Stopped
<1>6. CASE Lose(c)
  <2>1. task[c].logger \in Loggers /\ Stopped(c, task[c].logger)
    BY <1>6, CallerTask, Stopping DEF Lose
  <2> QED
    BY <1>0, <1>5, <1>6, <2>1 DEF Lose, exitVars
<1>7. CASE Drain(c)
  <2>1. has[c] \in Loggers /\ Stopped(c, has[c])
    BY <1>7, CallerTask, Stopping DEF Drain
  <2> QED
    BY <1>0, <1>5, <1>7, <2>1 DEF Drain, cacheVars, exitVars
<1>8. CASE Clear(c)
  <2>1. CASE cached = None
    <3>1. Moves(c, "idle", None, None, NoEvent)
      BY <1>8, <2>1, CallerMoves
    <3>2. UNCHANGED <<has, handed, created, event, left>> /\ cached' = None
      BY <1>8 DEF Clear, exitVars
    <3> QED
      BY <1>0, <3>1, <3>2, TiesKept, Settled DEF Moves
  <2>2. CASE cached # None
    <3>1. cached \in Loggers /\ Stopped(c, cached)
      BY <1>0, <1>8, <2>2, TypeRest, Stopping DEF Clear
    <3> QED
      BY <1>0, <1>5, <1>8, <3>1 DEF Clear, exitVars
  <2> QED
    BY <2>1, <2>2
<1> QED
  BY <1>1, <1>2, <1>3, <1>4, <1>6, <1>7, <1>8

LEMMA TiesDrains ==
  ASSUME Sound, Ties, NEW t \in Tasks, Drains(t)
  PROVE  Ties'
<1>0. created \in Nat /\ task[t].logger \in 0 .. created
  BY TypeParts DEF Sound, Ties, Numbered
<1>1. task[t].event = NoEvent
  BY NoEventYet DEF Drains, Join, Count, Ties
<1>2. CASE Join(t)
  <2>1. UNCHANGED <<has, handed, cached, created, event, left>>
    BY <1>2 DEF Join, cacheVars, exitVars
  <2>2. Becomes(t, "counting", task[t].logger, task[t].thread, task[t].event)
    BY <1>2, JoinMoves
  <2> QED
    BY <1>0, <1>1, <2>1, <2>2, TiesKept, Settled
<1>3. CASE Count(t)
  <2>1. UNCHANGED <<has, handed, cached, created, left>>
    BY <1>3 DEF Count, cacheVars, exitVars
  <2>2. Becomes(t, "cleaning", task[t].logger, task[t].thread, task[t].event)
    BY <1>3, CountMoves DEF Moves
  <2>3. Settles
    BY <1>3, CountMoves, TurnSettles, QueueParts
  <2> QED
    BY <1>0, <1>1, <2>1, <2>2, <2>3, TiesKept
<1> QED
  BY <1>2, <1>3 DEF Drains

LEMMA TiesOthers ==
  ASSUME Sound, Ties,
         \/ \E g \in Threads : Begin(g) \/ Gather(g) \/ Process(g) \/ Finish(g)
         \/ BeginExit \/ ExitStep
  PROVE  Ties'
<1>0. Main \in Tasks /\ created \in Nat /\ left \subseteq 1 .. created /\ None \in 0 .. created
  BY TypeParts DEF Tasks, Sound, Ties, Numbered, None
<1>1. ASSUME NEW g \in Threads, Begin(g) \/ Gather(g) \/ Process(g) \/ Finish(g)
      PROVE  Ties'
  <2>1. UNCHANGED <<task, has, handed, cached, created, left>>
    BY <1>1 DEF Begin, Gather, Process, Finish, cacheVars, exitVars
  <2>2. Settles
    <3>1. CASE Begin(g) \/ Gather(g)
      BY <3>1, Settled DEF Begin, Gather
    <3>2. CASE Process(g) \/ Finish(g)
      <4>1. Turned(Queue(thread[g].logger), "processed")
        BY <3>2, Turn DEF Process, Finish, Processed
      <4> QED
        BY <4>1, TurnSettles, QueueParts
    <3> QED
      BY <1>1, <3>1, <3>2
  <2> QED
    BY <1>0, <2>1, <2>2, TiesStay
<1>2. CASE BeginExit \/ ExitRefuses \/ EndExit
  <2>1. UNCHANGED <<task, has, handed, cached, created, event>> /\ left' \subseteq 1 .. created
    BY <1>0, <1>2 DEF BeginExit, Signal, InterpreterExits, Exits,
       ExitRefuses, EndExit, Registered, cacheVars
  <2> QED
    BY <2>1, TiesStay, Settled
<1>3. ASSUME NEW f \in Loggers, ExitDrains(f)
      PROVE  Ties'
  <2>1. /\ Stopped(Main, f) /\ left' \subseteq left /\ f \in 0 .. created
        /\ UNCHANGED <<has, handed, cached, created, event>>
    BY <1>0, <1>3, Stopping DEF ExitDrains, cacheVars
  <2> QED
    BY <1>0, <2>1, TiesKept, Settled DEF Stopped
<1>4. CASE ExitCleansUp
  <2>1. Cleans(Main) /\ UNCHANGED <<has, handed, cached>>
    BY <1>0, <1>4, CleaningMoves DEF ExitCleansUp, cacheVars
  <2> QED
    BY <1>0, <2>1, TiesKept, Settled DEF Cleans
<1> QED
  BY <1>1, <1>2, <1>3, <1>4 DEF ExitStep

LEMMA TiesStep ==
  ASSUME Sound, Ties, [Next]_vars
  PROVE  Ties'
<1>1. CASE Next
  <2>1. ASSUME NEW c \in Callers, Proceed(c) \/ Hit(c) \/ Miss(c) \/ Drain(c) \/ BeginClear(c)
        PROVE  Ties'
    BY <2>1, TiesHandOut, TiesEnqueue, TiesMoves DEF Proceed
  <2> QED
    BY <1>1, <2>1, TiesCall, TiesDrains, TiesOthers DEF Next
<1>2. CASE UNCHANGED vars
  <2>1. UNCHANGED <<task, has, handed, cached, created, event, left>>
    BY <1>2 DEF vars, cacheVars, exitVars
  <2> QED
    BY <2>1, TiesStay, Settled DEF Ties, Numbered
<1> QED
  BY <1>1, <1>2

-----------------------------------------------------------------------------
(***************************************************************************)
(* As long as no start comes in the way of another or of a drain, a logger *)
(* has one thread.                                                         *)
(***************************************************************************)
OneThread == \A f \in Loggers : Live(f) \subseteq {logger[f].thread}

DrainStates == {"joining", "counting", "cleaning"}

Draining(f, S) == \E t \in Tasks : task[t].logger = f /\ task[t].at \in S

\* Thread g gathers, or has gathered, its own tasks as those of logger f.
Alive(f, g) ==
  /\ g \in Threads /\ thread[g].logger = f
  /\ \/ thread[g].at = "running"
     \/ thread[g].at = "gathering" /\ logger[f].tasks = {g}

(***************************************************************************)
(* Before the exit: worker tasks are forgotten before a logger is started  *)
(* again; a logger not asked to stop is not being drained, and its thread  *)
(* lives.                                                                  *)
(***************************************************************************)
InOrder(f) ==
  /\ logger[f].tasks # {} => logger[f].loop # None \/ Draining(f, {"counting", "cleaning"})
  /\ ~logger[f].stop =>
       /\ ~Draining(f, DrainStates)
       /\ logger[f].loop # None => Alive(f, logger[f].loop)
       /\ \A g \in Live(f) : thread[g].at = "new" => logger[f].tasks = {}

(***************************************************************************)
(* From the beginning of the exit: an event in time is in a queue whose    *)
(* thread lives until it has processed it, and the exit waits for that     *)
(* thread, or will.                                                        *)
(***************************************************************************)
Awaited(e, f, g) ==
  /\ exit = "draining" /\ event[e].at = "queued" /\ event[e].logger = f
  /\ f \in Loggers /\ g = logger[f].loop /\ Alive(f, g)
  /\ ~Draining(f, {"counting", "cleaning"})
  /\ \A t \in Tasks : task[t].logger = f /\ task[t].at = "joining" => task[t].thread = g
  /\ f \in left \/ (task[Main].logger = f /\ task[Main].at = "joining")

Timely == \A e \in inTime : event[e].at = "processed" \/ \E f, g : Awaited(e, f, g)

Orderly ==
  torn = {} =>
    /\ OneThread
    /\ exit = "no" => ~shut /\ inTime = {} /\ \A f \in Loggers : InOrder(f)
    /\ ~shut => Timely

-----------------------------------------------------------------------------
(* What a step can be, as far as drains and threads go                      *)

\* A caller moves on, and no drain begins or ends.
Walks(c) ==
  /\ c \in Callers /\ task[c].at \notin DrainStates
  /\ \E a, f, g, e : Moves(c, a, f, g, e) /\ a \notin DrainStates
  /\ UNCHANGED <<exit, shut, left, inTime>>
  /\ \A e \in Events : event[e].at \in {"queued", "processed"} => event'[e] = event[e]

\* A caller begins to drain logger f.
DrainsBegin(c, f) ==
  /\ c \in Callers /\ f \in Loggers /\ task[c].at \notin DrainStates
  /\ Stopped(c, f) /\ UNCHANGED <<exit, shut, left, inTime, event>>

\* A caller starts logger f.
StartBegins(c, f, g) ==
  /\ c \in Callers /\ task[c].at \notin DrainStates
  /\ Starts(c, f, g) /\ UNCHANGED <<exit, shut, left, inTime, event>>

LEMMA WalkKinds ==
  ASSUME Sound, Ties, NEW c \in Callers,
         \/ Hit(c) \/ Miss(c) \/ BeginClear(c) \/ TakeHit(c) \/ Insert(c) \/ StartReturns(c)
         \/ Enqueue(c) \/ (Clear(c) /\ cached = None)
  PROVE  Walks(c)
<1>1. /\ task[c].at \notin DrainStates /\ UNCHANGED <<exit, shut, left, inTime>>
      /\ event' = event \/ Enqueue(c)
  BY DEF Hit, Miss, BeginClear, TakeHit, Insert, StartReturns, Enqueue, Clear, Calls, Idle,
         DrainStates, exitVars
<1>2. \E a \in {"hit", "building", "clearing", "idle", "locking", "enqueueing"} : \E f, g, e :
        Moves(c, a, f, g, e)
  <2>1. CASE Hit(c)
    BY <2>1, CallerMoves
  <2>2. CASE Miss(c)
    BY <2>2, CallerMoves
  <2>3. CASE BeginClear(c)
    BY <2>3, CallerMoves
  <2>4. CASE TakeHit(c) \/ Insert(c) \/ Enqueue(c) \/ (Clear(c) /\ cached = None)
    BY <2>4, CallerMoves
  <2>5. CASE StartReturns(c)
    BY <2>5, CallerMoves
  <2> QED
    BY <2>1, <2>2, <2>3, <2>4, <2>5
<1>3. \A e \in Events : event[e].at \in {"queued", "processed"} => event'[e] = event[e]
  <2>1. CASE Enqueue(c)
    <3>1. PICK x : x = task[c].event
      OBVIOUS
    <3>2. \A y \in Events : y # x => event'[y] = event[y]
      BY <2>1, <3>1, TypeRest DEF Enqueue
    <3>3. event[x].at = "carried"
      BY <2>1, <3>1, CallerTask DEF Enqueue, Ties, Hands, Carrying
    <3> QED
      BY <3>2, <3>3
  <2> QED
    BY <1>1, <2>1
<1>4. \E a, f, g, e : Moves(c, a, f, g, e) /\ a \notin DrainStates
  BY <1>2 DEF DrainStates
<1> QED
  BY <1>1, <1>3, <1>4 DEF Walks

LEMMA CallKinds ==
  ASSUME Sound, Ties, NEW c \in Callers, NEW e \in Events, Call(c, e)
  PROVE  Walks(c)
<1>1. \E a \in {"starting", "enqueueing"} : Moves(c, a, has[c], None, e)
  BY CallMoves
<1>2. /\ task[c].at \notin DrainStates /\ UNCHANGED <<exit, shut, left, inTime>>
      /\ event[e].at = "new"
  BY DEF Call, Calls, Idle, DrainStates, exitVars
<1>3. \A x \in Events : event[x].at \in {"queued", "processed"} => event'[x] = event[x]
  <2>1. \A x \in Events : x # e => event'[x] = event[x]
    BY TypeRest DEF Call
  <2> QED
    BY <1>2, <2>1
<1>4. \E a, f, g, x : Moves(c, a, f, g, x) /\ a \notin DrainStates
  BY <1>1 DEF DrainStates
<1> QED
  BY <1>2, <1>3, <1>4 DEF Walks

LEMMA DrainKinds ==
  ASSUME Sound, NEW c \in Callers, Lose(c) \/ Drain(c) \/ (Clear(c) /\ cached # None)
  PROVE  \E f \in Loggers : DrainsBegin(c, f)
<1>1. task[c].at \notin DrainStates /\ UNCHANGED <<exit, shut, left, inTime, event>>
  BY DEF Lose, Drain, Clear, Calls, Idle, DrainStates, exitVars
<1>2. \E f \in Loggers : Stopped(c, f)
  <2>1. CASE Lose(c)
    BY <2>1, CallerTask, Stopping DEF Lose
  <2>2. CASE Drain(c)
    BY <2>2, CallerTask, Stopping DEF Drain
  <2>3. CASE Clear(c) /\ cached # None
    BY <2>3, CallerTask, TypeRest, Stopping DEF Clear
  <2> QED
    BY <2>1, <2>2, <2>3
<1> QED
  BY <1>1, <1>2 DEF DrainsBegin

LEMMA StartKinds ==
  ASSUME Sound, NEW c \in Callers, Build(c) \/ StartAgain(c)
  PROVE  \E f, g : StartBegins(c, f, g)
<1>1. task[c].at \notin DrainStates /\ UNCHANGED <<exit, shut, left, inTime, event>>
  BY DEF Build, StartAgain, DrainStates, exitVars
<1>2. \E f, g : Starts(c, f, g)
  BY BuildStarts, StartAgainStarts
<1> QED
  BY <1>1, <1>2 DEF StartBegins

\* The steps of the callers, of the drains, of the threads and of the exit.
LEMMA Kinds ==
  ASSUME Sound, Ties, Next
  PROVE  \/ \E c \in Callers : Walks(c)
         \/ \E c \in Callers, f \in Loggers : DrainsBegin(c, f)
         \/ \E c \in Callers : \E f, g : StartBegins(c, f, g)
         \/ \E t \in Tasks : Join(t) \/ Count(t) \/ Cleans(t)
         \/ \E g \in Threads : Begin(g) \/ Gather(g) \/ Process(g) \/ Finish(g)
         \/ BeginExit \/ ExitRefuses \/ EndExit \/ \E f \in Loggers : ExitDrains(f)
<1>1. ASSUME NEW c \in Callers, Proceed(c) \/ Hit(c) \/ Miss(c) \/ Drain(c) \/ BeginClear(c)
      PROVE  \/ Walks(c) \/ \E f \in Loggers : DrainsBegin(c, f)
             \/ \E f, g : StartBegins(c, f, g)
             \/ c \in Tasks /\ Cleans(c)
  <2>1. CASE Cleanup(c)
    BY <2>1, CallerTask, CleaningMoves
  <2>2. CASE Build(c) \/ StartAgain(c)
    BY <2>2, StartKinds
  <2>3. CASE Lose(c) \/ Drain(c) \/ (Clear(c) /\ cached # None)
    BY <2>3, DrainKinds
  <2>4. CASE \/ Hit(c) \/ Miss(c) \/ BeginClear(c) \/ TakeHit(c) \/ Insert(c) \/ StartReturns(c)
             \/ Enqueue(c) \/ (Clear(c) /\ cached = None)
    BY <2>4, WalkKinds
  <2> QED
    BY <1>1, <2>1, <2>2, <2>3, <2>4 DEF Proceed
<1>2. ASSUME NEW c \in Callers, NEW e \in Events, Call(c, e)
      PROVE  Walks(c)
  BY <1>2, CallKinds
<1>3. ASSUME ExitCleansUp
      PROVE  Main \in Tasks /\ Cleans(Main)
  BY <1>3, CleaningMoves DEF Tasks
<1> QED
  BY <1>1, <1>2, <1>3 DEF Next, Drains, ExitStep

LEMMA TornGrows ==
  ASSUME Sound, Next
  PROVE  torn \subseteq torn'
<1>1. ASSUME NEW c \in Callers, Proceed(c) \/ Hit(c) \/ Miss(c) \/ Drain(c) \/ BeginClear(c)
      PROVE  torn \subseteq torn'
  <2>1. CASE Build(c) \/ StartAgain(c)
    BY <2>1, BuildStarts, StartAgainStarts DEF Starts
  <2>2. CASE StartReturns(c)
    BY <2>2 DEF StartReturns
  <2> QED
    BY <1>1, <2>1, <2>2
       DEF Proceed, TakeHit, Insert, Lose, Enqueue, Clear, Cleanup, Hit, Miss, Drain, BeginClear
<1>2. ASSUME NEW c \in Callers, NEW e \in Events, Call(c, e)
      PROVE  torn \subseteq torn'
  BY <1>2 DEF Call
<1>3. ASSUME NEW t \in Tasks, Drains(t)
      PROVE  torn \subseteq torn'
  BY <1>3, JoinMoves DEF Drains, Count
<1>4. ASSUME NEW g \in Threads, Begin(g) \/ Gather(g) \/ Process(g) \/ Finish(g)
      PROVE  torn \subseteq torn'
  BY <1>4 DEF Begin, Gather, Process, Finish
<1>5. CASE BeginExit \/ ExitStep
  BY <1>5 DEF BeginExit, Signal, InterpreterExits, Exits,
     ExitStep, ExitDrains, ExitCleansUp, ExitRefuses, EndExit
<1> QED
  BY <1>1, <1>2, <1>3, <1>4, <1>5 DEF Next

\* A thread that goes on or ends stays the logger's.
LEMMA RunsLive ==
  ASSUME NEW g \in Threads, NEW a, Runs(g, a), thread[g].at \notin {"none", "ended"}
  PROVE  \A f : Live(f)' \subseteq Live(f)
BY DEF Runs, Live

LEMMA OneThreadStep ==
  ASSUME Sound, Ties, OneThread, Next, torn' = {}
  PROVE  OneThread'
<1>1. ASSUME UNCHANGED thread, \A f \in Loggers : logger'[f].thread = logger[f].thread
      PROVE  OneThread'
  BY <1>1 DEF OneThread, Live
<1>2. ASSUME NEW c \in Callers, Walks(c)
      PROVE  OneThread'
  BY <1>1, <1>2 DEF Walks, Moves
<1>3. ASSUME NEW t \in Tasks, NEW f \in Loggers, Stopped(t, f)
      PROVE  OneThread'
  <2>1. \A k \in Loggers : logger'[k].thread = logger[k].thread
    BY <1>3 DEF Stopped
  <2> QED
    BY <1>1, <1>3, <2>1 DEF Stopped
<1>4. ASSUME NEW c \in Callers, NEW f, NEW g, StartBegins(c, f, g)
      PROVE  OneThread'
  <2>1. /\ f \in Loggers /\ g \in Threads /\ thread[g].at = "none" /\ Live(f) = {}
        /\ \A k \in Loggers : k # f => logger'[k] = logger[k]
        /\ logger'[f].thread = g /\ thread'[g].logger = f
        /\ \A h \in Threads : h # g => thread'[h] = thread[h]
    BY <1>4 DEF StartBegins, Starts
  <2>2. Live(f)' \subseteq {g}
    BY <2>1 DEF Live
  <2>3. ASSUME NEW k \in Loggers, k # f
        PROVE  Live(k)' \subseteq Live(k)
    BY <2>1, <2>3 DEF Live
  <2> QED
    BY <2>1, <2>2, <2>3 DEF OneThread
<1>5. ASSUME NEW t \in Tasks, Join(t)
      PROVE  OneThread'
  <2>1. thread' = thread
    BY <1>5 DEF Join
  <2>2. /\ task[t].logger \in Loggers /\ Live(task[t].logger) = {}
        /\ \A k \in Loggers : k # task[t].logger => logger'[k] = logger[k]
    BY <1>5, JoinMoves
  <2> QED
    BY <2>1, <2>2 DEF OneThread, Live
<1>6. ASSUME NEW t \in Tasks, Count(t)
      PROVE  OneThread'
  BY <1>1, <1>6, CountMoves DEF Moves
<1>7. ASSUME NEW t \in Tasks, Cleans(t)
      PROVE  OneThread'
  BY <1>1, <1>7 DEF Cleans
<1>8. ASSUME NEW g \in Threads, Begin(g) \/ Gather(g) \/ Process(g) \/ Finish(g)
      PROVE  OneThread'
  <2>1. \A f : Live(f)' \subseteq Live(f)
    <3>1. CASE Begin(g)
      BY <3>1, BeginMoves, RunsLive DEF Begin
    <3>2. CASE Gather(g)
      <4>1. PICK a \in {"running", "ended"} : thread' = [thread EXCEPT ![g].at = a]
        BY <3>2 DEF Gather
      <4> QED
        BY <3>2, <4>1, RunsTo, RunsLive DEF Gather
    <3>3. CASE Process(g)
      BY <3>3 DEF Process, Live
    <3>4. CASE Finish(g)
      BY <3>4, RunsTo, RunsLive DEF Finish
    <3> QED
      BY <1>8, <3>1, <3>2, <3>3, <3>4
  <2>2. \A f \in Loggers : logger'[f].thread = logger[f].thread
    BY <1>8, BeginMoves DEF Gather, Process, Finish
  <2> QED
    BY <2>1, <2>2 DEF OneThread
<1>9. CASE BeginExit \/ ExitRefuses \/ EndExit
  BY <1>1, <1>9 DEF BeginExit, Signal, InterpreterExits, Exits, ExitRefuses, EndExit
<1>10. ASSUME NEW f \in Loggers, ExitDrains(f)
       PROVE  OneThread'
  <2>1. Stopped(Main, f) /\ Main \in Tasks
    BY <1>10, Stopping DEF ExitDrains, Tasks
  <2> QED
    BY <1>3, <2>1
<1>11. ASSUME NEW c \in Callers, NEW f \in Loggers, DrainsBegin(c, f)
       PROVE  OneThread'
  BY <1>3, <1>11, CallerTask DEF DrainsBegin
<1> QED
  BY <1>2, <1>4, <1>5, <1>6, <1>7, <1>8, <1>9, <1>10, <1>11, Kinds

-----------------------------------------------------------------------------
(* Before the exit                                                          *)

LEMMA InOrderParts ==
  ASSUME NEW f, InOrder(f)
  PROVE  /\ logger[f].tasks # {} => logger[f].loop # None \/ Draining(f, {"counting", "cleaning"})
         /\ ~logger[f].stop => ~Draining(f, DrainStates)
         /\ ~logger[f].stop /\ logger[f].loop # None => Alive(f, logger[f].loop)
         /\ ~logger[f].stop => \A g \in Live(f) : thread[g].at = "new" => logger[f].tasks = {}
BY DEF InOrder

\* Nothing of the logger or its threads changes, and its drains stay drains.
LEMMA InOrderSame ==
  ASSUME NEW f \in Loggers, InOrder(f), logger'[f] = logger[f],
         \A g \in Threads : \/ thread'[g] = thread[g]
                           \/ /\ thread[g].logger # f \/ thread[g].at = "none"
                              /\ thread'[g].logger # f,
         Draining(f, {"counting", "cleaning"}) => Draining(f, {"counting", "cleaning"})',
         Draining(f, DrainStates)' => Draining(f, DrainStates)
  PROVE  InOrder(f)'
<1>1. Live(f)' = Live(f)
  BY DEF Live
<1>2. ASSUME NEW g, Alive(f, g)
      PROVE  Alive(f, g)'
  BY <1>2 DEF Alive
<1>3. ASSUME NEW g \in Live(f)', thread'[g].at = "new"
      PROVE  g \in Live(f) /\ thread[g].at = "new"
  BY <1>1, <1>3 DEF Live
<1> QED
  BY <1>1, <1>2, <1>3, InOrderParts DEF InOrder

\* A task that does not begin or end a drain of f, or goes on with it.
LEMMA DrainsSame ==
  ASSUME NEW t \in Tasks, NEW a, NEW k, NEW g, NEW e, Becomes(t, a, k, g, e), NEW f,
         \/ task[t].at \notin DrainStates /\ a \notin DrainStates
         \/ task[t].logger # f /\ k # f
         \/ task[t].logger # f /\ a \notin DrainStates
         \/ k # f /\ task[t].at \notin DrainStates
  PROVE  \A S \in SUBSET DrainStates : Draining(f, S)' <=> Draining(f, S)
<1>1. ASSUME NEW S \in SUBSET DrainStates, Draining(f, S)
      PROVE  Draining(f, S)'
  <2>1. PICK u \in Tasks : task[u].logger = f /\ task[u].at \in S
    BY <1>1 DEF Draining
  <2>2. u # t
    BY <2>1
  <2> QED
    BY <2>1, <2>2 DEF Draining, Becomes
<1>2. ASSUME NEW S \in SUBSET DrainStates, Draining(f, S)'
      PROVE  Draining(f, S)
  <2>1. PICK u \in Tasks : task'[u].logger = f /\ task'[u].at \in S
    BY <1>2 DEF Draining
  <2>2. u # t
    BY <2>1 DEF Becomes
  <2> QED
    BY <2>1, <2>2 DEF Draining, Becomes
<1> QED
  BY <1>1, <1>2

LEMMA DrainSets ==
  {"counting", "cleaning"} \in SUBSET DrainStates /\ DrainStates \in SUBSET DrainStates
BY DEF DrainStates

LEMMA InOrderCallers ==
  ASSUME Sound, NEW f \in Loggers, InOrder(f), torn' = {}, NEW c \in Callers,
         \/ Walks(c)
         \/ \E k \in Loggers : DrainsBegin(c, k)
         \/ \E k, g : StartBegins(c, k, g)
  PROVE  InOrder(f)'
<1>0. c \in Tasks
  BY CallerTask
<1>1. CASE Walks(c)
  <2>1. PICK a, k, g, e : Moves(c, a, k, g, e) /\ a \notin DrainStates
    BY <1>1 DEF Walks
  <2>2. \A S \in SUBSET DrainStates : Draining(f, S)' <=> Draining(f, S)
    BY <1>0, <1>1, <2>1, DrainsSame DEF Walks, Moves
  <2> QED
    BY <2>1, <2>2, DrainSets, InOrderSame DEF Moves
<1>2. ASSUME NEW k \in Loggers, DrainsBegin(c, k)
      PROVE  InOrder(f)'
  <2>1. PICK a \in {"joining", "counting"} : Becomes(c, a, k, logger[k].thread, NoEvent)
    BY <1>2 DEF DrainsBegin, Stopped
  <2>2. /\ task[c].at \notin DrainStates /\ thread' = thread
        /\ \A j \in Loggers : j # k => logger'[j] = logger[j]
        /\ logger'[k].stop /\ logger'[k].loop = logger[k].loop /\ logger'[k].tasks = logger[k].tasks
    BY <1>2 DEF DrainsBegin, Stopped
  <2>3. CASE k # f
    <3>1. \A S \in SUBSET DrainStates : Draining(f, S)' <=> Draining(f, S)
      BY <1>0, <2>1, <2>2, <2>3, DrainsSame
    <3> QED
      BY <2>2, <2>3, <3>1, DrainSets, InOrderSame
  <2>4. CASE k = f
    <3>1. Draining(f, {"counting", "cleaning"}) => Draining(f, {"counting", "cleaning"})'
      <4>1. \A u \in Tasks : task[u].at \in {"counting", "cleaning"} => task'[u] = task[u]
        BY <2>1, <2>2 DEF Becomes, DrainStates
      <4> QED
        BY <4>1 DEF Draining
    <3> QED
      BY <2>2, <2>4, <3>1 DEF InOrder
  <2> QED
    BY <2>3, <2>4
<1>3. ASSUME NEW k, NEW g, StartBegins(c, k, g)
      PROVE  InOrder(f)'
  <2>1. /\ k \in Loggers /\ g \in Threads /\ thread[g].at = "none" /\ logger[k].loop = None
        /\ Becomes(c, "waiting", k, task[c].thread, task[c].event)
        /\ \A j \in Loggers : j # k => logger'[j] = logger[j]
        /\ ~logger'[k].stop /\ logger'[k].loop = None /\ logger'[k].tasks = logger[k].tasks
        /\ \A h \in Threads : h # g => thread'[h] = thread[h]
        /\ thread'[g].logger = k /\ task[c].at \notin DrainStates
        /\ \A u \in Tasks : task[u].logger = k => task[u].at \notin DrainStates
    BY <1>3 DEF StartBegins, Starts, DrainStates
  <2>2. \A S \in SUBSET DrainStates : Draining(f, S)' <=> Draining(f, S)
    <3>1. "waiting" \notin DrainStates
      BY DEF DrainStates
    <3> QED
      BY <1>0, <2>1, <3>1, DrainsSame
  <2>3. CASE k = f
    <3>1. ~Draining(f, DrainStates) /\ ~Draining(f, {"counting", "cleaning"})
      BY <2>1, <2>3 DEF Draining, DrainStates
    <3>2. logger'[f].tasks = {}
      BY <2>1, <2>3, <3>1 DEF InOrder
    <3> QED
      BY <2>1, <2>2, <2>3, <3>1, <3>2, DrainSets DEF InOrder
  <2>4. CASE k # f
    BY <2>1, <2>2, <2>4, DrainSets, InOrderSame
  <2> QED
    BY <2>3, <2>4
<1> QED
  BY <1>1, <1>2, <1>3

LEMMA InOrderDrains ==
  ASSUME Sound, NEW f \in Loggers, InOrder(f), exit = "no", NEW t \in Tasks,
         Join(t) \/ Count(t) \/ Cleans(t)
  PROVE  InOrder(f)'
<1>1. CASE Join(t)
  <2>1. PICK k : k = task[t].logger
    OBVIOUS
  <2>2. /\ k \in Loggers /\ Becomes(t, "counting", k, task[t].thread, task[t].event)
        /\ \A j \in Loggers : j # k => logger'[j] = logger[j]
        /\ logger'[k].stop = logger[k].stop
        /\ thread' = thread /\ task[t].at = "joining"
    BY <1>1, <2>1, JoinMoves DEF Join
  <2>3. CASE k # f
    <3>1. \A S \in SUBSET DrainStates : Draining(f, S)' <=> Draining(f, S)
      BY <2>1, <2>2, <2>3, DrainsSame
    <3> QED
      BY <2>2, <2>3, <3>1, DrainSets, InOrderSame
  <2>4. CASE k = f
    <3>1. Draining(f, DrainStates)
      BY <2>1, <2>2, <2>4 DEF Draining, DrainStates
    <3>2. logger'[f].stop
      BY <2>2, <2>4, <3>1 DEF InOrder
    <3>3. Draining(f, {"counting", "cleaning"})'
      BY <2>2, <2>4 DEF Draining, Becomes
    <3> QED
      BY <3>2, <3>3 DEF InOrder
  <2> QED
    BY <2>3, <2>4
<1>2. CASE Count(t)
  <2>1. /\ Becomes(t, "cleaning", task[t].logger, task[t].thread, task[t].event)
        /\ UNCHANGED <<logger, thread>> /\ task[t].at = "counting"
    BY <1>2, CountMoves DEF Moves, Count
  <2>2. /\ Draining(f, {"counting", "cleaning"}) => Draining(f, {"counting", "cleaning"})'
        /\ Draining(f, DrainStates)' => Draining(f, DrainStates)
    BY <2>1 DEF Draining, Becomes, DrainStates
  <2> QED
    BY <2>1, <2>2, InOrderSame
<1>3. CASE Cleans(t)
  <2>1. PICK k : k = task[t].logger
    OBVIOUS
  <2>2. /\ k \in Loggers /\ Becomes(t, "idle", None, None, NoEvent) /\ task[t].at = "cleaning"
        /\ thread' = thread /\ logger'[k].tasks = {} /\ logger'[k].stop = logger[k].stop
        /\ \A j \in Loggers : j # k => logger'[j] = logger[j]
    <3>1. logger' \in [Loggers -> LoggerState] /\ logger \in [Loggers -> LoggerState]
      BY <1>3, TypeRest DEF Cleans
    <3>2. \A j \in Loggers : j # k =>
            /\ logger'[j].loop = logger[j].loop /\ logger'[j].stop = logger[j].stop
            /\ logger'[j].thread = logger[j].thread /\ logger'[j].tasks = logger[j].tasks
      BY <1>3, <2>1 DEF Cleans
    <3>3. \A j \in Loggers : j # k => logger'[j] = logger[j]
      BY <3>1, <3>2 DEF LoggerState
    <3> QED
      BY <1>3, <2>1, <3>3 DEF Cleans
  <2>3. CASE k # f
    <3>1. \A S \in SUBSET DrainStates : Draining(f, S)' <=> Draining(f, S)
      <4>1. "idle" \notin DrainStates
        BY DEF DrainStates
      <4> QED
        BY <2>1, <2>2, <2>3, <4>1, DrainsSame
    <3> QED
      BY <2>2, <2>3, <3>1, DrainSets, InOrderSame
  <2>4. CASE k = f
    <3>1. Draining(f, DrainStates)
      BY <2>1, <2>2, <2>4 DEF Draining, DrainStates
    <3>2. logger'[f].stop
      BY <2>2, <2>4, <3>1 DEF InOrder
    <3> QED
      BY <2>2, <2>4, <3>2 DEF InOrder
  <2> QED
    BY <2>3, <2>4
<1> QED
  BY <1>1, <1>2, <1>3

LEMMA InOrderThreads ==
  ASSUME Sound, OneThread, NEW f \in Loggers, InOrder(f), NEW g \in Threads,
         Begin(g) \/ Gather(g) \/ Process(g) \/ Finish(g)
  PROVE  InOrder(f)'
<1>1. task' = task
  BY DEF Begin, Gather, Process, Finish
<1>2. \A S : Draining(f, S)' = Draining(f, S)
  BY <1>1 DEF Draining
<1>3. PICK k : k = thread[g].logger
  OBVIOUS
<1>4. ASSUME k # f, NEW a, Runs(g, a), \A j \in Loggers : j # k => logger'[j] = logger[j]
      PROVE  InOrder(f)'
  <2>1. \A h \in Threads : \/ thread'[h] = thread[h]
                           \/ thread[h].logger # f /\ thread'[h].logger # f
    BY <1>3, <1>4 DEF Runs
  <2> QED
    BY <1>2, <1>4, <2>1, InOrderSame
<1>5. CASE Begin(g)
  <2>1. /\ k \in Loggers /\ Runs(g, "gathering") /\ thread[g].at = "new"
        /\ \A j \in Loggers : j # k => logger'[j] = logger[j]
        /\ logger'[k].loop = g /\ logger'[k].stop = logger[k].stop
        /\ logger'[k].tasks = logger[k].tasks \cup {g}
    BY <1>3, <1>5, BeginMoves DEF Begin
  <2>2. CASE k = f
    <3>1. g \in Live(f) /\ \A h \in Live(f) : h = g
      <4>1. g \in Live(f)
        BY <1>3, <2>1, <2>2 DEF Live
      <4> QED
        BY <4>1 DEF OneThread
    <3>2. logger'[f].loop = g /\ g # None
      BY <2>1, <2>2, TypeParts DEF Sound
    <3>3. \A h \in Live(f)' : h \in Live(f)
      BY <2>1, RunsLive
    <3>4. \A h \in Live(f)' : thread'[h].at # "new"
      BY <2>1, <3>1, <3>3 DEF Runs
    <3>5. ~logger[f].stop => logger'[f].tasks = {g}
      BY <2>1, <2>2, <3>1, InOrderParts
    <3>6. ~logger[f].stop => Alive(f, g)'
      BY <1>3, <2>1, <2>2, <3>5 DEF Alive, Runs
    <3>7. ~logger[f].stop => ~Draining(f, DrainStates)'
      BY <1>2, InOrderParts
    <3>8. logger'[f].stop = logger[f].stop
      BY <2>1, <2>2
    <3> QED
      BY <3>2, <3>4, <3>6, <3>7, <3>8 DEF InOrder
  <2> QED
    BY <1>4, <2>1, <2>2
<1>6. CASE Gather(g)
  <2>1. PICK a : /\ a = IF logger[k].tasks = {g} THEN "running" ELSE "ended"
                 /\ thread' = [thread EXCEPT ![g].at = a]
    BY <1>3, <1>6 DEF Gather
  <2>2. Runs(g, a) /\ logger' = logger /\ thread[g].at = "gathering" /\ a # "new"
    BY <1>6, <2>1, RunsTo DEF Gather
  <2>3. CASE k = f
    <3>1. ASSUME NEW h, Alive(f, h)
          PROVE  Alive(f, h)'
      <4>1. CASE h = g
        BY <1>3, <2>1, <2>2, <2>3, <3>1, <4>1 DEF Alive, Runs
      <4>2. CASE h # g
        BY <2>2, <3>1, <4>2 DEF Alive, Runs
      <4> QED
        BY <4>1, <4>2
    <3>2. \A h \in Live(f)' : thread'[h].at = "new" => h \in Live(f) /\ thread[h].at = "new"
      BY <2>2, RunsLive DEF Runs, Live
    <3> QED
      BY <1>2, <2>2, <3>1, <3>2, InOrderParts DEF InOrder
  <2> QED
    BY <1>4, <2>2, <2>3
<1>7. CASE Process(g)
  BY <1>2, <1>7, InOrderSame DEF Process
<1>8. CASE Finish(g)
  <2>1. Runs(g, "ended") /\ logger' = logger /\ logger[k].stop
    BY <1>3, <1>8, RunsTo DEF Finish
  <2>2. CASE k = f
    BY <1>2, <2>1, <2>2 DEF InOrder
  <2> QED
    BY <1>4, <2>1, <2>2
<1> QED
  BY <1>5, <1>6, <1>7, <1>8

-----------------------------------------------------------------------------
(* From the beginning of the exit                                           *)

LEMMA AliveParts ==
  ASSUME Sound, OneThread, NEW f \in Loggers, NEW g, Alive(f, g)
  PROVE  /\ g \in Threads /\ thread[g].logger = f /\ thread[g].at \in {"gathering", "running"}
         /\ g # None /\ g \in Live(f) /\ Live(f) = {g} /\ logger[f].thread = g
<1>1. /\ g \in Threads /\ thread[g].logger = f /\ thread[g].at \in {"gathering", "running"}
      /\ g # None
  BY TypeParts DEF Alive, Sound
<1>2. g \in Live(f)
  BY <1>1 DEF Live
<1>3. Live(f) \subseteq {logger[f].thread}
  BY DEF OneThread
<1> QED
  BY <1>1, <1>2, <1>3

\* The event stays where it is, and so does all that its processing needs.
LEMMA AwaitedKept ==
  ASSUME NEW e, NEW f, NEW g, Awaited(e, f, g),
         event'[e] = event[e], exit' = exit,
         logger'[f].loop = logger[f].loop, logger'[f].tasks = logger[f].tasks,
         thread'[g] = thread[g],
         NEW t \in Tasks, NEW a, NEW k, NEW h, NEW x, Becomes(t, a, k, h, x),
         k = f => a \notin {"counting", "cleaning"} /\ (a = "joining" => h = g),
         \/ f \in left'
         \/ /\ t # Main /\ left' = left
         \/ /\ t = Main /\ k = f /\ a = "joining"
  PROVE  Awaited(e, f, g)'
<1>1. Alive(f, g)'
  BY DEF Awaited, Alive
<1>2. ASSUME NEW u \in Tasks, task'[u].logger = f
      PROVE  /\ task'[u].at \notin {"counting", "cleaning"}
             /\ task'[u].at = "joining" => task'[u].thread = g
  BY <1>2 DEF Awaited, Becomes, Draining
<1>3. ~Draining(f, {"counting", "cleaning"})'
  BY <1>2 DEF Draining
<1>4. f \in left' \/ (task'[Main].logger = f /\ task'[Main].at = "joining")
  <2>1. Main \in Tasks
    BY DEF Tasks
  <2> QED
    BY <2>1 DEF Awaited, Becomes
<1> QED
  BY <1>1, <1>2, <1>3, <1>4 DEF Awaited

LEMMA AwaitedStays ==
  ASSUME NEW e, NEW f, NEW g, Awaited(e, f, g), UNCHANGED <<task, exit, left>>,
         event'[e] = event[e],
         logger'[f].loop = logger[f].loop, Alive(f, g)'
  PROVE  Awaited(e, f, g)'
BY DEF Awaited, Draining

LEMMA AwaitedCallers ==
  ASSUME Sound, OneThread, NEW e \in Events, NEW f, NEW g, Awaited(e, f, g), torn' = {},
         NEW c \in Callers,
         \/ Walks(c)
         \/ \E k \in Loggers : DrainsBegin(c, k)
         \/ \E k, h : StartBegins(c, k, h)
  PROVE  Awaited(e, f, g)'
<1>0. /\ c \in Tasks /\ c # Main /\ f \in Loggers /\ event[e].at = "queued"
      /\ logger[f].loop = g /\ Alive(f, g)
  BY CallerTask DEF Awaited
<1>1. /\ g \in Threads /\ thread[g].at # "none" /\ g # None /\ g \in Live(f)
      /\ logger[f].thread = g
  BY <1>0, AliveParts
<1>2. CASE Walks(c)
  <2>1. PICK a, k, h, x : Moves(c, a, k, h, x) /\ a \notin DrainStates
    BY <1>2 DEF Walks
  <2>2. event'[e] = event[e] /\ exit' = exit /\ left' = left
    BY <1>0, <1>2 DEF Walks
  <2> QED
    BY <1>0, <2>1, <2>2, AwaitedKept DEF Moves, DrainStates
<1>3. ASSUME NEW k \in Loggers, DrainsBegin(c, k)
      PROVE  Awaited(e, f, g)'
  <2>1. PICK a \in {"joining", "counting"} :
           /\ Becomes(c, a, k, logger[k].thread, NoEvent)
           /\ a = "joining" <=> (logger[k].loop # None /\ logger[k].thread # None)
    BY <1>3 DEF DrainsBegin, Stopped
  <2>2. /\ thread' = thread /\ UNCHANGED <<exit, left, event>>
        /\ logger'[f].loop = logger[f].loop /\ logger'[f].tasks = logger[f].tasks
    BY <1>0, <1>3 DEF DrainsBegin, Stopped
  <2>3. k = f => a = "joining" /\ logger[k].thread = g
    BY <1>0, <1>1, <2>1
  <2> QED
    BY <1>0, <2>1, <2>2, <2>3, AwaitedKept
<1>4. ASSUME NEW k, NEW h, StartBegins(c, k, h)
      PROVE  Awaited(e, f, g)'
  <2>1. /\ k \in Loggers /\ h \in Threads /\ thread[h].at = "none" /\ Live(k) = {}
        /\ Becomes(c, "waiting", k, task[c].thread, task[c].event)
        /\ \A j \in Loggers : j # k => logger'[j] = logger[j]
        /\ \A j \in Threads : j # h => thread'[j] = thread[j]
        /\ UNCHANGED <<exit, left, event>>
    BY <1>4 DEF StartBegins, Starts
  <2>2. k # f /\ h # g
    BY <1>1, <2>1
  <2> QED
    BY <1>0, <1>1, <2>1, <2>2, AwaitedKept
<1> QED
  BY <1>2, <1>3, <1>4

LEMMA AwaitedDrains ==
  ASSUME Sound, OneThread, NEW e \in Events, NEW f, NEW g, Awaited(e, f, g), NEW t \in Tasks,
         Join(t) \/ Count(t) \/ Cleans(t)
  PROVE  Awaited(e, f, g)'
<1>0. /\ f \in Loggers /\ event[e].at = "queued" /\ event[e].logger = f
      /\ logger[f].loop = g /\ Alive(f, g)
      /\ f \in left \/ (task[Main].logger = f /\ task[Main].at = "joining")
      /\ ~Draining(f, {"counting", "cleaning"})
  BY DEF Awaited
<1>1. g \in Threads /\ thread[g].at \in {"gathering", "running"}
  BY <1>0, AliveParts
<1>2. CASE Join(t)
  <2>1. PICK k : k = task[t].logger
    OBVIOUS
  <2>2. /\ k \in Loggers /\ Becomes(t, "counting", k, task[t].thread, task[t].event)
        /\ \A j \in Loggers : j # k => logger'[j] = logger[j]
        /\ UNCHANGED <<thread, exit, left, event>> /\ task[t].at = "joining"
        /\ thread[task[t].thread].at = "ended"
    BY <1>2, <2>1, JoinMoves DEF Join, exitVars
  <2>3. k # f
    BY <1>1, <2>1, <2>2 DEF Awaited
  <2>4. f \in left \/ t # Main
    BY <1>0, <2>1, <2>3
  <2> QED
    BY <1>0, <2>2, <2>3, <2>4, AwaitedKept
<1>3. CASE Count(t)
  <2>1. PICK k : k = task[t].logger
    OBVIOUS
  <2>2. /\ Becomes(t, "cleaning", k, task[t].thread, task[t].event)
        /\ UNCHANGED <<logger, thread, exit, left>> /\ task[t].at = "counting"
        /\ Turned(Queue(k), "dropped")
    BY <1>3, <2>1, CountMoves DEF Moves, Count, exitVars
  <2>3. k # f
    BY <1>0, <2>1, <2>2 DEF Draining
  <2>4. event'[e] = event[e]
    <3>1. e \notin Queue(k)
      BY <1>0, <2>3, QueueParts
    <3>2. event' \in [Events -> EventState] /\ event \in [Events -> EventState]
          /\ event'[e].logger = event[e].logger /\ event'[e].at = event[e].at
      BY <2>2, <3>1, TypeRest DEF Turned
    <3> QED
      BY <3>2 DEF EventState
  <2>5. f \in left \/ t # Main
    BY <1>0, <2>1, <2>2
  <2> QED
    BY <1>0, <2>2, <2>3, <2>4, <2>5, AwaitedKept
<1>4. CASE Cleans(t)
  <2>1. PICK k : k = task[t].logger
    OBVIOUS
  <2>2. /\ Becomes(t, "idle", None, None, NoEvent) /\ task[t].at = "cleaning"
        /\ UNCHANGED <<thread, exit, left, event>>
        /\ \A j \in Loggers : j # k => /\ logger'[j].loop = logger[j].loop
                                       /\ logger'[j].tasks = logger[j].tasks
    BY <1>4, <2>1 DEF Cleans
  <2>3. k # f
    BY <1>0, <2>1, <2>2 DEF Draining
  <2>4. f \in left \/ t # Main
    BY <1>0, <2>1, <2>2
  <2> QED
    BY <1>0, <2>2, <2>3, <2>4, AwaitedKept
<1> QED
  BY <1>2, <1>3, <1>4

LEMMA AwaitedThreads ==
  ASSUME Sound, OneThread, NEW e \in Events, NEW f, NEW g, Awaited(e, f, g), NEW h \in Threads,
         Begin(h) \/ Gather(h) \/ Process(h) \/ Finish(h)
  PROVE  event'[e].at = "processed" \/ Awaited(e, f, g)'
<1>0. /\ f \in Loggers /\ event[e].at = "queued" /\ event[e].logger = f
      /\ logger[f].loop = g /\ Alive(f, g)
      /\ UNCHANGED <<task, exit, left>>
  BY DEF Awaited, Begin, Gather, Process, Finish, exitVars
<1>1. g \in Threads /\ thread[g].at \in {"gathering", "running"} /\ Live(f) = {g}
  BY <1>0, AliveParts
<1>2. PICK k : k = thread[h].logger
  OBVIOUS
<1>3. e \in Queue(f)
  <2>1. event[e] \in EventState
    BY TypeRest
  <2> QED
    BY <1>0, <2>1 DEF Queue, EventState
<1>4. CASE Begin(h)
  <2>1. /\ k \in Loggers /\ Runs(h, "gathering") /\ thread[h].at = "new" /\ event' = event
        /\ \A j \in Loggers : j # k => logger'[j] = logger[j]
    BY <1>2, <1>4, BeginMoves DEF Begin
  <2>2. k # f /\ h # g
    <3>1. h # g
      BY <1>1, <2>1
    <3>2. k = f => h \in Live(f)
      BY <1>2, <2>1 DEF Live
    <3> QED
      BY <1>1, <3>1, <3>2
  <2>3. Alive(f, g)' /\ logger'[f].loop = logger[f].loop
    BY <1>0, <1>1, <2>1, <2>2 DEF Alive, Runs
  <2> QED
    BY <1>0, <2>1, <2>3, AwaitedStays
<1>5. CASE Gather(h)
  <2>1. PICK a : /\ a = IF logger[k].tasks = {h} THEN "running" ELSE "ended"
                 /\ thread' = [thread EXCEPT ![h].at = a]
    BY <1>2, <1>5 DEF Gather
  <2>2. /\ Runs(h, a) /\ logger' = logger /\ event' = event /\ thread[h].at = "gathering"
    BY <1>5, <2>1, RunsTo DEF Gather
  <2>3. Alive(f, g)'
    <3>1. CASE h = g
      BY <1>0, <1>2, <2>1, <2>2, <3>1 DEF Alive, Runs
    <3>2. CASE h # g
      BY <1>0, <2>2, <3>2 DEF Alive, Runs
    <3> QED
      BY <3>1, <3>2
  <2> QED
    BY <1>0, <2>2, <2>3, AwaitedStays
<1>6. ASSUME Turned(Queue(k), "processed"), event'[e].at # "processed"
      PROVE  event'[e] = event[e] /\ k # f
  <2>1. e \notin Queue(k)
    BY <1>6 DEF Turned
  <2>2. event' \in [Events -> EventState] /\ event \in [Events -> EventState]
        /\ event'[e].logger = event[e].logger /\ event'[e].at = event[e].at
    BY <1>6, <2>1, TypeRest DEF Turned
  <2>3. event'[e] = event[e]
    BY <2>2 DEF EventState
  <2> QED
    BY <1>3, <2>1, <2>3
<1>7. CASE Process(h)
  <2>1. Turned(Queue(k), "processed")
    BY <1>2, <1>7, Turn DEF Process, Processed
  <2>2. UNCHANGED <<logger, thread>>
    BY <1>7 DEF Process
  <2>3. Alive(f, g)' /\ logger'[f].loop = logger[f].loop
    BY <1>0, <2>2 DEF Alive
  <2> QED
    BY <1>0, <1>6, <2>1, <2>3, AwaitedStays
<1>8. CASE Finish(h)
  <2>1. Turned(Queue(k), "processed")
    BY <1>2, <1>8, Turn DEF Finish, Processed
  <2>2. logger' = logger /\ Runs(h, "ended")
    BY <1>8, RunsTo DEF Finish
  <2>3. ASSUME k # f
        PROVE  Alive(f, g)' /\ logger'[f].loop = logger[f].loop
    BY <1>0, <1>2, <2>2, <2>3 DEF Alive, Runs
  <2> QED
    BY <1>0, <1>6, <2>1, <2>3, AwaitedStays
<1> QED
  BY <1>4, <1>5, <1>7, <1>8

LEMMA AwaitedExit ==
  ASSUME Sound, OneThread, NEW e \in Events, NEW f, NEW g, Awaited(e, f, g),
         EndExit \/ \E k \in Loggers : ExitDrains(k)
  PROVE  Awaited(e, f, g)'
<1>0. /\ f \in Loggers /\ event[e].at = "queued" /\ Main \in Tasks
      /\ logger[f].loop = g /\ Alive(f, g)
      /\ f \in left \/ (task[Main].logger = f /\ task[Main].at = "joining")
  BY DEF Awaited, Tasks
<1>1. task[Main] = Idle => f \in left
  BY <1>0 DEF Idle
<1>2. ~EndExit
  BY <1>1 DEF ExitRefuses, EndExit
<1>3. ASSUME NEW k \in Loggers, ExitDrains(k)
      PROVE  Awaited(e, f, g)'
  <2>1. /\ g # None /\ logger[f].thread = g
    BY <1>0, AliveParts
  <2>2. Stopped(Main, k)
    BY <1>0, <1>3, Stopping DEF ExitDrains
  <2>3. /\ f \in left /\ left' = left \ {k} /\ UNCHANGED <<exit, event>>
    BY <1>1, <1>3 DEF ExitDrains
  <2>4. PICK a \in {"joining", "counting"} :
           /\ Becomes(Main, a, k, logger[k].thread, NoEvent)
           /\ a = "joining" <=> (logger[k].loop # None /\ logger[k].thread # None)
    BY <2>2 DEF Stopped
  <2>5. /\ thread' = thread
        /\ logger'[f].loop = logger[f].loop /\ logger'[f].tasks = logger[f].tasks
    BY <1>0, <2>2 DEF Stopped
  <2>6. k = f => a = "joining" /\ logger[k].thread = g
    BY <1>0, <2>1, <2>4
  <2>7. f \in left' \/ k = f
    BY <2>3
  <2> QED
    BY <1>0, <2>3, <2>4, <2>5, <2>6, <2>7, AwaitedKept
<1> QED
  BY <1>2, <1>3

\* Only the beginning of the exit says what is in time.
LEMMA InTimeKept ==
  ASSUME Sound, Ties, Next
  PROVE  \/ BeginExit
         \/ UNCHANGED <<inTime, shut>> /\ (exit' = "no" => exit = "no")
<1>1. ASSUME NEW t \in Tasks, Join(t) \/ Count(t) \/ Cleans(t)
      PROVE  UNCHANGED <<inTime, exit, shut>>
  BY <1>1 DEF Join, Count, Cleans, exitVars
<1>2. ASSUME NEW g \in Threads, Begin(g) \/ Gather(g) \/ Process(g) \/ Finish(g)
      PROVE  UNCHANGED <<inTime, exit, shut>>
  BY <1>2 DEF Begin, Gather, Process, Finish, exitVars
<1>3. ASSUME NEW c \in Callers,
             \/ Walks(c) \/ \E f \in Loggers : DrainsBegin(c, f)
             \/ \E f, g : StartBegins(c, f, g)
      PROVE  UNCHANGED <<inTime, exit, shut>>
  BY <1>3 DEF Walks, DrainsBegin, StartBegins
<1>4. ASSUME ExitRefuses \/ EndExit \/ \E f \in Loggers : ExitDrains(f)
      PROVE  UNCHANGED <<inTime, shut>> /\ (exit' = "no" => exit = "no")
  BY <1>4 DEF ExitRefuses, EndExit, ExitDrains
<1> QED
  BY <1>1, <1>2, <1>3, <1>4, Kinds

\* What has been processed stays so.
LEMMA ProcessedStays ==
  ASSUME Sound, Ties, Next, NEW e \in Events, event[e].at = "processed"
  PROVE  event'[e].at = "processed"
<1>1. ASSUME NEW S, NEW at, Turned(S, at), e \notin S
      PROVE  event'[e].at = "processed"
  BY <1>1 DEF Turned
<1>2. \A f : e \notin Queue(f)
  BY QueueParts
<1>3. ASSUME NEW t \in Tasks, Join(t) \/ Count(t) \/ Cleans(t)
      PROVE  event'[e].at = "processed"
  BY <1>1, <1>2, <1>3, CountMoves DEF Join, Cleans
<1>4. ASSUME NEW g \in Threads, Begin(g) \/ Gather(g) \/ Process(g) \/ Finish(g)
      PROVE  event'[e].at = "processed"
  BY <1>1, <1>2, <1>4, Turn DEF Begin, Gather, Process, Finish, Processed
<1>5. ASSUME NEW c \in Callers,
             \/ Walks(c) \/ \E f \in Loggers : DrainsBegin(c, f)
             \/ \E f, g : StartBegins(c, f, g)
      PROVE  event'[e].at = "processed"
  BY <1>5 DEF Walks, DrainsBegin, StartBegins
<1>6. CASE BeginExit \/ ExitRefuses \/ EndExit \/ \E f \in Loggers : ExitDrains(f)
  BY <1>6 DEF BeginExit, Signal, InterpreterExits, Exits, ExitRefuses, EndExit, ExitDrains
<1> QED
  BY <1>3, <1>4, <1>5, <1>6, Kinds

LEMMA TimelyBegins ==
  ASSUME Sound, Ties, BeginExit, \A f \in Loggers : InOrder(f)
  PROVE  Timely'
<1> SUFFICES ASSUME NEW e \in inTime' PROVE \E f, g : Awaited(e, f, g)'
  BY DEF Timely
<1>1. PICK f : f = event[e].logger
  OBVIOUS
<1>2. /\ e \in Events /\ event[e].at = "queued" /\ logger[f].loop # None /\ ~logger[f].stop
  BY <1>1 DEF BeginExit, Signal, InterpreterExits, Exits
<1>3. PICK g : g = logger[f].loop
  OBVIOUS
<1>4. f \in 1 .. created /\ f \in Loggers
  <2>1. f \in 1 .. created
    BY <1>1, <1>2 DEF Ties, Numbered
  <2>2. created \in 0 .. MaxCalls /\ MaxCalls \in Nat
    BY TypeRest, LifecycleAssumption
  <2> QED
    BY <2>1, <2>2 DEF Loggers
<1>5. Alive(f, g) /\ ~Draining(f, DrainStates)
  BY <1>2, <1>3, <1>4 DEF InOrder
<1>6. /\ exit' = "draining" /\ left' = 1 .. created /\ UNCHANGED <<task, logger, thread, event>>
  BY DEF BeginExit, Signal, InterpreterExits, Exits, Registered
<1>7. Alive(f, g)'
  BY <1>5, <1>6 DEF Alive
<1>8. ~Draining(f, {"counting", "cleaning"})'
      /\ \A t \in Tasks : task'[t].logger = f => task'[t].at # "joining"
  BY <1>5, <1>6 DEF Draining, DrainStates
<1> QED
  BY <1>1, <1>2, <1>3, <1>4, <1>6, <1>7, <1>8 DEF Awaited

LEMMA OrderlyStep ==
  ASSUME Sound, Ties, Orderly, [Next]_vars
  PROVE  Orderly'
<1>1. CASE Next
  <2> SUFFICES ASSUME torn' = {}
               PROVE  /\ OneThread'
                      /\ exit' = "no" => ~shut' /\ inTime' = {} /\ \A f \in Loggers : InOrder(f)'
                      /\ ~shut' => Timely'
    BY DEF Orderly
  <2>1. /\ OneThread /\ (~shut => Timely)
        /\ exit = "no" => ~shut /\ inTime = {} /\ \A f \in Loggers : InOrder(f)
    BY <1>1, TornGrows DEF Orderly
  <2>2. OneThread'
    BY <1>1, <2>1, OneThreadStep
  <2>3. exit' = "no" => exit = "no" /\ UNCHANGED <<inTime, shut>>
    BY <1>1, InTimeKept DEF BeginExit, Signal, InterpreterExits, Exits
  <2>4. ASSUME exit' = "no", NEW f \in Loggers
        PROVE  InOrder(f)'
    <3>1. InOrder(f) /\ exit = "no"
      BY <2>1, <2>3, <2>4
    <3>2. ~BeginExit /\ ~ExitRefuses /\ ~EndExit /\ \A k \in Loggers : ~ExitDrains(k)
      BY <2>4, <3>1 DEF BeginExit, Signal, InterpreterExits, Exits, ExitRefuses, EndExit, ExitDrains
    <3> QED
      BY <1>1, <2>1, <3>1, <3>2, Kinds, InOrderCallers, InOrderDrains, InOrderThreads
  <2>5. ASSUME ~shut' PROVE Timely'
    <3>1. CASE BeginExit
      BY <2>1, <3>1, TimelyBegins DEF BeginExit, Signal, InterpreterExits, Exits
    <3>2. CASE ~BeginExit
      <4>1. inTime' = inTime /\ inTime \subseteq Events /\ ~shut
        BY <1>1, <2>5, <3>2, InTimeKept, TypeRest
      <4>2. ASSUME NEW e \in inTime
            PROVE  event'[e].at = "processed" \/ \E f, g : Awaited(e, f, g)'
        <5>1. e \in Events
          BY <4>1
        <5>2. CASE event[e].at = "processed"
          BY <1>1, <5>1, <5>2, ProcessedStays
        <5>3. ASSUME NEW f, NEW g, Awaited(e, f, g)
              PROVE  event'[e].at = "processed" \/ Awaited(e, f, g)'
          <6>1. ~ExitRefuses
            BY <4>1 DEF ExitRefuses
          <6> QED
            BY <1>1, <2>1, <3>2, <5>1, <5>3, <6>1, Kinds, AwaitedCallers, AwaitedDrains,
               AwaitedThreads, AwaitedExit
        <5> QED
          BY <2>1, <4>1, <5>2, <5>3 DEF Timely
      <4> QED
        BY <4>1, <4>2 DEF Timely
    <3> QED
      BY <3>1, <3>2
  <2> QED
    BY <2>1, <2>2, <2>3, <2>4, <2>5
<1>2. CASE UNCHANGED vars
  BY <1>2 DEF vars, cacheVars, exitVars, Orderly, OneThread, Live, InOrder, Draining, Alive,
     Timely, Awaited
<1> QED
  BY <1>1, <1>2

LEMMA TiedInitially == Init => Ties /\ Orderly
<1> SUFFICES ASSUME Init PROVE Ties /\ Orderly
  OBVIOUS
<1>1. /\ \A t \in Tasks : task[t] = Idle
      /\ \A f \in Loggers : logger[f] = Fresh
      /\ \A g \in Threads : thread[g] = NoThread
      /\ \A e \in Events : event[e].at = "new"
      /\ \A c \in Callers : has[c] = None
      /\ cached = None /\ created = 0 /\ left = {} /\ inTime = {} /\ handed = {} /\ ~shut
  BY DEF Init
<1>2. /\ Idle.at = "idle" /\ Idle.event = NoEvent /\ Idle.logger = None
      /\ Fresh.loop = None /\ Fresh.tasks = {} /\ NoThread.at = "none"
  BY DEF Idle, Fresh, NoThread
<1>3. None \in 0 .. 0
  BY DEF None
<1>4. Ties
  BY <1>1, <1>2, <1>3 DEF Ties, Hands, Numbered, Carrying
<1>5. \A f \in Loggers : Live(f) = {} /\ ~Draining(f, DrainStates)
  BY <1>1, <1>2 DEF Live, Draining, DrainStates
<1>6. Orderly
  BY <1>1, <1>2, <1>5 DEF Orderly, OneThread, InOrder, Timely
<1> QED
  BY <1>4, <1>6

(***************************************************************************)
(* The invariant of the drains: who holds what, and, if no start came in   *)
(* the way of another or of a drain, each logger has one thread, which     *)
(* lives as long as a drain or the exit counts on it.                      *)
(***************************************************************************)
THEOREM AlwaysOrderly == Spec => [](Ties /\ Orderly)
<1> QED
  BY TiedInitially, TiesStep, OrderlyStep, AlwaysSound, PTL DEF Spec

(***************************************************************************)
(* What was in time is processed when a signal ends the process, for any   *)
(* loggers, callers and placements: the handler joins each logger's one    *)
(* thread after asking it to stop, and the thread ends with an empty       *)
(* queue.  A normal exit asks no thread to stop and is not meant.          *)
(***************************************************************************)
THEOREM SignalDrainProcesses == Spec => []SignalProcesses
<1>1. Orderly => SignalProcesses
  BY DEF Orderly, Timely, Awaited, SignalProcesses
<1> QED
  BY <1>1, AlwaysOrderly, PTL

-----------------------------------------------------------------------------
(* Loggers that lost                                                        *)

\* Caller c made logger f, or drains it, and is not done with it.
Attends(f, c) == task[c].logger = f /\ task[c].at \in {"waiting", "locking", "joining"}

\* A drain of f would find a thread to join, if f has one.
Joinable(f) == logger[f].loop # None \/ logger[f].thread = None

(***************************************************************************)
(* The caller that made a logger stays with it until it has handed it out  *)
(* or joined its thread, and it does not wait for the lock before the      *)
(* thread has a loop: without one, drain() would not join it.              *)
(***************************************************************************)
Attended ==
  /\ \A f \in Loggers : ~Handed(f) /\ Live(f) # {} => \E c \in Callers : Attends(f, c)
  /\ \A c \in Callers :
       task[c].at = "locking" => Handed(task[c].logger) \/ Joinable(task[c].logger)

Watched == torn = {} => Attended

\* What the lemmas ask of a step of task t.
LEMMA AttendedKept ==
  ASSUME Sound, Attended, NEW t \in Tasks, \A u \in Tasks : u # t => task'[u] = task[u],
         handed \subseteq handed',
         \A f \in Loggers : \/ Live(f)' \subseteq Live(f)
                            \/ t \in Callers /\ Attends(f, t)',
         \A f \in Loggers : Attends(f, t) => \/ Attends(f, t)' \/ Handed(f)'
                                             \/ Live(f)' = {},
         \A f \in Loggers : Joinable(f) => \/ Joinable(f)' \/ Handed(f)'
                                           \/ \A u \in Tasks : task[u].logger # f,
         t \in Callers /\ task'[t].at = "locking" =>
           Handed(task[t].logger)' \/ Joinable(task[t].logger)'
  PROVE  Attended'
<1>1. \A f : Handed(f) => Handed(f)'
  BY DEF Handed
<1>2. ASSUME NEW f \in Loggers, ~Handed(f)', Live(f)' # {}
      PROVE  \E c \in Callers : Attends(f, c)'
  <2>1. CASE Live(f)' \subseteq Live(f)
    <3>1. PICK c \in Callers : Attends(f, c)
      BY <1>1, <1>2, <2>1 DEF Attended
    <3>2. CASE c = t
      BY <1>2, <3>1, <3>2
    <3>3. CASE c # t
      BY <3>1, <3>3, CallerTask DEF Attends
    <3> QED
      BY <3>2, <3>3
  <2> QED
    BY <2>1
<1>3. ASSUME NEW c \in Callers, task'[c].at = "locking"
      PROVE  Handed(task[c].logger)' \/ Joinable(task[c].logger)'
  <2>1. CASE c # t
    <3>1. c \in Tasks /\ task'[c] = task[c]
      BY <2>1, CallerTask
    <3>2. PICK f : f = task[c].logger
      OBVIOUS
    <3>3. f \in Loggers
      BY <1>3, <3>1, <3>2, CallerTask
    <3>4. Handed(f) \/ Joinable(f)
      BY <1>3, <3>1, <3>2 DEF Attended
    <3>5. Handed(f)' \/ Joinable(f)'
      BY <1>1, <3>1, <3>2, <3>3, <3>4
    <3> QED
      BY <3>1, <3>2, <3>5 DEF Handed, Joinable
  <2> QED
    BY <1>3, <2>1
<1> QED
  BY <1>2, <1>3 DEF Attended, Handed, Joinable

\* A step of a task that has none of these states in it.
LEMMA AttendedAside ==
  ASSUME Sound, Attended, NEW t \in Tasks, NEW a, NEW f, NEW g, NEW e, Becomes(t, a, f, g, e),
         task[t].at \notin {"waiting", "locking", "joining"}, a # "locking",
         handed \subseteq handed', thread' = thread,
         \A k \in Loggers : logger'[k].loop = logger[k].loop /\ logger'[k].thread = logger[k].thread
  PROVE  Attended'
<1>1. \A k : Live(k)' = Live(k)
  BY DEF Live
<1>2. \A k \in Loggers : ~Attends(k, t) /\ (Joinable(k) => Joinable(k)')
  BY DEF Attends, Joinable
<1>3. task'[t].at # "locking" /\ \A u \in Tasks : u # t => task'[u] = task[u]
  BY DEF Becomes
<1> QED
  BY <1>1, <1>2, <1>3, AttendedKept

LEMMA AttendedMoves ==
  ASSUME Sound, Attended, NEW c \in Callers,
         \/ Hit(c) \/ Miss(c) \/ BeginClear(c) \/ TakeHit(c) \/ Enqueue(c) \/ Drain(c) \/ Clear(c)
         \/ \E e \in Events : Call(c, e)
  PROVE  Attended'
<1>1. /\ task[c].at \notin {"waiting", "locking", "joining"} /\ handed \subseteq handed'
      /\ c \in Tasks
  <2>1. CASE Hit(c) \/ Miss(c) \/ BeginClear(c) \/ Drain(c) \/ \E e \in Events : Call(c, e)
    <3>1. task[c] = Idle /\ handed' = handed
      BY <2>1 DEF Hit, Miss, BeginClear, Drain, Call, Calls, cacheVars
    <3> QED
      BY <3>1, CallerTask DEF Idle
  <2>2. CASE TakeHit(c)
    BY <2>2, CallerTask DEF TakeHit
  <2>3. CASE Enqueue(c) \/ Clear(c)
    BY <2>3, CallerTask DEF Enqueue, Clear, cacheVars
  <2> QED
    BY <2>1, <2>2, <2>3
<1>2. ASSUME NEW a, NEW f, NEW g, NEW e, Moves(c, a, f, g, e), a # "locking"
      PROVE  Attended'
  <2>1. thread' = thread /\ logger' = logger /\ Becomes(c, a, f, g, e)
    BY <1>2 DEF Moves
  <2> QED
    BY <1>1, <1>2, <2>1, AttendedAside
<1>3. ASSUME NEW f \in Loggers, Stopped(c, f)
      PROVE  Attended'
  <2>1. PICK a \in {"joining", "counting"} : Becomes(c, a, f, logger[f].thread, NoEvent)
    BY <1>3 DEF Stopped
  <2>2. /\ thread' = thread
        /\ \A k \in Loggers : /\ logger'[k].loop = logger[k].loop
                              /\ logger'[k].thread = logger[k].thread
    BY <1>3 DEF Stopped
  <2> QED
    BY <1>1, <2>1, <2>2, AttendedAside
<1>4. CASE Hit(c) \/ Miss(c) \/ BeginClear(c)
  <2>1. PICK a \in {"hit", "building", "clearing"} :
          Moves(c, a, task[c].logger, task[c].thread, task[c].event)
    BY <1>4, CallerMoves
  <2> QED
    BY <1>2, <2>1
<1>5. CASE TakeHit(c) \/ Enqueue(c) \/ (Clear(c) /\ cached = None)
  <2>1. Moves(c, "idle", None, None, NoEvent)
    BY <1>5, CallerMoves
  <2> QED
    BY <1>2, <2>1
<1>6. CASE Drain(c) \/ (Clear(c) /\ cached # None)
  <2>1. PICK f \in Loggers : DrainsBegin(c, f)
    BY <1>6, DrainKinds
  <2> QED
    BY <1>3, <2>1 DEF DrainsBegin
<1>7. ASSUME NEW e \in Events, Call(c, e)
      PROVE  Attended'
  <2>1. PICK a \in {"starting", "enqueueing"} : Moves(c, a, has[c], None, e)
    BY <1>7, CallMoves
  <2> QED
    BY <1>2, <2>1
<1> QED
  BY <1>4, <1>5, <1>6, <1>7

LEMMA AttendedMade ==
  ASSUME Sound, Ties, Attended, NEW c \in Callers, torn' = {},
         Insert(c) \/ StartReturns(c) \/ Build(c) \/ StartAgain(c)
  PROVE  Attended'
<1>0. c \in Tasks
  BY CallerTask
<1>1. CASE Insert(c)
  <2>1. PICK f : f = task[c].logger
    OBVIOUS
  <2>2. Moves(c, "idle", None, None, NoEvent)
    BY <1>1, CallerMoves
  <2>3. thread' = thread /\ logger' = logger /\ task'[c].at # "locking"
        /\ \A u \in Tasks : u # c => task'[u] = task[u]
    BY <2>2 DEF Moves, Becomes
  <2>4. handed \subseteq handed' /\ Handed(f)'
    <3>1. PICK h : h = [clears |-> clears, logger |-> f]
      OBVIOUS
    <3>2. h.logger = f /\ handed' = handed \cup {h}
      BY <1>1, <2>1, <3>1 DEF Insert
    <3> QED
      BY <3>2 DEF Handed
  <2>5. \A k \in Loggers : Live(k)' = Live(k) /\ (Joinable(k) => Joinable(k)')
    BY <2>3 DEF Live, Joinable
  <2>6. \A k \in Loggers : Attends(k, c) => Handed(k)'
    BY <2>1, <2>4 DEF Attends
  <2> QED
    BY <1>0, <2>3, <2>4, <2>5, <2>6, AttendedKept
<1>2. CASE StartReturns(c)
  <2>1. PICK f : f = task[c].logger
    OBVIOUS
  <2>2. PICK a : /\ a = IF task[c].event = NoEvent THEN "locking" ELSE "enqueueing"
                 /\ Moves(c, a, f, task[c].thread, task[c].event)
    BY <1>2, <2>1, CallerMoves
  <2>3. thread' = thread /\ logger' = logger /\ task'[c].at = a /\ task'[c].logger = f
        /\ \A u \in Tasks : u # c => task'[u] = task[u]
    BY <2>2 DEF Moves, Becomes
  <2>4. handed' = handed /\ logger[f].loop # None
    BY <1>2, <2>1 DEF StartReturns, cacheVars
  <2>5. \A k \in Loggers : Live(k)' = Live(k) /\ (Joinable(k) => Joinable(k)')
    BY <2>3 DEF Live, Joinable
  <2>6. Joinable(f)'
    BY <2>3, <2>4 DEF Joinable
  <2>7. \A k \in Loggers : Attends(k, c) => Attends(k, c)' \/ Handed(k)'
    <3>1. CASE task[c].event = NoEvent
      BY <2>1, <2>2, <2>3, <3>1 DEF Attends
    <3>2. CASE task[c].event # NoEvent
      <4>1. Handed(f)
        BY <1>0, <2>1, <3>2 DEF Ties, Hands
      <4> QED
        BY <2>1, <2>4, <4>1 DEF Attends, Handed
    <3> QED
      BY <3>1, <3>2
  <2>8. Joinable(task[c].logger)'
    BY <2>3, <2>6 DEF Joinable
  <2> QED
    BY <1>0, <2>3, <2>4, <2>5, <2>7, <2>8, AttendedKept
<1>3. CASE Build(c) \/ StartAgain(c)
  <2>1. PICK f, g : /\ Starts(c, f, g)
                    /\ \/ f = created + 1
                       \/ task[c].at = "starting" /\ f = task[c].logger
    BY <1>3, BuildStarts, StartAgainStarts DEF StartAgain
  <2>2. /\ f \in Loggers /\ thread[g].at = "none"
        /\ task'[c].at = "waiting" /\ task'[c].logger = f
        /\ task[c].at \in {"building", "starting"} /\ handed' = handed
        /\ \A u \in Tasks : u # c => task'[u] = task[u]
        /\ \A k \in Loggers : k # f => logger'[k] = logger[k]
        /\ \A h \in Threads : h # g => thread'[h] = thread[h]
        /\ thread'[g].logger = f
    BY <1>3, <2>1 DEF Starts, Becomes, Build, StartAgain, cacheVars
  <2>3. \A k \in Loggers : Live(k)' \subseteq Live(k) \/ Attends(k, c)'
    BY <2>2 DEF Live, Attends
  <2>4. \A k \in Loggers : ~Attends(k, c)
    BY <2>2 DEF Attends
  <2>5. Handed(f)' \/ \A u \in Tasks : task[u].logger # f
    <3>1. CASE f = created + 1
      <4>1. created \in Nat
        BY TypeParts DEF Sound
      <4>2. \A u \in Tasks : task[u].logger \in 0 .. created
        BY DEF Ties, Numbered
      <4> QED
        BY <3>1, <4>1, <4>2
    <3>2. CASE task[c].at = "starting" /\ f = task[c].logger
      BY <1>0, <2>2, <3>2 DEF Ties, Hands, Handed
    <3> QED
      BY <2>1, <3>1, <3>2
  <2>6. \A k \in Loggers : Joinable(k) => \/ Joinable(k)' \/ Handed(k)'
                                          \/ \A u \in Tasks : task[u].logger # k
    BY <2>2, <2>5 DEF Joinable
  <2> QED
    BY <1>0, <2>2, <2>3, <2>4, <2>6, AttendedKept
<1> QED
  BY <1>1, <1>2, <1>3

LEMMA AttendedLoses ==
  ASSUME Sound, Attended, OneThread, NEW c \in Callers, Lose(c)
  PROVE  Attended'
<1>1. PICK f : f = task[c].logger
  OBVIOUS
<1>2. f \in Loggers /\ task[c].at = "locking" /\ Stopped(c, f) /\ handed' = handed /\ c \in Tasks
  BY <1>1, CallerTask, Stopping DEF Lose
<1>3. PICK a \in {"joining", "counting"} :
        /\ Becomes(c, a, f, logger[f].thread, NoEvent)
        /\ a = "joining" <=> (logger[f].loop # None /\ logger[f].thread # None)
  BY <1>2 DEF Stopped
<1>4. /\ thread' = thread /\ task'[c].at = a /\ task'[c].logger = f
      /\ \A u \in Tasks : u # c => task'[u] = task[u]
      /\ \A k \in Loggers : logger'[k].loop = logger[k].loop /\ logger'[k].thread = logger[k].thread
  BY <1>2, <1>3 DEF Stopped, Becomes
<1>5. \A k \in Loggers : Live(k)' = Live(k) /\ (Joinable(k) => Joinable(k)')
  BY <1>4 DEF Live, Joinable
<1>6. Attends(f, c)' \/ Handed(f)' \/ Live(f)' = {}
  <2>1. CASE a = "joining"
    BY <1>4, <2>1 DEF Attends
  <2>2. CASE Handed(f)
    BY <1>2, <2>2 DEF Handed
  <2>3. CASE a = "counting" /\ ~Handed(f)
    <3>1. logger[f].thread = None
      BY <1>1, <1>2, <1>3, <2>3 DEF Attended, Joinable
    <3>2. Live(f) \subseteq {None} /\ Live(f) \subseteq Threads /\ None \notin Threads
      BY <1>2, <3>1, TypeParts DEF OneThread, Live, Sound
    <3> QED
      BY <1>2, <1>5, <3>2
  <2> QED
    BY <1>3, <2>1, <2>2, <2>3
<1>7. \A k \in Loggers : Attends(k, c) => Attends(k, c)' \/ Handed(k)' \/ Live(k)' = {}
  BY <1>1, <1>6 DEF Attends
<1>8. task'[c].at # "locking"
  BY <1>3, <1>4
<1> QED
  BY <1>2, <1>4, <1>5, <1>7, <1>8, AttendedKept

LEMMA AttendedDrains ==
  ASSUME Sound, Attended, torn' = {}, NEW t \in Tasks, Join(t) \/ Count(t) \/ Cleans(t),
         handed \subseteq handed'
  PROVE  Attended'
<1>1. CASE Join(t)
  <2>1. PICK f : f = task[t].logger
    OBVIOUS
  <2>2. /\ f \in Loggers /\ Becomes(t, "counting", f, task[t].thread, task[t].event)
        /\ \A k \in Loggers : k # f => logger'[k] = logger[k]
        /\ logger'[f].thread = None /\ Live(f) = {} /\ thread' = thread
    BY <1>1, <2>1, JoinMoves DEF Join
  <2>3. task'[t].at = "counting" /\ \A u \in Tasks : u # t => task'[u] = task[u]
    BY <2>2 DEF Becomes
  <2>4. \A k \in Loggers : Live(k)' = Live(k) /\ (Joinable(k) => Joinable(k)')
    BY <2>2 DEF Live, Joinable
  <2>5. \A k \in Loggers : Attends(k, t) => Live(k)' = {}
    BY <2>1, <2>2, <2>4 DEF Attends
  <2>6. task'[t].at # "locking"
    BY <2>3
  <2> QED
    BY <2>3, <2>4, <2>5, <2>6, AttendedKept
<1>2. CASE Count(t)
  <2>1. Moves(t, "cleaning", task[t].logger, task[t].thread, task[t].event)
    BY <1>2, CountMoves
  <2>2. Becomes(t, "cleaning", task[t].logger, task[t].thread, task[t].event)
        /\ thread' = thread /\ logger' = logger /\ task[t].at = "counting"
    BY <1>2, <2>1 DEF Moves, Count
  <2> QED
    BY <2>2, AttendedAside
<1>3. CASE Cleans(t)
  <2>1. /\ Becomes(t, "idle", None, None, NoEvent) /\ thread' = thread /\ task[t].at = "cleaning"
        /\ \A k \in Loggers : /\ logger'[k].loop = logger[k].loop
                              /\ logger'[k].thread = logger[k].thread
    BY <1>3 DEF Cleans
  <2> QED
    BY <2>1, AttendedAside
<1> QED
  BY <1>1, <1>2, <1>3

LEMMA AttendedThreads ==
  ASSUME Sound, Attended, NEW g \in Threads, Begin(g) \/ Gather(g) \/ Process(g) \/ Finish(g)
  PROVE  Attended'
<1>1. task' = task /\ handed' = handed /\ Main \in Tasks /\ Main \notin Callers
  BY LifecycleAssumption DEF Begin, Gather, Process, Finish, cacheVars, Tasks
<1>2. \A f : Live(f)' \subseteq Live(f)
  <2>1. CASE Begin(g)
    BY <2>1, BeginMoves, RunsLive DEF Begin
  <2>2. CASE Gather(g)
    <3>1. PICK a \in {"running", "ended"} : thread' = [thread EXCEPT ![g].at = a]
      BY <2>2 DEF Gather
    <3> QED
      BY <2>2, <3>1, RunsTo, RunsLive DEF Gather
  <2>3. CASE Process(g)
    BY <2>3 DEF Process, Live
  <2>4. CASE Finish(g)
    BY <2>4, RunsTo, RunsLive DEF Finish
  <2> QED
    BY <2>1, <2>2, <2>3, <2>4
<1>3. \A f \in Loggers : Joinable(f) => Joinable(f)'
  <2>1. CASE Begin(g)
    <3>1. PICK k : k = thread[g].logger
      OBVIOUS
    <3>2. logger'[k].loop = g /\ g # None /\ \A f \in Loggers : f # k => logger'[f] = logger[f]
      BY <2>1, <3>1, BeginMoves, TypeParts DEF Sound
    <3> QED
      BY <3>2 DEF Joinable
  <2>2. CASE Gather(g) \/ Process(g) \/ Finish(g)
    BY <2>2 DEF Gather, Process, Finish, Joinable
  <2> QED
    BY <2>1, <2>2
<1>4. \A f \in Loggers : Attends(f, Main) => Attends(f, Main)'
  BY <1>1 DEF Attends
<1> QED
  BY <1>1, <1>2, <1>3, <1>4, AttendedKept

LEMMA AttendedExit ==
  ASSUME Sound, Attended,
         BeginExit \/ ExitRefuses \/ EndExit \/ \E f \in Loggers : ExitDrains(f)
  PROVE  Attended'
<1>1. CASE BeginExit \/ ExitRefuses \/ EndExit
  BY <1>1 DEF BeginExit, Signal, InterpreterExits, Exits, ExitRefuses,
     EndExit, cacheVars, Attended, Attends, Joinable, Handed, Live
<1>2. ASSUME NEW f \in Loggers, ExitDrains(f)
      PROVE  Attended'
  <2>1. Main \in Tasks /\ Stopped(Main, f) /\ handed' = handed /\ task[Main].at = "idle"
    BY <1>2, Stopping DEF ExitDrains, cacheVars, Tasks, Idle
  <2>2. PICK a \in {"joining", "counting"} : Becomes(Main, a, f, logger[f].thread, NoEvent)
    BY <2>1 DEF Stopped
  <2>3. /\ thread' = thread
        /\ \A k \in Loggers : /\ logger'[k].loop = logger[k].loop
                              /\ logger'[k].thread = logger[k].thread
    BY <2>1 DEF Stopped
  <2> QED
    BY <2>1, <2>2, <2>3, AttendedAside
<1> QED
  BY <1>1, <1>2

LEMMA WatchedStep ==
  ASSUME Sound, Ties, Orderly, Watched, [Next]_vars
  PROVE  Watched'
<1>1. CASE Next
  <2> SUFFICES ASSUME torn' = {} PROVE Attended'
    BY DEF Watched
  <2>1. OneThread /\ Attended
    BY <1>1, TornGrows DEF Orderly, Watched
  <2>2. ASSUME NEW c \in Callers, Proceed(c) \/ Hit(c) \/ Miss(c) \/ Drain(c) \/ BeginClear(c)
        PROVE  Attended'
    <3>1. CASE Cleanup(c)
      <4>1. Cleans(c) /\ c \in Tasks /\ handed \subseteq handed'
        BY <3>1, CallerTask, CleaningMoves DEF Cleanup
      <4> QED
        BY <2>1, <4>1, AttendedDrains
    <3> QED
      BY <2>1, <2>2, <3>1, AttendedMoves, AttendedMade, AttendedLoses DEF Proceed
  <2>3. ASSUME NEW t \in Tasks, Drains(t)
        PROVE  Attended'
    <3>1. handed' = handed
      BY <2>3 DEF Drains, Join, Count, cacheVars
    <3> QED
      BY <2>1, <2>3, <3>1, AttendedDrains DEF Drains
  <2>4. CASE ExitCleansUp
    <3>1. Main \in Tasks /\ Cleans(Main) /\ handed' = handed
      BY <2>4, CleaningMoves DEF Tasks, ExitCleansUp, cacheVars
    <3> QED
      BY <2>1, <3>1, AttendedDrains
  <2> QED
    BY <1>1, <2>1, <2>2, <2>3, <2>4, AttendedMoves, AttendedThreads, AttendedExit DEF Next, ExitStep
<1>2. CASE UNCHANGED vars
  BY <1>2 DEF vars, cacheVars, exitVars, Watched, Attended, Attends, Joinable, Handed, Live
<1> QED
  BY <1>1, <1>2

LEMMA WatchedInitially == Init => Watched
<1> SUFFICES ASSUME Init PROVE Attended
  BY DEF Watched
<1>1. \A c \in Callers : task[c].at = "idle"
  BY DEF Init, Idle, Tasks
<1>2. \A f \in Loggers : Live(f) = {}
  BY DEF Init, NoThread, Live
<1> QED
  BY <1>1, <1>2 DEF Attended

(***************************************************************************)
(* No thread of a logger that lost the race outlives the call that made    *)
(* it, for any callers and placements: until the caller has joined it, the *)
(* caller has the logger in hand.                                          *)
(***************************************************************************)
THEOREM LosersAreDrained == Spec => []LosersEnd
<1>1. Sound /\ Watched => LosersEnd
  <2> SUFFICES ASSUME Sound, Watched, torn = {}, NEW f \in 1 .. created,
                      \A h \in handed : h.logger # f, \A t \in Tasks : task[t].logger # f
               PROVE  Live(f) = {}
    BY DEF LosersEnd
  <2>1. f \in Loggers
    <3>1. created \in 0 .. MaxCalls /\ MaxCalls \in Nat
      BY TypeRest, LifecycleAssumption
    <3> QED
      BY <3>1 DEF Loggers
  <2>2. \A c \in Callers : ~Attends(f, c)
    BY DEF Attends, Tasks
  <2> QED
    BY <2>1, <2>2 DEF Watched, Attended, Handed
<1> QED
  BY <1>1, WatchedInitially, WatchedStep, AlwaysSound, AlwaysOrderly, PTL DEF Spec

-----------------------------------------------------------------------------
(* Nobody waits for ever                                                    *)

\* The thread a logger keeps is one that was started for it.
Owns ==
  \A f \in Loggers : logger[f].thread # None =>
    thread[logger[f].thread].logger = f /\ thread[logger[f].thread].at # "none"

\* Who joins a thread has asked its logger to stop, and nobody took that back.
Joins ==
  torn = {} =>
    \A t \in Tasks : task[t].at = "joining" =>
      /\ task[t].thread \in Threads
      /\ thread[task[t].thread].logger = task[t].logger
      /\ thread[task[t].thread].at # "none"
      /\ logger[task[t].logger].stop

\* The lock is held by a drain, by one alone on its loop unless lockedIn.
Held ==
  lock # None =>
    /\ lock \in Callers /\ task[lock].at \in DrainStates
    /\ ~lockedIn => Company(lock) = {}

\* A loop runs one task at a time.
Alone ==
  \A c, d \in Callers :
    c # d /\ loopOf[c] = loopOf[d] =>
      ~(task[c].at \in Uninterrupted /\ task[d].at \in Uninterrupted)

AtRest ==
  /\ \A t \in Tasks : task[t].at = "idle" => task[t] = Idle
  /\ task[Main].at \in DrainStates \cup {"idle"}

Bearings == Owns /\ Joins /\ Held /\ Alone /\ AtRest

LEMMA StopBearings ==
  ASSUME Sound, Owns, torn' = {} => Joins /\ torn = {}, NEW t \in Tasks, NEW f \in Loggers,
         Stopped(t, f)
  PROVE  Owns' /\ Joins'
<1>1. /\ thread' = thread
      /\ \A k \in Loggers : /\ logger'[k].thread = logger[k].thread
                            /\ logger[k].stop => logger'[k].stop
      /\ logger'[f].stop
  BY DEF Stopped
<1>2. Owns'
  BY <1>1 DEF Owns
<1>3. PICK a : /\ Becomes(t, a, f, logger[f].thread, NoEvent)
               /\ a = "joining" => logger[f].thread # None
  BY DEF Stopped
<1>4. \A u \in Tasks : task[u].at = "joining" => task[u].logger \in Loggers
  BY InHand, TypeRest DEF Sound, CacheInv, TaskState, None
<1>5. logger[f].thread \in Threads \cup {None}
  BY TypeRest DEF LoggerState
<1>6. ASSUME torn' = {}, NEW u \in Tasks, task'[u].at = "joining"
      PROVE  /\ task'[u].thread \in Threads
             /\ thread'[task'[u].thread].logger = task'[u].logger
             /\ thread'[task'[u].thread].at # "none"
             /\ logger'[task'[u].logger].stop
  <2>1. CASE u = t
    <3>1. /\ task'[u].logger = f /\ task'[u].thread = logger[f].thread
          /\ logger[f].thread # None
      BY <1>3, <1>6, <2>1 DEF Becomes
    <3> QED
      BY <1>1, <1>5, <3>1 DEF Owns
  <2>2. CASE u # t
    <3>1. task'[u] = task[u]
      BY <1>3, <2>2 DEF Becomes
    <3> QED
      BY <1>1, <1>4, <1>6, <3>1 DEF Joins
  <2> QED
    BY <2>1, <2>2
<1> QED
  BY <1>2, <1>6 DEF Joins

\* Steps that begin no join and move no flag.
LEMMA AsideBearings ==
  ASSUME Sound, Owns, torn' = {} => Joins /\ torn = {},
         \A u \in Tasks : task'[u] = task[u] \/ task'[u].at # "joining",
         \A k \in Loggers : /\ logger'[k].thread \in {None, logger[k].thread}
                            /\ logger'[k].stop = logger[k].stop,
         \A h \in Threads : /\ thread'[h].logger = thread[h].logger
                            /\ thread[h].at # "none" => thread'[h].at # "none"
  PROVE  Owns' /\ Joins'
<1>1. \A k \in Loggers : logger[k].thread \in Threads \cup {None}
  BY TypeRest DEF LoggerState
<1>2. \A u \in Tasks : task[u].at = "joining" => task[u].logger \in Loggers
  BY InHand, TypeRest DEF Sound, CacheInv, TaskState, None
<1>3. Owns'
  BY <1>1 DEF Owns
<1>4. Joins'
  BY <1>2 DEF Joins
<1> QED
  BY <1>3, <1>4

LEMMA StartBearings ==
  ASSUME Sound, Owns, torn' = {} => Joins /\ torn = {}, NEW c \in Tasks, NEW f, NEW g,
         Starts(c, f, g)
  PROVE  Owns' /\ Joins'
<1>1. /\ f \in Loggers /\ g \in Threads /\ thread[g].at = "none" /\ logger'[f].thread = g
      /\ \A k \in Loggers : k # f => logger'[k] = logger[k]
      /\ \A h \in Threads : h # g => thread'[h] = thread[h]
      /\ thread'[g].at = "new" /\ thread'[g].logger = f
      /\ \A u \in Tasks : u # c => task'[u] = task[u]
      /\ task'[c].at = "waiting"
  BY DEF Starts, Becomes
<1>2. torn' = {} => \A u \in Tasks : task[u].logger = f => task[u].at # "joining"
  BY DEF Starts
<1>3. \A k \in Loggers : logger[k].thread \in Threads \cup {None}
  BY TypeRest DEF LoggerState
<1>4. \A u \in Tasks : task[u].at = "joining" => task[u].logger \in Loggers
  BY InHand, TypeRest DEF Sound, CacheInv, TaskState, None
<1>5. Owns'
  <2> SUFFICES ASSUME NEW k \in Loggers, logger'[k].thread # None
               PROVE  /\ thread'[logger'[k].thread].logger = k
                      /\ thread'[logger'[k].thread].at # "none"
    BY DEF Owns
  <2>1. CASE k = f
    BY <1>1, <2>1
  <2>2. CASE k # f
    <3>1. logger'[k] = logger[k] /\ logger[k].thread \in Threads
      BY <1>1, <1>3, <2>2
    <3>2. thread[logger[k].thread].logger = k /\ thread[logger[k].thread].at # "none"
      BY <3>1 DEF Owns
    <3> QED
      BY <1>1, <3>1, <3>2
  <2> QED
    BY <2>1, <2>2
<1>6. ASSUME torn' = {}, NEW u \in Tasks, task'[u].at = "joining"
      PROVE  /\ task'[u].thread \in Threads
             /\ thread'[task'[u].thread].logger = task'[u].logger
             /\ thread'[task'[u].thread].at # "none"
             /\ logger'[task'[u].logger].stop
  <2>1. task'[u] = task[u] /\ task[u].logger \in Loggers /\ task[u].logger # f
    BY <1>1, <1>2, <1>4, <1>6
  <2>2. /\ task[u].thread \in Threads /\ thread[task[u].thread].logger = task[u].logger
        /\ thread[task[u].thread].at # "none" /\ logger[task[u].logger].stop
    BY <1>6, <2>1 DEF Joins
  <2> QED
    BY <1>1, <2>1, <2>2
<1> QED
  BY <1>5, <1>6 DEF Joins

LEMMA ThreadBearings ==
  ASSUME Sound, Owns, Joins, Ties, Next
  PROVE  Owns' /\ Joins'
<1>0. torn' = {} => Joins /\ torn = {}
  BY TornGrows
<1>1. ASSUME NEW c \in Callers, Walks(c)
      PROVE  Owns' /\ Joins'
  <2>1. PICK a, f, g, e : Moves(c, a, f, g, e) /\ a \notin DrainStates
    BY <1>1 DEF Walks
  <2>2. /\ \A u \in Tasks : task'[u] = task[u] \/ task'[u].at # "joining"
        /\ UNCHANGED <<logger, thread>>
    BY <2>1 DEF Moves, Becomes, DrainStates
  <2> QED
    BY <1>0, <2>2, AsideBearings
<1>2. ASSUME NEW c \in Callers, NEW f \in Loggers, DrainsBegin(c, f)
      PROVE  Owns' /\ Joins'
  BY <1>0, <1>2, StopBearings, CallerTask DEF DrainsBegin
<1>3. ASSUME NEW c \in Callers, NEW f, NEW g, StartBegins(c, f, g)
      PROVE  Owns' /\ Joins'
  BY <1>0, <1>3, StartBearings, CallerTask DEF StartBegins
<1>4. ASSUME NEW t \in Tasks, Join(t)
      PROVE  Owns' /\ Joins'
  <2>1. /\ task[t].logger \in Loggers /\ thread' = thread
        /\ Becomes(t, "counting", task[t].logger, task[t].thread, task[t].event)
        /\ \A k \in Loggers : k # task[t].logger => logger'[k] = logger[k]
        /\ logger'[task[t].logger].thread = None
        /\ logger'[task[t].logger].stop = logger[task[t].logger].stop
    BY <1>4, JoinMoves DEF Join
  <2>2. \A u \in Tasks : task'[u] = task[u] \/ task'[u].at # "joining"
    BY <2>1 DEF Becomes
  <2> QED
    BY <1>0, <2>1, <2>2, AsideBearings
<1>5. ASSUME NEW t \in Tasks, Count(t)
      PROVE  Owns' /\ Joins'
  <2>1. /\ Becomes(t, "cleaning", task[t].logger, task[t].thread, task[t].event)
        /\ UNCHANGED <<logger, thread>>
    BY <1>5, CountMoves DEF Moves
  <2>2. \A u \in Tasks : task'[u] = task[u] \/ task'[u].at # "joining"
    BY <2>1 DEF Becomes
  <2> QED
    BY <1>0, <2>1, <2>2, AsideBearings
<1>6. ASSUME NEW t \in Tasks, Cleans(t)
      PROVE  Owns' /\ Joins'
  <2>1. /\ \A u \in Tasks : task'[u] = task[u] \/ task'[u].at # "joining"
        /\ thread' = thread
        /\ \A k \in Loggers : /\ logger'[k].thread = logger[k].thread
                              /\ logger'[k].stop = logger[k].stop
    BY <1>6 DEF Cleans, Becomes
  <2> QED
    BY <1>0, <2>1, AsideBearings
<1>7. ASSUME NEW g \in Threads, Begin(g) \/ Gather(g) \/ Process(g) \/ Finish(g)
      PROVE  Owns' /\ Joins'
  <2>1. \/ thread' = thread
        \/ \E a : Runs(g, a) /\ a # "none"
    <3>1. CASE Gather(g)
      <4>1. PICK a \in {"running", "ended"} : thread' = [thread EXCEPT ![g].at = a]
        BY <3>1 DEF Gather
      <4>2. a \in {"gathering", "running", "ended"} /\ a # "none"
        OBVIOUS
      <4>3. Runs(g, a)
        BY <4>1, <4>2, RunsTo
      <4> QED
        BY <4>2, <4>3
    <3>2. CASE Begin(g)
      BY <3>2, BeginMoves
    <3>3. CASE Finish(g)
      <4>1. Runs(g, "ended")
        BY <3>3, RunsTo DEF Finish
      <4> QED
        BY <4>1
    <3> QED
      BY <1>7, <3>1, <3>2, <3>3 DEF Process
  <2>2. \A h \in Threads : /\ thread'[h].logger = thread[h].logger
                           /\ thread[h].at # "none" => thread'[h].at # "none"
    BY <2>1 DEF Runs
  <2>3. \A k \in Loggers : /\ logger'[k].thread = logger[k].thread
                           /\ logger'[k].stop = logger[k].stop
    BY <1>7, BeginMoves DEF Gather, Process, Finish
  <2>4. task' = task
    BY <1>7 DEF Begin, Gather, Process, Finish
  <2> QED
    BY <1>0, <2>2, <2>3, <2>4, AsideBearings
<1>8. CASE BeginExit \/ ExitRefuses \/ EndExit
  <2>1. UNCHANGED <<task, logger, thread>>
    BY <1>8 DEF BeginExit, Signal, InterpreterExits, Exits, ExitRefuses, EndExit
  <2> QED
    BY <1>0, <2>1, AsideBearings
<1>9. ASSUME NEW f \in Loggers, ExitDrains(f)
      PROVE  Owns' /\ Joins'
  <2>1. Stopped(Main, f) /\ Main \in Tasks
    BY <1>9, Stopping DEF ExitDrains, Tasks
  <2> QED
    BY <1>0, <2>1, StopBearings
<1> QED
  BY <1>1, <1>2, <1>3, <1>4, <1>5, <1>6, <1>7, <1>8, <1>9, Kinds

\* What a step makes of the tasks, the lock and the loops.
LoopStep(t, a, f, g, e) ==
  /\ Becomes(t, a, f, g, e)
  /\ a = "idle" => f = None /\ g = None /\ e = NoEvent
  /\ \/ t \in Callers /\ task[t].at \notin DrainStates /\ Free(t) /\ UNCHANGED <<lock, lockedIn>>
     \/ /\ t \in Callers /\ task[t].at \notin DrainStates /\ a \in {"joining", "counting"}
        /\ lock = None /\ lock' = t /\ lockedIn' = (lockedIn \/ Company(t) # {})
     \/ t = Main /\ a \in {"joining", "counting"} /\ UNCHANGED <<lock, lockedIn>>
     \/ task[t].at \in DrainStates /\ a \in {"counting", "cleaning"} /\ UNCHANGED <<lock, lockedIn>>
     \/ /\ task[t].at = "cleaning" /\ a = "idle" /\ lockedIn' = lockedIn
        /\ lock' = IF lock = t THEN None ELSE lock

LEMMA ProceedLoops ==
  ASSUME Sound, NEW c \in Callers, Proceed(c)
  PROVE  \E a, f, g, e : LoopStep(c, a, f, g, e)
<1>1. c \in Tasks
  BY CallerTask
<1>2. CASE TakeHit(c) \/ Insert(c) \/ Enqueue(c) \/ (Clear(c) /\ cached = None)
  <2>1. Becomes(c, "idle", None, None, NoEvent)
    BY <1>2, CallerMoves DEF Moves
  <2>2. /\ task[c].at \notin DrainStates /\ Free(c) /\ UNCHANGED <<lock, lockedIn>>
    BY <1>2 DEF TakeHit, Insert, Enqueue, Clear, cacheVars, DrainStates
  <2> QED
    BY <2>1, <2>2 DEF LoopStep
<1>3. CASE StartReturns(c)
  <2>1. PICK a \in {"locking", "enqueueing"} :
          Becomes(c, a, task[c].logger, task[c].thread, task[c].event)
    <3>1. CASE task[c].event = NoEvent
      BY <1>3, <3>1, CallerMoves DEF Moves
    <3>2. CASE task[c].event # NoEvent
      BY <1>3, <3>2, CallerMoves DEF Moves
    <3> QED
      BY <3>1, <3>2
  <2>2. /\ task[c].at \notin DrainStates /\ Free(c) /\ UNCHANGED <<lock, lockedIn>>
    BY <1>3 DEF StartReturns, cacheVars, DrainStates
  <2>3. a # "idle"
    OBVIOUS
  <2> QED
    BY <2>1, <2>2, <2>3 DEF LoopStep
<1>4. CASE Build(c) \/ StartAgain(c)
  <2>1. PICK f : Becomes(c, "waiting", f, task[c].thread, task[c].event)
    BY <1>4, BuildStarts, StartAgainStarts DEF Starts
  <2>2. /\ task[c].at \notin DrainStates /\ Free(c) /\ UNCHANGED <<lock, lockedIn>>
    BY <1>4 DEF Build, StartAgain, cacheVars, DrainStates
  <2> QED
    BY <2>1, <2>2 DEF LoopStep
<1>5. CASE Lose(c) \/ (Clear(c) /\ cached # None)
  <2>1. PICK f \in Loggers : DrainsBegin(c, f)
    BY <1>5, DrainKinds
  <2>2. PICK a \in {"joining", "counting"} : Becomes(c, a, f, logger[f].thread, NoEvent)
    BY <2>1 DEF DrainsBegin, Stopped
  <2>3. a # "idle"
    OBVIOUS
  <2>4. \/ /\ Free(c) /\ UNCHANGED <<lock, lockedIn>>
        \/ lock = None /\ lock' = c /\ lockedIn' = (lockedIn \/ Company(c) # {})
    BY <1>5 DEF Lose, Clear
  <2>5. task[c].at \notin DrainStates
    BY <2>1 DEF DrainsBegin
  <2> QED
    BY <2>2, <2>3, <2>4, <2>5 DEF LoopStep
<1>6. CASE Cleanup(c)
  <2>1. Becomes(c, "idle", None, None, NoEvent) /\ task[c].at = "cleaning"
    BY <1>1, <1>6, CleaningMoves DEF Cleans
  <2>2. lockedIn' = lockedIn /\ lock' = IF lock = c THEN None ELSE lock
    BY <1>6 DEF Cleanup
  <2> QED
    BY <2>1, <2>2 DEF LoopStep
<1> QED
  BY <1>2, <1>3, <1>4, <1>5, <1>6 DEF Proceed

LEMMA CallLoops ==
  ASSUME Sound, NEW c \in Callers,
         Hit(c) \/ Miss(c) \/ Drain(c) \/ BeginClear(c) \/ \E e \in Events : Call(c, e)
  PROVE  \E a, f, g, e : LoopStep(c, a, f, g, e)
<1>1. /\ task[c].at \notin DrainStates /\ Free(c) /\ UNCHANGED <<lock, lockedIn>>
  <2>1. Calls(c) /\ UNCHANGED cacheVars
    BY DEF Hit, Miss, Drain, BeginClear, Call
  <2> QED
    BY <2>1 DEF Calls, Idle, cacheVars, DrainStates
<1>2. \E a, f, g, e : Becomes(c, a, f, g, e) /\ a # "idle"
  <2>1. CASE Hit(c) \/ Miss(c) \/ BeginClear(c)
    BY <2>1, CallerMoves DEF Moves
  <2>2. CASE Drain(c)
    <3>1. PICK f \in Loggers : DrainsBegin(c, f)
      BY <2>2, DrainKinds
    <3>2. PICK a \in {"joining", "counting"} : Becomes(c, a, f, logger[f].thread, NoEvent)
      BY <3>1 DEF DrainsBegin, Stopped
    <3>3. a # "idle"
      OBVIOUS
    <3> QED
      BY <3>2, <3>3
  <2>3. ASSUME NEW e \in Events, Call(c, e)
        PROVE  \E a, f, g, x : Becomes(c, a, f, g, x) /\ a # "idle"
    <3>1. PICK a \in {"starting", "enqueueing"} : Becomes(c, a, has[c], None, e)
      BY <2>3, CallMoves DEF Moves
    <3>2. a # "idle"
      OBVIOUS
    <3> QED
      BY <3>1, <3>2
  <2> QED
    BY <2>1, <2>2, <2>3
<1> QED
  BY <1>1, <1>2 DEF LoopStep

LEMMA LoopSteps ==
  ASSUME Sound, Next
  PROVE  /\ loopOf' = loopOf
         /\ \/ UNCHANGED <<task, lock, lockedIn>>
            \/ \E t \in Tasks : \E a, f, g, e : LoopStep(t, a, f, g, e)
<1>1. ASSUME NEW c \in Callers, Proceed(c)
      PROVE  loopOf' = loopOf /\ \E a, f, g, e : LoopStep(c, a, f, g, e)
  <2>1. loopOf' = loopOf
    BY <1>1 DEF Proceed, TakeHit, Build, Insert, Lose, StartAgain, StartReturns, Enqueue, Clear,
                Cleanup
  <2> QED
    BY <1>1, <2>1, ProceedLoops
<1>2. ASSUME NEW c \in Callers,
             Hit(c) \/ Miss(c) \/ Drain(c) \/ BeginClear(c) \/ \E e \in Events : Call(c, e)
      PROVE  loopOf' = loopOf /\ \E a, f, g, e : LoopStep(c, a, f, g, e)
  <2>1. loopOf' = loopOf
    BY <1>2 DEF Hit, Miss, Drain, BeginClear, Call
  <2> QED
    BY <1>2, <2>1, CallLoops
<1>3. ASSUME NEW t \in Tasks, Drains(t)
      PROVE  loopOf' = loopOf /\ \E a, f, g, e : LoopStep(t, a, f, g, e)
  <2>1. loopOf' = loopOf /\ task[t].at \in DrainStates /\ UNCHANGED <<lock, lockedIn>>
    BY <1>3 DEF Drains, Join, Count, cacheVars, DrainStates
  <2>2. \E a \in {"counting", "cleaning"} :
          Becomes(t, a, task[t].logger, task[t].thread, task[t].event)
    BY <1>3, JoinMoves, CountMoves DEF Drains, Moves
  <2>3. PICK a \in {"counting", "cleaning"} :
          Becomes(t, a, task[t].logger, task[t].thread, task[t].event)
    BY <2>2
  <2>4. a # "idle"
    OBVIOUS
  <2> QED
    BY <2>1, <2>3, <2>4 DEF LoopStep
<1>4. ASSUME NEW g \in Threads, Begin(g) \/ Gather(g) \/ Process(g) \/ Finish(g)
      PROVE  UNCHANGED <<loopOf, task, lock, lockedIn>>
  BY <1>4 DEF Begin, Gather, Process, Finish, cacheVars
<1>5. CASE BeginExit \/ ExitRefuses \/ EndExit
  BY <1>5 DEF BeginExit, Signal, InterpreterExits, Exits, ExitRefuses, EndExit, cacheVars
<1>6. Main \in Tasks
  BY DEF Tasks
<1>7. ASSUME NEW f \in Loggers, ExitDrains(f)
      PROVE  loopOf' = loopOf /\ \E a, k, g, e : LoopStep(Main, a, k, g, e)
  <2>1. Stopped(Main, f) /\ loopOf' = loopOf /\ UNCHANGED <<lock, lockedIn>>
    BY <1>6, <1>7, Stopping DEF ExitDrains, cacheVars
  <2>2. PICK a \in {"joining", "counting"} : Becomes(Main, a, f, logger[f].thread, NoEvent)
    BY <2>1 DEF Stopped
  <2>3. a # "idle"
    OBVIOUS
  <2> QED
    BY <2>1, <2>2, <2>3 DEF LoopStep
<1>8. CASE ExitCleansUp
  <2>1. /\ Becomes(Main, "idle", None, None, NoEvent) /\ task[Main].at = "cleaning"
        /\ loopOf' = loopOf /\ UNCHANGED <<lock, lockedIn>>
    BY <1>6, <1>8, CleaningMoves DEF Cleans, ExitCleansUp, cacheVars
  <2>2. lock # Main \/ lock = None
    BY TypeRest, LifecycleAssumption
  <2>3. lock' = IF lock = Main THEN None ELSE lock
    BY <2>1, <2>2
  <2> QED
    BY <1>6, <2>1, <2>3 DEF LoopStep
<1>9. \A c \in Callers : c \in Tasks
  BY DEF Tasks
<1> QED
  BY <1>1, <1>2, <1>3, <1>4, <1>5, <1>6, <1>7, <1>8, <1>9 DEF Next, ExitStep

LEMMA LoopBearings ==
  ASSUME Sound, Held, Alone, AtRest, loopOf' = loopOf, NEW t \in Tasks,
         NEW a, NEW f, NEW g, NEW e, LoopStep(t, a, f, g, e)
  PROVE  Held' /\ Alone' /\ AtRest'
<1>1. /\ \A u \in Tasks : u # t => task'[u] = task[u]
      /\ task'[t] = [at |-> a, logger |-> f, thread |-> g, event |-> e]
      /\ task'[t].at = a
  BY DEF LoopStep, Becomes
<1>2. \A c : Company(c)' = Company(c)
  BY DEF Company
<1>3. \A c \in Callers : c \in Tasks /\ c # Main /\ c # None
  BY CallerTask
<1>4. Held'
  <2> SUFFICES ASSUME lock' # None
               PROVE  /\ lock' \in Callers /\ task'[lock'].at \in DrainStates
                      /\ ~lockedIn' => Company(lock') = {}
    BY <1>2 DEF Held
  <2>1. CASE lock' = t /\ lock = None
    <3>1. /\ t \in Callers /\ a \in DrainStates /\ lockedIn' = (lockedIn \/ Company(t) # {})
      BY <2>1, <1>3 DEF LoopStep, DrainStates
    <3> QED
      BY <1>1, <2>1, <3>1
  <2>2. CASE lock' = lock /\ lockedIn' = lockedIn
    <3>1. lock \in Callers /\ task[lock].at \in DrainStates /\ (~lockedIn => Company(lock) = {})
      BY <2>2 DEF Held
    <3>2. CASE lock = t
      <4>1. a \in {"counting", "cleaning"}
        BY <1>3, <2>2, <3>1, <3>2 DEF LoopStep
      <4> QED
        BY <1>1, <2>2, <3>1, <3>2, <4>1 DEF DrainStates
    <3>3. CASE lock # t
      BY <1>1, <1>3, <2>2, <3>1, <3>3
    <3> QED
      BY <3>2, <3>3
  <2> QED
    BY <2>1, <2>2 DEF LoopStep
<1>5. Alone'
  <2>1. a \in Uninterrupted =>
          t \in Callers /\ \A c \in Company(t) : task[c].at \notin Uninterrupted
    BY DEF LoopStep, Uninterrupted, DrainStates, Free
  <2> SUFFICES ASSUME NEW c \in Callers, NEW d \in Callers, c # d, loopOf[c] = loopOf[d],
                      task'[c].at \in Uninterrupted, task'[d].at \in Uninterrupted
               PROVE  FALSE
    BY DEF Alone
  <2>2. CASE c = t
    <3>1. d \in Company(t) /\ task'[d] = task[d]
      BY <1>1, <1>3, <2>2 DEF Company
    <3> QED
      BY <1>1, <2>1, <2>2, <3>1
  <2>3. CASE d = t
    <3>1. c \in Company(t) /\ task'[c] = task[c]
      BY <1>1, <1>3, <2>3 DEF Company
    <3> QED
      BY <1>1, <2>1, <2>3, <3>1
  <2>4. CASE c # t /\ d # t
    BY <1>1, <1>3, <2>4 DEF Alone
  <2> QED
    BY <2>2, <2>3, <2>4
<1>6. AtRest'
  <2>1. \A u \in Tasks : task'[u].at = "idle" => task'[u] = Idle
    <3>1. task'[t].at = "idle" => task'[t] = Idle
      BY <1>1 DEF LoopStep, Idle
    <3> QED
      BY <1>1, <3>1 DEF AtRest
  <2>2. task'[Main].at \in DrainStates \cup {"idle"}
    <3>1. CASE t = Main
      <4>1. Main \notin Callers
        BY LifecycleAssumption
      <4>2. a \in {"idle", "joining", "counting", "cleaning"}
        BY <3>1, <4>1 DEF LoopStep
      <4> QED
        BY <1>1, <3>1, <4>2 DEF DrainStates
    <3>2. CASE t # Main
      BY <1>1, <3>2 DEF AtRest, Tasks
    <3> QED
      BY <3>1, <3>2
  <2> QED
    BY <2>1, <2>2 DEF AtRest
<1> QED
  BY <1>4, <1>5, <1>6

LEMMA BearingsStep ==
  ASSUME Sound, Ties, Bearings, [Next]_vars
  PROVE  Bearings'
<1>1. CASE Next
  <2>1. Owns' /\ Joins'
    BY <1>1, ThreadBearings DEF Bearings
  <2>2. ASSUME UNCHANGED <<task, lock, lockedIn, loopOf>>
        PROVE  Held' /\ Alone' /\ AtRest'
    BY <2>2 DEF Bearings, Held, Alone, AtRest, Company
  <2>3. Held' /\ Alone' /\ AtRest'
    BY <1>1, <2>2, LoopSteps, LoopBearings DEF Bearings
  <2> QED
    BY <2>1, <2>3 DEF Bearings
<1>2. CASE UNCHANGED vars
  BY <1>2 DEF vars, cacheVars, exitVars, Bearings, Owns, Joins, Held, Alone, AtRest, Company
<1> QED
  BY <1>1, <1>2

LEMMA BearingsInitially == Init => Bearings
<1> SUFFICES ASSUME Init PROVE Bearings
  OBVIOUS
<1>1. /\ \A t \in Tasks : task[t] = Idle /\ task[t].at = "idle"
      /\ \A f \in Loggers : logger[f].thread = None
      /\ lock = None
  BY DEF Init, Idle, Fresh
<1>2. Owns /\ Held
  BY <1>1 DEF Owns, Held
<1>3. Joins
  BY <1>1 DEF Joins
<1>4. Alone
  BY <1>1 DEF Alone, Tasks, Uninterrupted
<1>5. AtRest
  BY <1>1 DEF AtRest, Tasks, DrainStates
<1> QED
  BY <1>2, <1>3, <1>4, <1>5 DEF Bearings

LEMMA AlwaysBearings == Spec => []Bearings
BY BearingsInitially, BearingsStep, AlwaysSound, AlwaysOrderly, PTL DEF Spec

\* The guards of the steps that take a call, a drain or a thread further: of
\* Begin, Gather and Finish ...
ThreadGoesOn(g) ==
  /\ exit # "over"
  /\ \/ thread[g].at \in {"new", "gathering"}
     \/ thread[g].at = "running" /\ logger[thread[g].logger].stop

\* ... of Join and Count ...
DrainGoesOn(t) ==
  /\ exit # "over"
  /\ \/ task[t].at = "joining" /\ thread[task[t].thread].at = "ended"
     \/ task[t].at = "counting"

\* ... and of Proceed.
CallGoesOn(c) ==
  /\ Free(c)
  /\ \/ task[c].at \in {"hit", "building", "starting", "waiting", "enqueueing", "cleaning"}
     \/ task[c].at \in {"locking", "clearing"} /\ lock = None

\* Task t goes on, or the thread does that it joins.
Served(t) ==
  \/ DrainGoesOn(t)
  \/ t \in Callers /\ CallGoesOn(t)
  \/ task[t].at = "joining" /\ task[t].thread \in Threads /\ ThreadGoesOn(task[t].thread)

(***************************************************************************)
(* No call waits in a circle: a task in a call goes on, or one of its loop *)
(* does, or the one that holds the lock, or the thread that one of them    *)
(* joins.  Two premises, those of EveryCallReturns: nobody holds the lock  *)
(* across an await on a shared loop, and no start came in the way.         *)
(***************************************************************************)
NoCircle ==
  torn = {} /\ ~lockedIn /\ exit = "no" =>
    \A c \in Callers : task[c] # Idle =>
      \E t \in Callers : (t = c \/ t \in Company(c) \/ t = lock) /\ Served(t)

(***************************************************************************)
(* Nor does the exit, whatever callers and drains it interrupts, also      *)
(* those that hold the lock or wait for each other.                        *)
(***************************************************************************)
ExitGoesOn ==
  torn = {} /\ exit = "draining" =>
    task[Main] = Idle \/ task[Main].at = "cleaning" \/ Served(Main)

LEMMA DrainsServed ==
  ASSUME Sound, Bearings, torn = {}, exit # "over", NEW t \in Tasks,
         task[t].at \in {"joining", "counting"}
  PROVE  Served(t)
<1>1. CASE task[t].at = "counting"
  BY <1>1 DEF Served, DrainGoesOn
<1>2. CASE task[t].at = "joining"
  <2>1. PICK g : g = task[t].thread
    OBVIOUS
  <2>2. /\ g \in Threads /\ thread[g].logger = task[t].logger /\ thread[g].at # "none"
        /\ logger[task[t].logger].stop
    BY <1>2, <2>1 DEF Bearings, Joins
  <2>3. thread[g].at \in {"none", "new", "gathering", "running", "ended"}
    BY <2>2, TypeRest DEF ThreadState
  <2>4. thread[g].at = "ended" \/ ThreadGoesOn(g)
    BY <2>2, <2>3 DEF ThreadGoesOn
  <2> QED
    BY <1>2, <2>1, <2>2, <2>4 DEF Served, DrainGoesOn
<1> QED
  BY <1>1, <1>2

LEMMA LockServed ==
  ASSUME Sound, Bearings, torn = {}, ~lockedIn, exit = "no", lock # None
  PROVE  lock \in Callers /\ Served(lock)
<1>1. lock \in Callers /\ task[lock].at \in DrainStates /\ Company(lock) = {}
  BY DEF Bearings, Held
<1>2. lock \in Tasks
  BY <1>1, CallerTask
<1>3. CASE task[lock].at = "cleaning"
  <2>1. CallGoesOn(lock)
    BY <1>1, <1>3 DEF CallGoesOn, Free
  <2> QED
    BY <1>1, <2>1 DEF Served
<1>4. CASE task[lock].at \in {"joining", "counting"}
  BY <1>1, <1>2, <1>4, DrainsServed
<1> QED
  BY <1>1, <1>3, <1>4 DEF DrainStates

LEMMA LoopServed ==
  ASSUME Sound, Bearings, torn = {}, ~lockedIn, exit = "no", NEW c \in Callers, Free(c),
         task[c].at # "idle"
  PROVE  \E t \in Callers : (t = c \/ t = lock) /\ Served(t)
<1>1. c \in Tasks /\ task[c].at \in TaskStates
  BY CallerTask, TypeRest DEF TaskState
<1>2. CASE task[c].at \in {"joining", "counting"}
  BY <1>1, <1>2, DrainsServed
<1>3. CASE CallGoesOn(c)
  BY <1>3 DEF Served
<1>4. CASE task[c].at \in {"locking", "clearing"} /\ lock # None
  BY <1>4, LockServed
<1> QED
  BY <1>1, <1>2, <1>3, <1>4 DEF CallGoesOn, TaskStates

(***************************************************************************)
(* The safe half of EveryCallReturns, for any callers, loops, placements   *)
(* and number of calls.                                                    *)
(***************************************************************************)
THEOREM CallsDoNotBlock == Spec => []NoCircle
<1>1. Sound /\ Bearings => NoCircle
  <2> SUFFICES ASSUME Sound, Bearings, torn = {}, ~lockedIn, exit = "no",
                      NEW c \in Callers, task[c] # Idle
               PROVE  \E t \in Callers : (t = c \/ t \in Company(c) \/ t = lock) /\ Served(t)
    BY DEF NoCircle
  <2>1. task[c].at # "idle"
    BY CallerTask DEF Bearings, AtRest
  <2>2. CASE Free(c)
    BY <2>1, <2>2, LoopServed
  <2>3. CASE ~Free(c)
    <3>1. PICK d \in Company(c) : task[d].at \in Uninterrupted
      BY <2>3 DEF Free
    <3>2. d \in Callers /\ \A b \in Company(d) : b \in Callers /\ b # d /\ loopOf[b] = loopOf[d]
      BY <3>1 DEF Company
    <3>3. Free(d)
      BY <3>1, <3>2 DEF Bearings, Alone, Free
    <3>4. task[d].at # "idle"
      BY <3>1 DEF Uninterrupted
    <3>5. PICK t \in Callers : (t = d \/ t = lock) /\ Served(t)
      BY <3>2, <3>3, <3>4, LoopServed
    <3> QED
      BY <3>1, <3>5
  <2> QED
    BY <2>2, <2>3
<1> QED
  BY <1>1, AlwaysSound, AlwaysBearings, PTL

(***************************************************************************)
(* The safe half of ExitReturns: the exit waits for no lock and no loop,   *)
(* and the thread it joins has been asked to stop.                         *)
(***************************************************************************)
THEOREM ExitDoesNotBlock == Spec => []ExitGoesOn
<1>1. Sound /\ Bearings => ExitGoesOn
  <2> SUFFICES ASSUME Sound, Bearings, torn = {}, exit = "draining"
               PROVE  task[Main] = Idle \/ task[Main].at = "cleaning" \/ Served(Main)
    BY DEF ExitGoesOn
  <2>1. Main \in Tasks
    BY DEF Tasks
  <2>2. task[Main] = Idle \/ task[Main].at \in {"joining", "counting", "cleaning"}
    BY <2>1 DEF Bearings, AtRest, DrainStates
  <2> QED
    BY <2>1, <2>2, DrainsServed
<1> QED
  BY <1>1, AlwaysSound, AlwaysBearings, PTL
=============================================================================
