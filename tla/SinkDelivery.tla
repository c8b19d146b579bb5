---------------------------- MODULE SinkDelivery ----------------------------
(***************************************************************************)
(* SinkWriterGroup (core/sink_writers.py): concurrent writes of events     *)
(* fanned out to the sinks of a logger, each behind its circuit breaker,   *)
(* with the fallback routing of __init__._resolve_fallback_writers.        *)
(*                                                                         *)
(* A writer is one call of SinkWriterGroup.write that may be suspended:    *)
(* another worker, or another event of the same batch when                 *)
(* sink_concurrency is above one, is another writer.  All of them run on   *)
(* the worker loop, so control changes hands only where a sink's start()   *)
(* or write() is awaited (and where asyncio.gather starts its tasks).      *)
(*                                                                         *)
(* The sinks are the environment: a sink that is down makes start() and    *)
(* write() fail, a sink that is up makes them succeed, and the answer      *)
(* comes whenever it comes.                                                *)
(***************************************************************************)
EXTENDS CircuitBreaker, FiniteSets

CONSTANTS
  NumSinks,     \* sinks of the group, in the order they were configured
  Writers,      \* concurrent calls of the group's write or write_serialized
  ParallelModes,\* the values of sink_parallel_writes considered
  Fallback,     \* the sink sink_circuit_breaker_fallback_sink names, or 0
  Plain,        \* the sinks that have no write_serialized
  Fragile,      \* the sinks that may fail
  MaxOutages,   \* bound: times a sink goes down
  MaxBoost      \* bound: the pressure boost is cut off here

Sinks == 1 .. NumSinks

ASSUME DeliveryAssumption ==
  /\ NumSinks \in Nat \ {0}
  /\ IsFiniteSet(Writers)
  /\ ParallelModes \subseteq BOOLEAN
  /\ Fallback \in {0} \cup Sinks
  /\ Plain \subseteq Sinks /\ Fragile \subseteq Sinks
  /\ MaxOutages \in Nat
  /\ MaxBoost \in Nat /\ MaxBoost >= NumSinks

VARIABLES
  parallel,  \* SinkWriterGroup._parallel
  breaker,   \* the breaker of each sink
  boost,     \* PressureMonitor._circuit_boost, in units of circuit_pressure_boost
  started,   \* the sinks whose _started attribute is set
  view,      \* the writers whose call is write_serialized
  call,      \* for each writer and sink, how far the event has come there
  down,      \* the sinks that are failing now
  outages,   \* how often a sink has gone down, counted for the bound
  broken,    \* history: the sinks that have been down
  probing,   \* history: the writers admitted in the current half-open spell
  rest       \* history: ticks since a write of the sink last failed

deliveryVars ==
  <<parallel, breaker, boost, started, view, call, down, outages, broken,
    probing, rest>>

(***************************************************************************)
(* "waiting": not reached; "granted", "refused": a task of gather that has *)
(* not run; "starting", "writing": inside start() or write() of the sink   *)
(* (or write_serialized()); "fb_starting", "fb_writing": the same of the   *)
(* fallback sink.  The others are the outcomes: "failed" and "lost" end in *)
(* handle_sink_write_failure, "swallowed" is the AttributeError of a sink  *)
(* without write_serialized, which counts as success.                      *)
(***************************************************************************)
InProgress == {"granted", "refused", "starting", "writing", "fb_starting", "fb_writing"}
Outcomes == {"written", "swallowed", "failed", "rerouted", "lost", "skipped"}

\* The writer has a sink's write() or start() under way.
InFlight(w, s) == call[w][s] \in {"starting", "writing"}

\* write() has returned: every sink has had its turn.
Returned(w) == \A s \in Sinks : call[w][s] \in Outcomes

TypeOK ==
  /\ parallel \in ParallelModes
  /\ view \subseteq Writers
  /\ breaker \in [Sinks -> Breaker]
  /\ boost \in 0 .. MaxBoost
  /\ started \subseteq Sinks
  /\ call \in [Writers -> [Sinks -> {"waiting"} \cup InProgress \cup Outcomes]]
  /\ down \subseteq Sinks
  /\ outages \in 0 .. MaxOutages
  /\ broken \subseteq Sinks
  /\ probing \in [Sinks -> SUBSET Writers]
  /\ rest \in [Sinks -> 0 .. RecoveryTime]

\* Before its first event a writer is as after an event every sink took.
DeliveryInit ==
  /\ parallel \in ParallelModes
  /\ view = {}
  /\ breaker = [s \in Sinks |-> NewBreaker]
  /\ boost = 0
  /\ started = {}
  /\ call = [w \in Writers |-> [s \in Sinks |-> "written"]]
  /\ down = {}
  /\ outages = 0
  /\ broken = {}
  /\ probing = [s \in Sinks |-> {}]
  /\ rest = [s \in Sinks |-> 0]

-----------------------------------------------------------------------------
\* The sink s has a fallback: every sink but the fallback sink itself.
HasFallback(s) == Fallback # 0 /\ s # Fallback

\* The sink whose start() and write() a phase is about.
Target(s, phase) == IF phase \in {"fb_starting", "fb_writing"} THEN Fallback ELSE s

\* _sink_write starts the sink t unless that has been done;
\* _sink_write_serialized goes straight to the sink.
MustStart(w, t) == w \notin view /\ t \notin started

AdmittedPhase(w, s) == IF MustStart(w, s) THEN "starting" ELSE "writing"

\* _write_one and _write_parallel, refused: take the fallback or skip the sink.
RefusedPhase(w, s) ==
  IF HasFallback(s)
    THEN IF MustStart(w, Fallback) THEN "fb_starting" ELSE "fb_writing"
    ELSE "skipped"

SetPhase(w, s, phase) == call' = [call EXCEPT ![w][s] = phase]

\* The set of writers probing s once w has asked for it: history.
ProbingAfter(w, s) ==
  IF ~Allows(breaker[s]) \/ breaker[s].state = "closed" THEN probing[s]
  ELSE IF breaker[s].state = "open" THEN {w} ELSE probing[s] \cup {w}

\* write(), one sink at a time: _write_sequential begins; and
\* write_serialized(), which is sequential in either mode.
BeginSequential(w, serialized) ==
  /\ serialized \/ ~(parallel /\ NumSinks > 1)
  /\ Returned(w)
  /\ view' = IF serialized THEN view \cup {w} ELSE view \ {w}
  /\ call' = [call EXCEPT ![w] = [s \in Sinks |-> "waiting"]]
  /\ UNCHANGED <<parallel, breaker, boost, started, down, outages, broken, probing, rest>>

\* write(), all sinks at once: _write_parallel asks the breaker of every sink
\* in turn and makes the tasks; gather has not run them yet.
BeginParallel(w) ==
  /\ parallel /\ NumSinks > 1
  /\ Returned(w)
  /\ view' = view \ {w}
  /\ breaker' = [s \in Sinks |-> Asked(breaker[s])]
  /\ call' = [call EXCEPT ![w] = [s \in Sinks |->
                 IF Allows(breaker[s]) THEN "granted"
                 ELSE IF HasFallback(s) THEN "refused" ELSE "skipped"]]
  /\ probing' = [s \in Sinks |-> ProbingAfter(w, s)]
  /\ UNCHANGED <<parallel, boost, started, down, outages, broken, rest>>

\* _write_one can run for s: it is the sink's turn, or its task was made.
Ready(w, s) ==
  \/ call[w][s] = "granted"
  \/ call[w][s] = "waiting" /\ \A t \in Sinks : t < s => call[w][t] \in Outcomes

\* _write_one asks the breaker and is admitted, up to the first await.
Admit(w, s) ==
  /\ Ready(w, s)
  /\ Allows(breaker[s])
  /\ breaker' = [breaker EXCEPT ![s] = Asked(@)]
  /\ SetPhase(w, s, AdmittedPhase(w, s))
  /\ probing' = [probing EXCEPT ![s] = ProbingAfter(w, s)]
  /\ UNCHANGED <<parallel, boost, started, view, down, outages, broken, rest>>

\* _write_one asks the breaker and is refused, up to the first await.
Refuse(w, s) ==
  /\ Ready(w, s)
  /\ ~Allows(breaker[s])
  /\ SetPhase(w, s, RefusedPhase(w, s))
  /\ UNCHANGED <<parallel, breaker, boost, started, view, down, outages, broken, probing, rest>>

\* The task _write_parallel made for a refused sink runs _write_fallback.
RunFallback(w, s) ==
  /\ call[w][s] = "refused"
  /\ SetPhase(w, s, RefusedPhase(w, s))
  /\ UNCHANGED <<parallel, breaker, boost, started, view, down, outages, broken, probing, rest>>

\* _sink_write: start() answers; if it failed, write() is called all the same.
StartEnds(w, s) ==
  /\ call[w][s] \in {"starting", "fb_starting"}
  /\ started' = started \cup ({Target(s, call[w][s])} \ down)
  /\ SetPhase(w, s, IF call[w][s] = "starting" THEN "writing" ELSE "fb_writing")
  /\ UNCHANGED <<parallel, breaker, boost, view, down, outages, broken, probing, rest>>

\* The call of a sink that has no write_serialized.
Swallowed(w, s) == w \in view /\ s \in Plain

\* _write_one: write() returned anything but False.
WriteSucceeds(w, s) ==
  /\ call[w][s] = "writing"
  /\ Swallowed(w, s) \/ s \notin down
  /\ breaker' = [breaker EXCEPT ![s] = Succeeded(@)]
  /\ boost' = IF EmitsClosed(breaker[s]) /\ boost > 0 THEN boost - 1 ELSE boost
  /\ SetPhase(w, s, IF Swallowed(w, s) THEN "swallowed" ELSE "written")
  /\ probing' = [probing EXCEPT ![s] = {}]
  /\ UNCHANGED <<parallel, started, view, down, outages, broken, rest>>

\* Mutant: one breaker for all sinks.
FailureOfAll(s) == [t \in Sinks |-> Failed(breaker[t])]

\* record_failure() on the breaker of s, and of no other sink.
FailureOf(s) == [breaker EXCEPT ![s] = Failed(@)]

\* _write_one: write() returned False or raised; the failure is recorded,
\* handed to handle_sink_write_failure and contained.
WriteFails(w, s) ==
  /\ call[w][s] = "writing"
  /\ ~Swallowed(w, s) /\ s \in down
  /\ breaker' = FailureOf(s)
  /\ boost' = IF EmitsOpen(breaker[s]) /\ boost < MaxBoost THEN boost + 1 ELSE boost
  /\ SetPhase(w, s, "failed")
  /\ probing' = [probing EXCEPT ![s] = {}]
  /\ rest' = [rest EXCEPT ![s] = 0]
  /\ UNCHANGED <<parallel, started, view, down, outages, broken>>

\* _write_fallback: the fallback sink answers, or raises; no breaker is told,
\* and a False it answers with is counted as written.
FallbackEnds(w, s) ==
  /\ call[w][s] = "fb_writing"
  /\ \/ Swallowed(w, Fallback) /\ SetPhase(w, s, "swallowed")
     \/ ~Swallowed(w, Fallback) /\ SetPhase(w, s, "rerouted")
     \/ ~Swallowed(w, Fallback) /\ Fallback \in down /\ SetPhase(w, s, "lost")
  /\ UNCHANGED <<parallel, breaker, boost, started, view, down, outages, broken, probing, rest>>

-----------------------------------------------------------------------------
\* The environment: a sink fails and recovers, time passes.
Break(s) ==
  /\ s \in Fragile \ down /\ outages < MaxOutages
  /\ down' = down \cup {s}
  /\ outages' = outages + 1
  /\ broken' = broken \cup {s}
  /\ UNCHANGED <<parallel, breaker, boost, started, view, call, probing, rest>>

Heal(s) ==
  /\ s \in down
  /\ down' = down \ {s}
  /\ UNCHANGED <<parallel, breaker, boost, started, view, call, outages, broken, probing, rest>>

Elapse ==
  /\ breaker' = [s \in Sinks |-> Aged(breaker[s])]
  /\ rest' = [s \in Sinks |->
       IF breaker[s].state = "open" /\ rest[s] < RecoveryTime THEN rest[s] + 1 ELSE rest[s]]
  /\ UNCHANGED <<parallel, boost, started, view, call, down, outages, broken, probing>>

Begin(w) == BeginParallel(w) \/ \E serialized \in BOOLEAN : BeginSequential(w, serialized)

\* What the worker loop runs without waiting for anybody.
Proceed(w, s) == Admit(w, s) \/ Refuse(w, s) \/ RunFallback(w, s)

\* What waits for a sink to answer.
Answer(w, s) ==
  StartEnds(w, s) \/ WriteSucceeds(w, s) \/ WriteFails(w, s) \/ FallbackEnds(w, s)

DeliveryStep ==
  \E w \in Writers : Begin(w) \/ \E s \in Sinks : Proceed(w, s) \/ Answer(w, s)

Outage == \E s \in Sinks : Break(s) \/ Heal(s)

DeliveryNext == DeliveryStep \/ Outage \/ Elapse

DeliverySpec == DeliveryInit /\ [][DeliveryNext]_deliveryVars

(***************************************************************************)
(* The loop runs every task that is ready and the clock goes on.  That     *)
(* sinks answer and that the application keeps logging is not the code's   *)
(* to promise: the properties that need it say so.                         *)
(***************************************************************************)
LoopFairness ==
  /\ \A w \in Writers : WF_deliveryVars(\E s \in Sinks : Proceed(w, s))
  /\ WF_deliveryVars(Elapse)

SinksAnswer == \A w \in Writers : WF_deliveryVars(\E s \in Sinks : Answer(w, s))
TrafficFlows == \A w \in Writers : WF_deliveryVars(Begin(w))

-----------------------------------------------------------------------------
NotClosed == {s \in Sinks : breaker[s].state # "closed"}

(***************************************************************************)
(* A half-open circuit waits for its probes, and for nothing else: the     *)
(* calls should_allow counted are exactly the writes under way that it let *)
(* through in this spell, at least one and at most half_open_max_calls.    *)
(* (With none under way nobody could ever move the circuit on.)  It needs  *)
(* _write_sequential, which asks the breaker once for each write.          *)
(***************************************************************************)
ProbesUnderway ==
  ~parallel => \A s \in Sinks : breaker[s].state = "half_open" =>
    /\ probing[s] # {}
    /\ Cardinality(probing[s]) = breaker[s].probes
    /\ breaker[s].probes <= ProbeMax
    /\ \A w \in probing[s] : InFlight(w, s)

(***************************************************************************)
(* However late the answers of earlier writes arrive, an open circuit lets *)
(* a probe through only when recovery_timeout_seconds have passed since    *)
(* the last failure the sink returned (circuit_breaker.should_allow).      *)
(***************************************************************************)
BackoffAfterFailure ==
  [][\A s \in Sinks :
       breaker[s].state = "open" /\ breaker[s]'.state # "open" => rest[s] >= RecoveryTime
    ]_deliveryVars

(***************************************************************************)
(* The pressure monitor never counts too few circuits: while the breakers  *)
(* of k sinks are open or half-open, the boost is at least k times         *)
(* circuit_pressure_boost (pressure.on_circuit_state_change).              *)
(***************************************************************************)
BoostCoversOpen == boost >= Cardinality(NotClosed)

(***************************************************************************)
(* Failures stay where they happen: a sink that has never been down has    *)
(* its circuit closed, and no event ever missed it or went round it,       *)
(* whatever the other sinks, their breakers and the fallback did.          *)
(***************************************************************************)
Isolation ==
  \A s \in Sinks \ broken :
    /\ breaker[s].state = "closed"
    /\ \A w \in Writers : call[w][s] \notin Outcomes \ {"written", "swallowed"}

\* circuit-breaker.md: after recovery_timeout a probe is sent, and its success
\* closes the circuit.
CircuitsClose ==
  \A s \in Sinks : <>[](s \notin down) => <>[](breaker[s].state = "closed")

(***************************************************************************)
(* One sink at a time, a sink that is up for good gets its circuit closed  *)
(* for good, provided sinks answer and events keep coming: no late answer  *)
(* and no exhausted probe leaves it open or half-open.                     *)
(***************************************************************************)
Recovers == ~parallel /\ SinksAnswer /\ TrafficFlows => CircuitsClose
=============================================================================
