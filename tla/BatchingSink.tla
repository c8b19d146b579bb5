---------------------------- MODULE BatchingSink ----------------------------
(***************************************************************************)
(* The sinks built on BatchingMixin (plugins/sinks/_batching.py): HttpSink *)
(* and WebhookSink, LokiSink, CloudWatchSink and PostgresSink, with the    *)
(* client pool (ResourcePool), the retries and the sinks' own circuit      *)
(* breaker (CircuitBreaker) they send through.                             *)
(*                                                                         *)
(* All tasks run on the worker loop and the batch lock guards no await, so *)
(* an event is appended, and a full batch taken, in one step.  A send is   *)
(* suspended while it waits for a client, while a request is under way and *)
(* between two attempts.  The senders are the workers inside write(), the  *)
(* flush loop each start() creates, and the owner inside stop().           *)
(*                                                                         *)
(* The service is external: it stores a request or does not, and its reply *)
(* arrives or is lost.  CloudWatch also checks a sequence token.           *)
(***************************************************************************)
EXTENDS CircuitBreaker, ResourcePool, FiniteSets

CONSTANTS
  Kinds,        \* the sinks considered: subset of SinkKind
  Writers,      \* workers that may be inside write() at the same time
  Owner,        \* the task that calls stop()
  BatchSize,    \* batch_size
  MaxAttempts,  \* max_retries, or max_attempts of the retrier
  MaxEvents,    \* bound: events written
  MaxStarts     \* bound: calls of start()

SinkKind == {"http", "loki", "cloudwatch", "postgres"}

ASSUME BatchingAssumption ==
  /\ Kinds \subseteq SinkKind
  /\ IsFiniteSet(Writers)
  /\ Owner \notin Writers /\ Nat \cap (Writers \cup {Owner}) = {}
  /\ BatchSize \in Nat \ {0} /\ MaxAttempts \in Nat \ {0}
  /\ MaxEvents \in Nat /\ MaxStarts \in Nat

Events == 1 .. MaxEvents
Loops == 1 .. MaxStarts
Senders == Writers \cup Loops \cup {Owner}
NoLoop == 0

VARIABLES
  kind,       \* which sink this is
  phase,      \* the owner: "new", "running", "stopping", "closing", "stopped"
  up,         \* _client (or _pool) is set; for HTTP the pool is used instead
  loops,      \* the flush loops that are alive
  flushTask,  \* _flush_task
  starts,     \* calls of start(), counted for the bound
  batch,      \* _batch
  timed,      \* _batch_first_time is set
  send,       \* what each sender is doing
  breaker,    \* _circuit_breaker
  pool,       \* the pool of HTTP clients
  token,      \* _sequence_token; 0 for None
  service,    \* external: the token CloudWatch expects, how often it has each event
  lost,       \* history: a request was stored and its reply lost
  written,    \* events written so far: they are 1 .. written
  fate        \* what became of each event

ownerVars == <<phase, up, loops, flushTask, starts>>
batchVars == <<batch, timed>>
serviceVars == <<token, service, lost>>
vars == <<kind, ownerVars, batchVars, send, breaker, pool, serviceVars, written, fate>>

(***************************************************************************)
(* What is known of an event: whether it was written while the sink was    *)
(* running (not before start() nor from stop() on), and whether the send   *)
(* it was part of is "over", however it went, or the event was "discarded" *)
(* because the sink had no client to send it with.                         *)
(***************************************************************************)
Outcome == {"pending", "over", "discarded"}
NoFate == [running |-> FALSE, outcome |-> "pending"]

Idle == [pc |-> "idle", events |-> {}, attempt |-> 0, client |-> NoClient, token |-> 0]

TypeOK ==
  /\ kind \in Kinds
  /\ phase \in {"new", "running", "stopping", "closing", "stopped"}
  /\ up \in BOOLEAN
  /\ loops \subseteq Loops /\ flushTask \in Loops \cup {NoLoop}
  /\ starts \in 0 .. MaxStarts
  /\ batch \in Seq(Events) /\ timed \in BOOLEAN
  /\ send \in [Senders ->
       [pc : {"idle", "waiting", "posting", "failing", "sleeping"}, events : SUBSET Events,
        attempt : 0 .. MaxAttempts, client : Clients \cup {NoClient}, token : Nat]]
  /\ breaker \in Breaker
  /\ pool \in [idle : Seq(Clients), created : 0 .. MaxClients, inUse : Int,
               closed : BOOLEAN, dead : SUBSET Clients]
  /\ token \in Nat
  /\ service \in [expects : Nat, copies : [Events -> Nat]]
  /\ lost \in BOOLEAN
  /\ written \in 0 .. MaxEvents
  /\ fate \in [Events -> [running : BOOLEAN, outcome : Outcome]]

Init ==
  /\ kind \in Kinds
  /\ phase = "new" /\ up = FALSE /\ loops = {} /\ flushTask = NoLoop /\ starts = 0
  /\ batch = <<>> /\ timed = FALSE
  /\ send = [t \in Senders |-> Idle]
  /\ breaker = NewBreaker /\ pool = NewPool
  /\ token = 0 /\ lost = FALSE
  /\ service = [expects |-> 0, copies |-> [e \in Events |-> 0]]
  /\ written = 0 /\ fate = [e \in Events |-> NoFate]

EventsOf(b) == {b[i] : i \in 1 .. Len(b)}

\* The fates once the events in es have ended as o.
Settled(f, es, o) ==
  [e \in Events |-> IF e \in es THEN [f[e] EXCEPT !.outcome = o] ELSE f[e]]

-----------------------------------------------------------------------------
(* _send_batch, up to where it is first suspended. *)

\* An attempt to send es as it starts; once stop() has let go of the client it
\* fails on the spot.
Request(es, n, c) ==
  [pc |-> IF kind # "http" /\ ~up THEN "failing" ELSE "posting",
   events |-> es, attempt |-> n, client |-> c, token |-> token]

Waiting(es) ==
  [pc |-> "waiting", events |-> es, attempt |-> 0, client |-> NoClient, token |-> 0]

\* HTTP: the client is at hand, or one is created, or the sender waits for one.
SendHttp(t, es) ==
  /\ IF HasIdle(pool) \/ MayCreate(pool)
       THEN /\ send' = [send EXCEPT ![t] = Request(es, 1, NextClient(pool))]
            /\ pool' = AcquiredFrom(pool)
       ELSE /\ send' = [send EXCEPT ![t] = Waiting(es)]
            /\ UNCHANGED pool
  /\ UNCHANGED breaker

\* CloudWatch asks its circuit breaker before it looks for its client.
Asks == up \/ kind = "cloudwatch"

\* The others send with a client and the leave of the breaker.
SendGuarded(t, es) ==
  /\ IF up /\ Allows(breaker)
       THEN send' = [send EXCEPT ![t] = Request(es, 1, NoClient)]
       ELSE UNCHANGED send
  /\ breaker' = IF Asks THEN Asked(breaker) ELSE breaker
  /\ UNCHANGED pool

\* What has become of the events when _send_batch returns without a request.
Unsent(f, es) ==
  IF kind = "http" \/ (up /\ Allows(breaker))
    THEN f
    ELSE Settled(f, es, IF Asks /\ ~Allows(breaker) THEN "over" ELSE "discarded")

\* f is the fates before the send.
SendBatch(t, es, f) ==
  /\ IF kind = "http" THEN SendHttp(t, es) ELSE SendGuarded(t, es)
  /\ fate' = Unsent(f, es)

\* Mutant: the batch that was taken stays where it is.
KeepBatch == UNCHANGED batch /\ timed' = FALSE

\* The batch is taken under the lock.
ClearBatch == batch' = <<>> /\ timed' = FALSE

-----------------------------------------------------------------------------
(* The workers and the flush loops. *)

\* Mutant: the time is taken only when the batch has events already.
StampLate == timed \/ batch # <<>>

\* Whether _batch_first_time is set after an append.
Stamp == timed \/ batch = <<>>

\* write(), write_serialized(): the event joins the batch; a full batch is sent.
Write(w) ==
  /\ send[w] = Idle /\ written < MaxEvents
  /\ LET e == written + 1
         f == [fate EXCEPT ![e].running = (phase = "running")]
     IN /\ written' = e
        /\ IF Len(batch) + 1 >= BatchSize
             THEN /\ ClearBatch
                  /\ SendBatch(w, EventsOf(batch) \cup {e}, f)
             ELSE /\ batch' = Append(batch, e) /\ timed' = Stamp
                  /\ fate' = f
                  /\ UNCHANGED <<send, breaker, pool>>
  /\ UNCHANGED <<kind, ownerVars, serviceVars>>

\* _flush_loop wakes up to a batch that is overdue: the time since the first
\* event is not kept, so any batch that carries a time may be.
LoopFlush(l) ==
  /\ l \in loops /\ send[l] = Idle
  /\ batch # <<>> /\ timed
  /\ ClearBatch /\ SendBatch(l, EventsOf(batch), fate)
  /\ UNCHANGED <<kind, ownerVars, serviceVars, written>>

\* A sender waiting in acquire() gets a client that was released.
GetClient(t) ==
  /\ send[t].pc = "waiting" /\ HasIdle(pool)
  /\ send' = [send EXCEPT ![t] = Request(@.events, 1, NextClient(pool))]
  /\ pool' = AcquiredFrom(pool)
  /\ UNCHANGED <<kind, ownerVars, batchVars, breaker, serviceVars, written, fate>>

\* acquire_timeout_seconds pass: BackpressureError, contained by _send_batch.
GiveUpWaiting(t) ==
  /\ send[t].pc = "waiting"
  /\ send' = [send EXCEPT ![t] = Idle]
  /\ fate' = Settled(fate, send[t].events, "over")
  /\ UNCHANGED <<kind, ownerVars, batchVars, breaker, pool, serviceVars, written>>

-----------------------------------------------------------------------------
(***************************************************************************)
(* The reply to a request.  "ok": stored and acknowledged.  "refused": an  *)
(* answer the sink does not retry.  "failed": an error it does.  "lost",   *)
(* "lost_final": stored, but the sink sees an error (one it retries, one   *)
(* it does not).  "quiet": Loki's 429.  "throttled": CloudWatch's, which   *)
(* no diagnostic mentions.  "token": CloudWatch's sequence token errors,   *)
(* InvalidSequenceToken as well as DataAlreadyAccepted; "missing": its log *)
(* group or stream does not exist and cannot be made.  A request that was  *)
(* under way when stop() let go of the client may end in any of these.     *)
(***************************************************************************)
Replies(t) ==
  CASE send[t].pc = "failing" -> {"failed"}
    [] send[t].pc # "failing" /\ kind = "http" ->
         IF send[t].client \in pool.dead
           THEN {"refused", "lost_final"}
           ELSE {"ok", "refused", "failed", "lost", "lost_final"}
    [] send[t].pc # "failing" /\ kind = "loki" ->
         {"ok", "refused", "failed", "lost", "quiet"}
    [] send[t].pc # "failing" /\ kind = "postgres" -> {"ok", "failed", "lost"}
    [] send[t].pc # "failing" /\ kind = "cloudwatch" ->
         IF send[t].token = service.expects
           THEN {"ok", "failed", "lost", "throttled", "missing"}
           ELSE {"token", "failed", "throttled", "missing"}

Stores(r) == r \in {"ok", "lost", "lost_final"}

\* Mutant: an acknowledged request is retried like a failed one.
RetriesAcknowledged(r) == r \in {"ok", "failed", "lost", "quiet", "throttled", "token"}

\* The replies after which the next attempt is made.
Retries(r) == r \in {"failed", "lost", "quiet", "throttled", "token"}

\* What the sink's own breaker is told.
Told(r) ==
  CASE kind = "http" \/ r \in {"quiet", "token", "missing"} -> breaker
    [] kind # "http" /\ r = "ok" -> Succeeded(breaker)
    [] OTHER -> Failed(breaker)

\* The service takes the events, and the token moves on.
Stored(es) ==
  [expects |-> IF kind = "cloudwatch" THEN service.expects + 1 ELSE 0,
   copies |-> [e \in Events |-> IF e \in es THEN service.copies[e] + 1
                                            ELSE service.copies[e]]]

\* A request ends with reply r: the send goes on, at once or after a delay, or
\* is over and the client goes back to the pool.
Reply(t) ==
  /\ send[t].pc \in {"posting", "failing"}
  /\ \E r \in Replies(t) :
       LET es == send[t].events
           more == Retries(r) /\ send[t].attempt < MaxAttempts
       IN /\ service' = IF Stores(r) THEN Stored(es) ELSE service
          /\ lost' = (lost \/ (Stores(r) /\ r # "ok"))
          /\ token' = IF kind = "cloudwatch" /\ r \in {"ok", "token"}
                        THEN service'.expects ELSE token
          /\ breaker' = Told(r)
          /\ IF more
               THEN /\ send' = [send EXCEPT ![t].pc = "sleeping"]
                    /\ UNCHANGED <<pool, fate>>
               ELSE /\ send' = [send EXCEPT ![t] = Idle]
                    /\ pool' = IF kind = "http" THEN ReleasedTo(pool, send[t].client)
                                                ELSE pool
                    /\ fate' = Settled(fate, es, "over")
  /\ UNCHANGED <<kind, ownerVars, batchVars, written>>

\* The next attempt starts, with the token the sink has by then.
Retry(t) ==
  /\ send[t].pc = "sleeping"
  /\ send' = [send EXCEPT ![t] = Request(@.events, @.attempt + 1, @.client)]
  /\ UNCHANGED <<kind, ownerVars, batchVars, breaker, pool, serviceVars, written, fate>>

\* The sink's breaker recovers as time passes.
Elapse ==
  /\ breaker # Aged(breaker) /\ breaker' = Aged(breaker)
  /\ UNCHANGED <<kind, ownerVars, batchVars, send, pool, serviceVars, written, fate>>

-----------------------------------------------------------------------------
(* start() and stop(). *)

\* start(): a client and a breaker of its own, and a flush loop.  Two first
\* writes may both start the sink: the handle of the first loop is overwritten.
Start ==
  /\ phase \in {"new", "running", "stopped"} /\ starts < MaxStarts
  /\ starts' = starts + 1 /\ phase' = "running"
  /\ up' = (kind # "http")
  /\ breaker' = NewBreaker
  /\ pool' = IF kind = "http" THEN Reopened(pool) ELSE pool
  /\ IF BatchSize > 1
       THEN loops' = loops \cup {starts + 1} /\ flushTask' = starts + 1
       ELSE UNCHANGED <<loops, flushTask>>
  /\ UNCHANGED <<kind, batchVars, send, serviceVars, written, fate>>

\* The request a cancelled flush loop had under way may have been stored.
CutRequest(l) ==
  \/ UNCHANGED <<service, lost>>
  \/ /\ send[l].pc = "posting"
     /\ "ok" \in Replies(l)
     /\ service' = Stored(send[l].events) /\ lost' = TRUE

\* stop() of a sink that runs.  _stop_batching: the flush loop is cancelled,
\* wherever it is; a client it holds goes back to the pool.
BeginStop ==
  /\ phase = "running"
  /\ phase' = "stopping"
  /\ IF flushTask = NoLoop
       THEN UNCHANGED <<loops, flushTask, send, pool, service, lost, fate>>
       ELSE /\ loops' = loops \ {flushTask} /\ flushTask' = NoLoop
            /\ CutRequest(flushTask)
            /\ send' = [send EXCEPT ![flushTask] = Idle]
            /\ pool' = IF send[flushTask].client # NoClient
                         THEN ReleasedTo(pool, send[flushTask].client) ELSE pool
            /\ fate' = Settled(fate, send[flushTask].events, "over")
  /\ UNCHANGED <<kind, up, starts, batchVars, breaker, token, written>>

\* Mutant: what is left in the batch stays there.
LeaveRest ==
  /\ phase = "stopping" /\ phase' = "closing"
  /\ UNCHANGED <<kind, up, loops, flushTask, starts, batchVars, send, breaker, pool,
                 serviceVars, written, fate>>

\* ... and what is left in the batch is sent.
FlushRest ==
  /\ phase = "stopping" /\ phase' = "closing"
  /\ IF batch = <<>>
       THEN UNCHANGED <<batch, timed, send, breaker, pool, fate>>
       ELSE ClearBatch /\ SendBatch(Owner, EventsOf(batch), fate)
  /\ UNCHANGED <<kind, up, loops, flushTask, starts, serviceVars, written>>

\* The clients are closed under whoever uses them; the PostgreSQL pool waits
\* for its connections to come back.
Close ==
  /\ phase = "closing" /\ send[Owner] = Idle
  /\ kind = "postgres" => \A t \in Senders : send[t].pc # "posting"
  /\ phase' = "stopped" /\ up' = FALSE
  /\ pool' = IF kind = "http" THEN CleanedUp(pool) ELSE pool
  /\ UNCHANGED <<kind, loops, flushTask, starts, batchVars, send, breaker, serviceVars,
                 written, fate>>

-----------------------------------------------------------------------------
SenderStep(t) == GetClient(t) \/ GiveUpWaiting(t) \/ Reply(t) \/ Retry(t)
LoopStep(l) == LoopFlush(l) \/ SenderStep(l)
OwnerStep == FlushRest \/ Close \/ SenderStep(Owner)

Next ==
  \/ \E w \in Writers : Write(w) \/ SenderStep(w)
  \/ \E l \in Loops : LoopStep(l)
  \/ Start \/ BeginStop \/ OwnerStep
  \/ Elapse

Spec == Init /\ [][Next]_vars

\* Timers fire, requests are answered or time out, and the loop runs its tasks.
FairSpec ==
  /\ Spec
  /\ \A w \in Writers : WF_vars(SenderStep(w))
  /\ \A l \in Loops : WF_vars(LoopStep(l))
  /\ WF_vars(OwnerStep)

-----------------------------------------------------------------------------
(* Properties *)

\* An event that was written is in the batch, in the hands of one sender, or
\* its send is over: no two of these, and no event twice (_batching.py:40-85:
\* three ways to take the batch that must not take the same one).
OneHolder ==
  /\ \A i, j \in 1 .. Len(batch) : batch[i] = batch[j] => i = j
  /\ \A s, t \in Senders : s # t => send[s].events \cap send[t].events = {}
  /\ \A t \in Senders : send[t].events \cap EventsOf(batch) = {}
  /\ \A e \in Events :
       (e \in EventsOf(batch) \/ \E t \in Senders : e \in send[t].events)
         <=> (e <= written /\ fate[e].outcome = "pending")

\* As long as no reply is lost, no event is stored twice, whatever is retried:
\* the retries repeat only what the service has not taken.
StoredOnce == ~lost => \A e \in Events : service.copies[e] <= 1

\* A client is idle or with one sender, never more than MaxClients exist, and
\* until the pool is first closed the count of clients in use is right.
PoolExclusive ==
  LET holders == {t \in Senders : send[t].client # NoClient}
  IN /\ pool.created <= MaxClients
     /\ \A s, t \in holders : send[s].client = send[t].client => s = t
     /\ \A t \in holders : send[t].client \notin EventsOf(pool.idle)
     /\ \A i, j \in 1 .. Len(pool.idle) : pool.idle[i] = pool.idle[j] => i = j
     /\ pool.dead = {} => pool.inUse = Cardinality(holders)

\* stop() sends what was written while the sink ran before it lets go of the
\* client: no such event is discarded for want of one.
NothingDiscarded ==
  \A e \in Events : fate[e].running => fate[e].outcome # "discarded"

\* An event written while the sink runs does not stay in the batch for ever, and
\* its send ends (the flush loop, or stop(), takes it; every wait has a timeout).
WrittenIsSettled ==
  \A e \in Events : fate[e].running ~> fate[e].outcome # "pending"
=============================================================================
